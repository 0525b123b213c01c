---------------------------- MODULE OpenFilesRing ----------------------------
(***************************************************************************)
(* The list of open files implements a ring of buffers.                    *)
(***************************************************************************)
EXTENDS OpenFiles

Ids(files) == [i \in DOMAIN files |-> files[i].id]

\* The list from the current buffer to its end, and from its beginning on.
View ==
    Ids(SubSeq(openfiles, openfile, Len(openfiles))
        \o SubSeq(openfiles, 1, openfile - 1))

Ring == INSTANCE BufferRing WITH
          Buffer <- 1..MaxBuffers, ring <- IF openfile = 0 THEN <<>> ELSE View

\* Opening, refusing to open, switching and closing move through the buffers as
\* on a ring, although the list has two ends.
BuffersFormARing == Ring!Spec
===============================================================================
