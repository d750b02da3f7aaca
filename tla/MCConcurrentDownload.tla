------------------------ MODULE MCConcurrentDownload ------------------------
(***************************************************************************)
(* Servers, disks and command lines for ConcurrentDownload: bodies of two   *)
(* runs, the first of two chunks, whose chunk digests do not tell the       *)
(* published files apart; only the data checksum does.                      *)
(***************************************************************************)
EXTENDS ConcurrentDownload, MCFiles

Weak == File("weak", <<<<1>>, <<2>>, <<>>, <<3>>>>, FALSE)
Swap == File("weak", <<<<2>>, <<1>>, <<>>, <<3>>>>, FALSE)

(* A file whose only chunk of one byte is the last one.                     *)
Other == File("weak", <<<<2, 2>>, <<1>>>>, FALSE)

WeakCommands ==
  {Get("none", "none", "b"), Get("a", "none", "b"), Get("none", "h", "b"),
   Size("a"), Emit("a", "b")}

(* In h is the header of a file that the server holds or has held.          *)
WeakDisks == {Holding(Other, <<>>, Detached(Swap))}

WeakServers == {Weak, Swap}
=============================================================================
