----------------------------- MODULE MCDownload -----------------------------
(***************************************************************************)
(* Servers, disks and command lines for Download.                           *)
(***************************************************************************)
EXTENDS Download, MCFiles

Old  == File("SHA256", <<<<1>>, <<2>>>>, FALSE)
New  == File("SHA256", <<<<2>>, <<>>, <<3>>, <<1>>>>, FALSE)
Raw  == File("SHA256", <<<<2>>>>, TRUE)
None == File("SHA256", <<>>, FALSE)

----------------------------------------------------------------------------
(* Retries: a download into a, whatever became of it used for one into b,   *)
(* over itself, and for its header.                                         *)

RetryCommands ==
  {Get("none", "none", "a"), Get("a", "none", "b"), Get("a", "none", "a"),
   Emit("a", "h"), Emit("a", "a"), Get("a", "h", "b"), Get("none", "b", "b"), Size("a")}

RetryDisks == {Holding(<<>>, <<>>, <<>>), Holding(Old, Raw, Detached(New))}

RetryServers == {Old, New, Front(New)}

----------------------------------------------------------------------------
(* Nothing fails: every combination of local copy and detached header.      *)

QuietCommands ==
  {Get(local, header, out) : local \in {"none", "a", "b"}, header \in {"none", "h"},
                             out \in {"a", "b"}}
    \cup {Emit("a", "h"), Emit("b", "h")} \cup {Size(local) : local \in {"none", "a", "b"}}

QuietDisks == {Holding(a, b, <<>>) : a \in {Old, Raw}, b \in {<<>>, New}}

QuietServers == {Old, New, Raw, None}

(* A download is killed, or not, and its OUT is the next one's local copy.  *)
ResumeCommands == {Get("none", "none", "a"), Get("a", "none", "b")}

EmptyDisk == {Holding(<<>>, <<>>, <<>>)}
=============================================================================
