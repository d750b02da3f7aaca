------------------------------ MODULE MCFiles ------------------------------
(***************************************************************************)
(* Files for the models of downloads.  The checksum type "SHA256" is ideal; *)
(* "weak" stands for a chunk checksum whose digests collide, so that chunks *)
(* of one length cannot be told apart.                                      *)
(***************************************************************************)
EXTENDS SequencesExt

MCSum(t, units) == IF t = "weak" THEN <<t, Len(units)>> ELSE <<t, units>>

Bytes(data) == [n \in DOMAIN data |-> [byte |-> data[n]]]

Header(ck, chunks, uncompressed) ==
  [index |-> [ckType |-> ck,
              chunks |-> [n \in DOMAIN chunks |->
                [digest |-> MCSum(ck, Bytes(chunks[n])), compLength |-> Len(chunks[n])]]],
   uncompressed |-> uncompressed,
   dataChecksum |-> IF uncompressed THEN <<>>
                    ELSE MCSum("SHA256", Bytes(FlattenSeq(chunks)))]

Lead(header, detached) ==
  [detached |-> detached, ckType |-> "SHA256", checksum |-> MCSum("SHA256", <<header>>)]

File(ck, chunks, uncompressed) ==
  LET header == Header(ck, chunks, uncompressed)
  IN  <<Lead(header, FALSE), header>> \o Bytes(FlattenSeq(chunks))

Detached(file) == <<[file[1] EXCEPT !.detached = TRUE], file[2]>>

MCPaths == {"a", "b", "h"}

Holding(a, b, h) == [p \in MCPaths |-> CASE p = "a" -> a [] p = "b" -> b [] p = "h" -> h]

Get(local, header, out) ==
  [kind |-> "download", local |-> local, header |-> header, out |-> out]
Size(local) == [kind |-> "delta-size", local |-> local]
Emit(file, out) == [kind |-> "header", file |-> file, out |-> out]
=============================================================================
