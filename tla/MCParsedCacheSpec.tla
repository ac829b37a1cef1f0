------------------------- MODULE MCParsedCacheSpec -------------------------
(* Three texts of size 1, 2 and 5: "t1" and "t2" collide in the digest,    *)
(* "t5" exceeds the byte limit of 4.                                       *)
EXTENDS ParsedCacheSpec

MCArtifactSize == "t1" :> 1 @@ "t2" :> 2 @@ "t5" :> 5
MCDigest == "t1" :> "d" @@ "t2" :> "d" @@ "t5" :> "e"
MCLookups ==
    {[uri |-> u, text |-> t, contentRevision |-> r, digest |-> MCDigest[t], mode |-> m] :
        u \in {"a", "b"}, t \in DOMAIN MCDigest, r \in {0, 1}, m \in ParseModes}
=============================================================================
