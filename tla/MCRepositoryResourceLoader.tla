--------------------- MODULE MCRepositoryResourceLoader ---------------------
(***************************************************************************)
(* Two processes, a server with two bodies, an hour-glass clock.           *)
(***************************************************************************)
EXTENDS RepositoryResourceLoader

CONSTANTS old, new

MCBodies == {old, new}

MCDigest == [b \in MCBodies \cup {Torn} |->
                IF b = old THEN "md5 of old" ELSE IF b = new THEN "md5 of new" ELSE "md5 of torn"]

\* Two callers that want a certain body, one of them offline, and one of
\* an index file, which has no checksum.
MCRequests ==
    {[offline |-> FALSE, allowStale |-> TRUE, materialize |-> TRUE, expected |-> "md5 of new"],
     [offline |-> TRUE, allowStale |-> TRUE, materialize |-> FALSE, expected |-> "md5 of new"],
     [offline |-> FALSE, allowStale |-> FALSE, materialize |-> FALSE, expected |-> "md5 of old"],
     [offline |-> FALSE, allowStale |-> TRUE, materialize |-> FALSE, expected |-> None]}

\* A file of this hour, or one whose time lies in the future.
MCInitialFiles == [content : MCBodies, written : {0, 1}]
=============================================================================
