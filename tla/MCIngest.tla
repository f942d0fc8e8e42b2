------------------------------ MODULE MCIngest ------------------------------
(* Small instances of Ingest. *)
EXTENDS Ingest, SequencesExt

CONSTANTS e1, e2, e3, bad

\* e1 is from a fast clock (or a recent event), e2 and e3 are old.
MCTs == [e \in Events |-> IF e = e1 THEN 1 ELSE 0]
\* e1 is sent long after the file it goes to was opened.
LaterTs == [e \in Events |-> IF e = e1 THEN 3 ELSE 0]
PairBatch == {<<e1, e2>>}
BadBatches == {<<e1>>, <<bad, e2>>}

\* All events have the same time, so none is stale.
SameTs == [e \in Events |-> 0]
OneEach == {<<e>> : e \in Events}

\* No client's clock is ahead of the server's.
ClocksAgree == \A p \in Handlers : \A e \in Range(req[p].rest) : Ts[e] <= now

HandlerSymmetry == Permutations(Handlers)

(***************************************************************************)
(* dedup.go: "Seen deliberately does not promote reads so replay order     *)
(* matches runtime order".  In the absence of faults and of stale events,  *)
(* the cache the handlers maintain is the one a restart would rebuild, in  *)
(* the same order, so the same ids are evicted next.  Replay cannot bring  *)
(* back the id of a body of several lines: older ids take its place.  A    *)
(* panic of the projector takes an id out of the cache whose line stays in *)
(* the log.                                                                *)
(***************************************************************************)
LogOrder == FlattenSeq([k \in DOMAIN files |-> FileLines(files[k])])

ReplayedDedup ==
    FoldLeft(AddLocked, <<>>, SelectSeq(LogOrder, LAMBDA x : x # Garbage))

ReplayOrderMatches ==
    proc = "up" /\ panicked = {} =>
        LET oneLine == SelectSeq(dedup, LAMBDA e : e \notin MultiLine)
        IN  /\ IsPrefix(oneLine, ReplayedDedup)
            /\ oneLine = dedup => ReplayedDedup = dedup
=============================================================================
