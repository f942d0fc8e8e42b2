----------------------------- MODULE EventStore -----------------------------
(***************************************************************************)
(* What the ingest path promises its clients and its readers, without      *)
(* files, caches or handlers: a log of events, the events that were        *)
(* acknowledged, and the view that queries read.                           *)
(***************************************************************************)
CONSTANT Events

VARIABLES
    log,        \* events stored for good (or until retention)
    acked,      \* events acknowledged to a client
    view        \* events queries can see

storeVars == <<log, acked, view>>

StoreInit == log = {} /\ acked = {} /\ view = {}

Store(e) ==
    /\ UNCHANGED <<acked, view>>
    /\ log' = log \cup {e}

\* Only stored events become visible.
Show(e) ==
    /\ view' = view \cup {e}
    /\ UNCHANGED <<acked, log>>
    /\ e \in log

\* Only stored events are acknowledged.
Acknowledge(S) ==
    /\ acked' = acked \cup S
    /\ UNCHANGED <<view, log>>
    /\ S \subseteq log

\* Events leave the view when they grow old.
Forget(S) ==
    /\ view' = view \ S
    /\ UNCHANGED <<acked, log>>

\* A crash empties the view.  It keeps what was acknowledged, and may keep or
\* lose what was not, the write it interrupted included.
Fail(kept) ==
    /\ view' = {}
    /\ UNCHANGED acked
    /\ acked \subseteq kept
    /\ log' = kept

StoreNext ==
    \/ \E S \in SUBSET Events : Forget(S) \/ Acknowledge(S) \/ Fail(S)
    \/ \E e \in Events : Store(e) \/ Show(e)

StoreSpec == StoreInit /\ [][StoreNext]_storeVars
=============================================================================
