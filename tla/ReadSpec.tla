------------------------------ MODULE ReadSpec ------------------------------
(***************************************************************************)
(* What the read path of an edge promises to concurrent requests and to    *)
(* the origin behind it.  The edge knows at most one fact about a CID: the *)
(* object is here, or the origin does not have it, until some second.  A   *)
(* request looks, may ask the origin, and is told.  There are no locks, no *)
(* replay guard, no ticks and no tombstone map here; HttpEdge implements   *)
(* this with them, and with the order of its looks and writes.             *)
(***************************************************************************)
EXTENDS Integers, FiniteSets

CONSTANTS
    Conns, Cids, NoCid,
    Fitting,    \* the sets of objects that fit into the cache together
    MaxGone,    \* how many absences are remembered
    HereUntil,  \* HereUntil[t]: how long an object asked for at t is good
    GoneUntil   \* GoneUntil[t]: how long an absence asked for at t is good

VARIABLES
    now,   \* the clock
    fact,  \* fact[c]: what the edge knows about c
    ask    \* ask[r]: the request of connection r

Unknown == [kind |-> "unknown", until |-> 0]
Quiet == [stage |-> "quiet", cid |-> NoCid, since |-> 0]

Here == {c \in Cids : fact[c].kind = "here"}
Gone == {c \in Cids : fact[c].kind = "gone"}

Outdated(c) == fact[c].until < now

\* the facts once f is known about c and what was known about D is forgotten
Learn(c, f, D) ==
    fact' = [d \in Cids |-> IF d = c THEN f ELSE IF d \in D THEN Unknown ELSE fact[d]]

Advance(r, from, to) ==
    /\ ask[r].stage = from
    /\ ask' = [ask EXCEPT ![r].stage = to]
    /\ UNCHANGED now

-----------------------------------------------------------------------------
Init ==
    /\ now = 1
    /\ fact = [c \in Cids |-> Unknown]
    /\ ask = [r \in Conns |-> Quiet]

Begin(r, c) ==
    /\ ask[r].stage = "quiet"
    /\ ask' = [ask EXCEPT ![r] = [stage |-> "looking", cid |-> c, since |-> now]]
    /\ UNCHANGED <<now, fact>>

\* the request is over, whatever it was told: it leaves what is known alone
Leave(r) ==
    /\ ask' = [ask EXCEPT ![r] = Quiet]
    /\ UNCHANGED <<now, fact>>

\* told from the cache, with a copy that was good when the request arrived
Hit(r) ==
    /\ Advance(r, "looking", "telling")
    /\ fact[ask[r].cid].kind = "here"
    /\ ask[r].since <= fact[ask[r].cid].until
    /\ UNCHANGED fact

\* the origin is asked about a CID by one request at a time, and only when
\* nothing that is still good is known about it
Ask(r) ==
    LET c == ask[r].cid
    IN  /\ Advance(r, "looking", "asking")
        /\ Outdated(c)
        /\ \A q \in Conns : ask[q].stage = "asking" => ask[q].cid # c
        /\ fact' = [fact EXCEPT ![c] = Unknown]

\* the object comes in; others go only if they must, and no absence does
Found(r) ==
    LET c == ask[r].cid
    IN  /\ Advance(r, "asking", "telling")
        /\ \E D \in SUBSET (Here \ {c}) :
              /\ (Here \ D) \cup {c} \in Fitting
              /\ D # {} => Here \cup {c} \notin Fitting
              /\ Learn(c, [kind |-> "here", until |-> HereUntil[ask[r].since]], D)

\* an object the cache could never hold is passed on
PassOn(r) ==
    /\ Advance(r, "asking", "telling")
    /\ {ask[r].cid} \notin Fitting
    /\ UNCHANGED fact

\* the origin does not have it; one other absence goes if it must, and no
\* object does
Missing(r) ==
    LET c == ask[r].cid
    IN  /\ ask[r].stage = "asking"
        /\ ask' = [ask EXCEPT ![r] = Quiet]
        /\ \E D \in SUBSET (Gone \ {c}) :
              /\ Cardinality((Gone \ D) \cup {c}) <= MaxGone
              /\ D # {} => Cardinality(D) = 1 /\ Cardinality(Gone \cup {c}) > MaxGone
              /\ Learn(c, [kind |-> "gone", until |-> GoneUntil[ask[r].since]], D)
        /\ UNCHANGED now

Forget(c) ==
    /\ Outdated(c)
    /\ fact' = [fact EXCEPT ![c] = Unknown]
    /\ UNCHANGED <<now, ask>>

Tick ==
    /\ now' = now + 1
    /\ UNCHANGED <<fact, ask>>

Next ==
    \/ \E r \in Conns :
          \/ \E c \in Cids : Begin(r, c)
          \/ Leave(r) \/ Hit(r) \/ Ask(r) \/ Found(r) \/ PassOn(r) \/ Missing(r)
    \/ \E c \in Cids : Forget(c)
    \/ Tick

Spec == Init /\ [][Next]_<<now, fact, ask>>
=============================================================================
