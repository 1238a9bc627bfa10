------------------------------ MODULE VersionFeed ------------------------------
(***************************************************************************)
(* features/store/crdtstore/crdtstore.go: the version counter of each      *)
(* owner's document and its watchers.  bumpVersion offers every bump to    *)
(* the internal channel of every watcher; a goroutine per watcher sends    *)
(* the current version and then forwards the bumps of its own owner.  No   *)
(* send ever waits.  CRDTStore bumps versions; here they just change.      *)
(***************************************************************************)
EXTENDS Naturals, Sequences

CONSTANTS
    Owners,     \* users
    Watchers,   \* calls of Watch
    InnerCap,   \* capacity of a watcher's internal channel (watchInternalBuf)
    OutCap,     \* capacity of the channel Watch returns (watchOutBuf)
    MaxVersion  \* bound: bumps of one owner between two restarts

ASSUME FeedAssumption ==
    /\ InnerCap \in Nat \ {0}
    /\ OutCap \in Nat \ {0}
    /\ MaxVersion \in Nat

VARIABLES
    version,    \* CRDTStore.versions
    listed,     \* CRDTStore.watchers
    inner,      \* what each internal channel holds: owner and version
    out,        \* what each returned channel holds
    stage,      \* where each watcher's goroutine is
    owner,      \* the owner each watcher asked for
    cancelled,  \* the watchers whose cancel closed their internal channel
    seen,       \* the last version each watcher's reader took
    missed      \* the watchers for which an event of their owner was dropped

feedVars == <<version, listed, inner, out, stage, owner, cancelled, seen, missed>>

Stages == {"none", "started", "running", "ended"}

FeedTypeOK ==
    /\ version \in [Owners -> 0..MaxVersion]
    /\ listed \subseteq Watchers
    /\ inner \in [Watchers -> Seq(Owners \X (1..MaxVersion))]
    /\ \A w \in Watchers : Len(inner[w]) <= InnerCap
    /\ out \in [Watchers -> Seq(0..MaxVersion)]
    /\ \A w \in Watchers : Len(out[w]) <= OutCap
    /\ stage \in [Watchers -> Stages]
    /\ owner \in [Watchers -> Owners]
    /\ cancelled \subseteq Watchers
    /\ seen \in [Watchers -> 0..MaxVersion]
    /\ missed \subseteq Watchers

FeedInit ==
    /\ version = [o \in Owners |-> 0]
    /\ listed = {}
    /\ inner = [w \in Watchers |-> <<>>]
    /\ out = [w \in Watchers |-> <<>>]
    /\ stage = [w \in Watchers |-> "none"]
    /\ owner \in [Watchers -> Owners]
    /\ cancelled = {}
    /\ seen = [w \in Watchers |-> 0]
    /\ missed = {}

\* bumpVersion, in one critical section: every listed watcher, of whichever
\* owner, is offered the event, and skipped when its channel is full.
Bump(o) ==
    /\ version[o] < MaxVersion
    /\ version' = [version EXCEPT ![o] = @ + 1]
    /\ inner' = [w \in Watchers |->
           IF w \in listed /\ Len(inner[w]) < InnerCap
           THEN Append(inner[w], <<o, version[o] + 1>>)
           ELSE inner[w]]
    /\ missed' = missed \union
           {w \in listed : owner[w] = o /\ Len(inner[w]) >= InnerCap}
    /\ UNCHANGED <<listed, out, stage, owner, cancelled, seen>>

\* Watch lists the watcher and starts its goroutine ...
Watch(w) ==
    /\ stage[w] = "none"
    /\ stage' = [stage EXCEPT ![w] = "started"]
    /\ listed' = listed \union {w}
    /\ UNCHANGED <<version, inner, out, owner, cancelled, seen, missed>>

\* VARIANT: the first version sent is the one to come.
SendCurrent_Next(w) ==
    /\ stage[w] = "started"
    /\ stage' = [stage EXCEPT ![w] = "running"]
    /\ out' = [out EXCEPT ![w] = Append(@, version[owner[w]] + 1)]
    /\ UNCHANGED <<version, listed, inner, owner, cancelled, seen, missed>>

\* ... which sends the version it reads then, whatever is queued already.
SendCurrent(w) ==
    /\ stage[w] = "started"
    /\ stage' = [stage EXCEPT ![w] = "running"]
    /\ out' = [out EXCEPT ![w] = Append(@, version[owner[w]])]
    /\ UNCHANGED <<version, listed, inner, owner, cancelled, seen, missed>>

\* VARIANT: the bumps of other owners are forwarded too.
Forward_All(w) ==
    /\ stage[w] = "running"
    /\ inner[w] # <<>>
    /\ inner' = [inner EXCEPT ![w] = Tail(@)]
    /\ out' = IF Len(out[w]) < OutCap
              THEN [out EXCEPT ![w] = Append(@, Head(inner[w])[2])]
              ELSE out
    /\ UNCHANGED <<version, listed, stage, owner, cancelled, seen, missed>>

\* The goroutine's loop: events of other owners are dropped, and so is an
\* event for which there is no room.
Forward(w) ==
    /\ stage[w] = "running"
    /\ inner[w] # <<>>
    /\ inner' = [inner EXCEPT ![w] = Tail(@)]
    /\ LET own == Head(inner[w])[1] = owner[w]
           room == Len(out[w]) < OutCap
       IN /\ out' = IF own /\ room
                    THEN [out EXCEPT ![w] = Append(@, Head(inner[w])[2])]
                    ELSE out
          /\ missed' = IF own /\ ~room THEN missed \union {w} ELSE missed
    /\ UNCHANGED <<version, listed, stage, owner, cancelled, seen>>

\* The loop ends once the internal channel is closed and empty.
EndFeed(w) ==
    /\ stage[w] = "running"
    /\ w \in cancelled
    /\ inner[w] = <<>>
    /\ stage' = [stage EXCEPT ![w] = "ended"]
    /\ UNCHANGED <<version, listed, inner, out, owner, cancelled, seen, missed>>

\* VARIANT: the watcher is removed and its channel left open.
CancelWatch_LeavesOpen(w) ==
    /\ stage[w] # "none"
    /\ w \in listed
    /\ listed' = listed \ {w}
    /\ UNCHANGED <<version, inner, out, stage, owner, cancelled, seen, missed>>

\* cancel: removes the watcher and closes its internal channel, if listed.
CancelWatch(w) ==
    /\ w \in listed
    /\ listed' = listed \ {w}
    /\ cancelled' = cancelled \union {w}
    /\ UNCHANGED <<version, inner, out, stage, owner, seen, missed>>

\* The reader of the returned channel takes the next version.
ReadVersion(w) ==
    /\ out[w] # <<>>
    /\ seen' = [seen EXCEPT ![w] = Head(out[w])]
    /\ out' = [out EXCEPT ![w] = Tail(@)]
    /\ UNCHANGED <<version, listed, inner, stage, owner, cancelled, missed>>

\* The process goes down and comes up again.
FeedRestart ==
    /\ version' = [o \in Owners |-> 0]
    /\ listed' = {}
    /\ stage' = [w \in Watchers |-> IF stage[w] = "none" THEN "none" ELSE "ended"]
    /\ inner' = [w \in Watchers |-> <<>>]
    /\ out' = [w \in Watchers |-> <<>>]
    /\ UNCHANGED <<owner, cancelled, seen, missed>>

FeedStep(w) ==
    \/ Watch(w)
    \/ SendCurrent(w)
    \/ Forward(w)
    \/ EndFeed(w)
    \/ CancelWatch(w)
    \/ ReadVersion(w)

-------------------------------------------------------------------------------
\* The last event of w's owner in its internal channel is its last bump ...
Queued(w) ==
    \E i \in DOMAIN inner[w] :
        /\ inner[w][i] = <<owner[w], version[owner[w]]>>
        /\ \A j \in DOMAIN inner[w] : j > i => inner[w][j][1] # owner[w]

\* ... or there is none of its owner, ...
NoneQueued(w) == \A i \in DOMAIN inner[w] : inner[w][i][1] # owner[w]

\* ... and the last version sent to its reader, taken or not, is the current one.
Delivered(w) ==
    IF out[w] = <<>> THEN seen[w] = version[owner[w]]
                     ELSE out[w][Len(out[w])] = version[owner[w]]

\* A watcher for which nothing was dropped ends up with the latest version,
\* although the first version it is sent may be newer than the ones that
\* follow: what comes last on its channels is the current one.
WatcherCatchesUp ==
    \A w \in listed \ missed :
        stage[w] = "running" => Queued(w) \/ (NoneQueued(w) /\ Delivered(w))

\* The goroutine of a watcher that is not listed any more ends, and its reader
\* sees the channel closed, whatever is still queued and even if nobody reads.
CancelEndsFeed ==
    \A w \in Watchers : (stage[w] # "none" /\ w \notin listed) ~> stage[w] = "ended"
===============================================================================
