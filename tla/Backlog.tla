------------------------------- MODULE Backlog -------------------------------
(***************************************************************************)
(* The file backlog: src/factory/backlog/store.py, and the unattended loop *)
(* over it, src/factory/backlog/loop.py.                                   *)
(*                                                                         *)
(* The directories are the state: an entry is in inbox, running, done,     *)
(* needs_human or blocked.  The workers are processes that share nothing   *)
(* but those directories, so every system call that another worker can     *)
(* come between is a step of its own.  A file is an inode, because a hard  *)
(* link gives it two names and carries its modification time with it.      *)
(***************************************************************************)
EXTENDS Naturals, Sequences, SequencesExt, FiniteSets, Functions

CONSTANTS
    Task,            \* names of the task files
    Deps,            \* what each task file declares under depends_on
    Worker,          \* the processes that run the loop
    HostOf,          \* the machine of each worker
    Idle,            \* the idle policy of the loop: "watch", "drain" or "once"
    LateStarts,      \* whether a worker may start while others hold entries
    MaxSuffix,       \* _PARK_MAX_SUFFIX
    Budget,          \* LoopLimits.budget_usd, in units of a dispatch; 0 is no limit
    MaxStreak,       \* LoopLimits.max_unpriced_streak; 0 is no limit
    MaxProducers,    \* bound: people who add or revive something at once
    MaxAdds,         \* bound: files people ever set out to add
    MaxRevives,      \* bound: entries people set out to put back
    MaxInterrupts    \* bound: kills of a worker and signals to stop

ASSUME BacklogAssumption ==
    /\ Deps \in [Task -> SUBSET Task]
    /\ DOMAIN HostOf = Worker
    /\ Idle \in {"watch", "drain", "once"}
    /\ LateStarts \in BOOLEAN
    /\ MaxSuffix \in Nat \ {0}
    /\ {Budget, MaxStreak, MaxProducers, MaxAdds, MaxRevives, MaxInterrupts} \subseteq Nat

VARIABLES
    fs,      \* the entries: <<directory, name>> to inode
    claims,  \* the claim files in running: name to the process written in it
    old,     \* inodes not touched for longer than stale_after_s
    files,   \* the task file behind each inode ever created
    asked,   \* how often a person asked for the inode to be run
    begun,   \* how often a dispatch of the inode has begun
    puts,    \* what people who found its name free in inbox are about to put there
    w,       \* the program counter and the locals of each worker
    spent,   \* interrupts and revivals so far
    failed   \* workers whose loop ended with an exception of the queue

vars == <<fs, claims, old, files, asked, begun, puts, w, spent, failed>>
-----------------------------------------------------------------------------
(* Names.  A name is the task, followed by the suffixes that parking added *)
(* to it: T.yaml is <<T>>, T.2.yaml is <<T, 2>>.                           *)

Strip(n)   == IF Len(n) > 1 THEN Front(n) ELSE n
In(d)      == {p[2] : p \in {q \in DOMAIN fs : q[1] = d}}
Ids(d)     == {Strip(n) : n \in In(d)}
merged_ids == Ids("done")
Inode      == 1 .. Len(files)

(* missing_deps reads the file, not its name.                              *)
Needs(ino)           == {<<d>> : d \in Deps[files[ino]]}
missing_deps(ino, m) == Needs(ino) \ m

Without(f, p)  == Restrict(f, DOMAIN f \ {p})
With(f, p, v)  == [q \in DOMAIN f \cup {p} |-> IF q = p THEN v ELSE f[q]]
Links(src, to) == With(fs, to, fs[src])

(* OUTCOME_DIR *)
DirOfUnknown == [merged |-> "done", escalated |-> "needs_human",
                 blocked_hard_gate |-> "blocked", error |-> "error"]
DirOf == [merged |-> "done", escalated |-> "needs_human",
          blocked_hard_gate |-> "blocked", error |-> "needs_human"]

(* A process id that no live process has.                                  *)
Dead == "dead"

(* What a worker has in hand: its place in the program, the entries it has *)
(* listed, the entry it is working on and where that is being parked, what *)
(* the scan for deadlocks has read, and the running totals of its report.  *)
Off == [pc |-> "off", todo |-> {}, src |-> <<>>, dir |-> "", target |-> <<>>,
        after |-> "", merged |-> {}, flight |-> {}, cost |-> 0, streak |-> 0]

Init == /\ fs = <<>>
        /\ claims = <<>>
        /\ old = {}
        /\ files = <<>>
        /\ asked = <<>>
        /\ begun = <<>>
        /\ puts = {}
        /\ w = [x \in Worker |-> Off]
        /\ spent = [interrupts |-> 0, revives |-> 0]
        /\ failed = {}

At(x, pc)     == w[x].pc = pc
Becomes(x, l) == w' = [w EXCEPT ![x] = l]
Goto(x, pc)   == Becomes(x, [w[x] EXCEPT !.pc = pc])

(* The process of a worker ends: its claims name a process that is gone.   *)
Exit(x) ==
    /\ Becomes(x, Off)
    /\ claims' = [n \in DOMAIN claims |-> IF claims[n].pid = x
                                          THEN [claims[n] EXCEPT !.pid = Dead] ELSE claims[n]]

disk          == <<fs, claims, old, files, asked, begun>>
Quiet         == UNCHANGED <<puts, spent, failed>>
-----------------------------------------------------------------------------
(* People.  Whether the name is free in inbox and the rename that puts the *)
(* file there are two system calls, and the rename replaces what is there. *)

Producing == Cardinality(puts) < MaxProducers

(* add looks for the name in inbox, and in no other directory; the copy it *)
(* writes has a name of its own until it is complete.                      *)
Add(t) ==
    /\ Producing /\ Len(files) < MaxAdds
    /\ <<t>> \notin In("inbox")
    /\ files' = Append(files, t)
    /\ asked' = Append(asked, 0)
    /\ begun' = Append(begun, 0)
    /\ puts' = puts \cup {[from |-> <<>>, name |-> <<t>>, ino |-> Len(files) + 1]}
    /\ UNCHANGED <<fs, claims, old, w, spent, failed>>

(* revive: a parked entry is to go back to inbox under the name it has.    *)
Revive(d, n) ==
    /\ Producing /\ spent.revives < MaxRevives
    /\ n \in In(d) /\ n \notin In("inbox")
    /\ puts' = puts \cup {[from |-> <<d, n>>, name |-> n, ino |-> fs[<<d, n>>]]}
    /\ spent' = [spent EXCEPT !.revives = @ + 1]
    /\ UNCHANGED <<fs, claims, old, files, asked, begun, w, failed>>

(* rename: two names of one inode are left alone.                          *)
Renamed(src, to) == IF to \in DOMAIN fs /\ fs[src] = fs[to] THEN fs
                    ELSE With(Without(fs, src), to, fs[src])

(* The copy is put into inbox, or the entry found earlier under its name.  *)
Put(p) ==
    /\ LET to == <<"inbox", p.name>>
       IN  \/ /\ p.from = <<>>
              /\ fs' = With(fs, to, p.ino)
              /\ asked' = [asked EXCEPT ![p.ino] = @ + 1]
           \/ /\ p.from \in DOMAIN fs
              /\ fs' = Renamed(p.from, to)
              /\ asked' = [asked EXCEPT ![fs[p.from]] = @ + 1]
    /\ puts' = puts \ {p}
    /\ UNCHANGED <<claims, old, files, begun, w, spent, failed>>

(* The file is too large, the entry is no longer there, the disk is full,  *)
(* or the person's process is killed.                                      *)
GiveUp(p) ==
    /\ puts' = puts \ {p}
    /\ UNCHANGED <<disk, w, spent, failed>>
-----------------------------------------------------------------------------
(* The loop starts with recover: list running, and look at each entry.     *)

Start(x) ==
    /\ At(x, "off")
    /\ LateStarts \/ In("running") = {}
    /\ Becomes(x, [Off EXCEPT !.pc = "recover", !.todo = In("running")])
    /\ UNCHANGED disk /\ Quiet

(* _stale_reason.  The age is that of the entry, not of the claim, and a   *)
(* claim from this machine is judged by its process alone.                 *)
StaleReason(x, n) ==
    /\ n \in In("running")
    /\ \/ n \notin DOMAIN claims
       \/ /\ claims[n].host # HostOf[x]
          /\ fs[<<"running", n>>] \in old
       \/ /\ claims[n].host = HostOf[x]
          /\ claims[n].pid = Dead

(* Never back to inbox.                                                    *)
RecoverToInbox == "inbox"
RecoverTo      == "needs_human"

RecoverOne(x) ==
    /\ At(x, "recover")
    /\ \E n \in w[x].todo :
          IF StaleReason(x, n)
          THEN Becomes(x, [w[x] EXCEPT !.todo = @ \ {n}, !.pc = "link", !.dir = RecoverTo,
                                       !.src = <<"running", n>>, !.after = "recover"])
          ELSE Becomes(x, [w[x] EXCEPT !.todo = @ \ {n}])
    /\ UNCHANGED disk /\ Quiet

RecoverDone(x) ==
    /\ At(x, "recover") /\ w[x].todo = {}
    /\ Becomes(x, [w[x] EXCEPT !.pc = "loop", !.after = ""])
    /\ UNCHANGED disk /\ Quiet
-----------------------------------------------------------------------------
(* _park: link the entry to the first free name of the directory, remove   *)
(* the old name, remove the claim.  An exception ends the loop, except in  *)
(* recover, which goes on to the next entry.                               *)

ParkFails(x) ==
    /\ UNCHANGED fs
    /\ IF w[x].after = "recover"
       THEN /\ Becomes(x, [w[x] EXCEPT !.pc = "recover", !.src = <<>>, !.target = <<>>])
            /\ UNCHANGED <<claims, failed>>
       ELSE Exit(x) /\ failed' = failed \cup {x}

Candidate(n, k) == IF k = 1 THEN n ELSE Append(n, k)

FreeSuffixesUnchecked(n, d) == 1 .. MaxSuffix
FreeSuffixes(n, d) == {k \in 1 .. MaxSuffix : Candidate(n, k) \notin In(d)}

ParkLink(x) ==
    /\ At(x, "link")
    /\ LET src  == w[x].src
           Free == FreeSuffixes(src[2], w[x].dir)
           to(k) == <<w[x].dir, Candidate(src[2], k)>>
       IN  \/ /\ src \in DOMAIN fs
              /\ \E k \in Free : /\ \A j \in Free : k <= j
                                /\ fs' = Links(src, to(k))
                                /\ Becomes(x, [w[x] EXCEPT !.pc = "unlink", !.target = to(k)])
              /\ UNCHANGED <<claims, failed>>
           \/ /\ src \notin DOMAIN fs \/ Free = {}
              /\ ParkFails(x)
    /\ UNCHANGED <<old, files, asked, begun, puts, spent>>

(* target.samefile(task_path), then unlink; a different file under the old *)
(* name replaces what was just parked.                                     *)
MovedByRename(src, to) == IF fs[src] = fs[to] THEN fs
                          ELSE Without([fs EXCEPT ![to] = fs[src]], src)
Moved(src, to)         == Without([fs EXCEPT ![to] = fs[src]], src)

ParkUnlink(x) ==
    /\ At(x, "unlink")
    /\ LET src == w[x].src
           to  == w[x].target
       IN  IF {src, to} \subseteq DOMAIN fs
           THEN /\ fs' = Moved(src, to)
                /\ Goto(x, "unclaim")
                /\ UNCHANGED <<claims, failed>>
           ELSE ParkFails(x)
    /\ UNCHANGED <<old, files, asked, begun, puts, spent>>

ParkUnclaim(x) ==
    /\ At(x, "unclaim")
    /\ claims' = IF w[x].src[1] = "running" THEN Without(claims, w[x].src[2]) ELSE claims
    /\ Becomes(x, [w[x] EXCEPT !.pc = w[x].after, !.src = <<>>, !.target = <<>>, !.dir = ""])
    /\ UNCHANGED <<fs, old, files, asked, begun>> /\ Quiet
-----------------------------------------------------------------------------
(* The main loop: limits, then claim_next.                                 *)

LimitHit(x) ==
    \/ Idle = "once" /\ w[x].after = "loop"
    \/ Budget > 0 /\ w[x].cost >= Budget
    \/ MaxStreak > 0 /\ w[x].streak >= MaxStreak

(* A signal asks the loop to end before its next claim.                    *)
Stop(x) ==
    /\ At(x, "loop") /\ spent.interrupts < MaxInterrupts
    /\ Becomes(x, Off)
    /\ spent' = [spent EXCEPT !.interrupts = @ + 1]
    /\ UNCHANGED <<disk, puts, failed>>

Look(x) ==
    /\ At(x, "loop")
    /\ IF LimitHit(x)
       THEN Becomes(x, Off)
       ELSE Becomes(x, [w[x] EXCEPT
              !.pc = "claim",
              !.todo = {n \in In("inbox") : missing_deps(fs[<<"inbox", n>>], merged_ids) = {}}])
    /\ UNCHANGED disk /\ Quiet

(* claim, first system call: link the entry into running.  A name that is  *)
(* taken there, or an entry that has gone, is passed over.                 *)
LinkableByRename(n) == n \in In("inbox")
Linkable(n)         == n \in In("inbox") /\ n \notin In("running")

ClaimLink(x) ==
    /\ At(x, "claim")
    /\ \E n \in w[x].todo :
          IF Linkable(n)
          THEN /\ fs' = Links(<<"inbox", n>>, <<"running", n>>)
               /\ Becomes(x, [w[x] EXCEPT !.pc = "linked", !.src = <<"running", n>>, !.todo = {}])
          ELSE Becomes(x, [w[x] EXCEPT !.todo = @ \ {n}]) /\ UNCHANGED fs
    /\ UNCHANGED <<claims, old, files, asked, begun>> /\ Quiet

ClaimUnlink(x) ==
    /\ At(x, "linked")
    /\ fs' = Without(fs, <<"inbox", w[x].src[2]>>)
    /\ Goto(x, "unlinked")
    /\ UNCHANGED <<claims, old, files, asked, begun>> /\ Quiet

ClaimWrite(x) ==
    /\ At(x, "unlinked")
    /\ claims' = With(claims, w[x].src[2], [host |-> HostOf[x], pid |-> x])
    /\ Goto(x, "claimed")
    /\ UNCHANGED <<fs, old, files, asked, begun>> /\ Quiet

(* _one: the dispatcher opens the file it was given; a file that is no     *)
(* longer there is an exception, and the outcome error.                    *)
Dispatch(x) ==
    /\ At(x, "claimed")
    /\ Goto(x, "working")
    /\ begun' = IF w[x].src \in DOMAIN fs
                THEN [begun EXCEPT ![fs[w[x].src]] = @ + 1] ELSE begun
    /\ UNCHANGED <<fs, claims, old, files, asked>> /\ Quiet

Heartbeat(x) ==
    /\ At(x, "working") /\ w[x].src \in DOMAIN fs
    /\ old' = old \ {fs[w[x].src]}
    /\ UNCHANGED <<fs, claims, files, asked, begun, w>> /\ Quiet

(* The dispatch returns; the totals are brought up to date and finish      *)
(* parks the entry where its outcome belongs.                              *)
DispatchEnds(x, outcome, cost, unpriced) ==
    /\ At(x, "working")
    /\ w[x].src \notin DOMAIN fs => outcome = "error"
    /\ Becomes(x, [w[x] EXCEPT !.pc = "link", !.dir = DirOf[outcome], !.after = "loop",
                      !.cost = IF Budget = 0 THEN 0 ELSE @ + cost,
                      !.streak = IF unpriced /\ MaxStreak > 0 THEN @ + 1 ELSE 0])
    /\ UNCHANGED disk /\ Quiet
-----------------------------------------------------------------------------
(* Nothing could be claimed: blocked_by_deps, then the scan for deadlocks, *)
(* which reads done, running and inbox one after the other.                *)

Waiting == {n \in In("inbox") : missing_deps(fs[<<"inbox", n>>], merged_ids) # {}}

NothingToClaim(x) ==
    /\ At(x, "claim") /\ w[x].todo = {}
    /\ IF Waiting = {}
       THEN Becomes(x, IF Idle = "watch" THEN [w[x] EXCEPT !.pc = "loop"] ELSE Off)
       ELSE Becomes(x, [w[x] EXCEPT !.pc = "scan", !.merged = merged_ids])
    /\ UNCHANGED disk /\ Quiet

ScanRunning(x) ==
    /\ At(x, "scan")
    /\ Becomes(x, [w[x] EXCEPT !.pc = "scan_inbox", !.flight = Ids("running")])
    /\ UNCHANGED disk /\ Quiet

(* deadlocked keeps one entry for each identity, the last in the order of  *)
(* file names, which is left open here.                                    *)
Keyed(entries) == /\ {Strip(n) : n \in entries} = Ids("inbox")
                  /\ \A m, n \in entries : Strip(m) = Strip(n) => m = n

(* The entries outside the least set that contains an entry once all it    *)
(* needs is merged, running or in the set.                                 *)
HopelessNever(entries, merged, flight) == {}

Hopeless(entries, merged, flight) ==
    LET Closed(S) == \A n \in entries :
                        Needs(fs[<<"inbox", n>>]) \subseteq merged \cup flight \cup S
                           => Strip(n) \in S
        sets == {S \in SUBSET Ids("inbox") : Closed(S)}
    IN  {n \in entries : \E S \in sets : Strip(n) \notin S}

ScanInbox(x) ==
    /\ At(x, "scan_inbox")
    /\ \E entries \in SUBSET In("inbox") :
          /\ Keyed(entries)
          /\ Becomes(x, [w[x] EXCEPT !.pc = "deadlocked",
                            !.todo = Hopeless(entries, w[x].merged, w[x].flight),
                            !.merged = {}, !.flight = {}])
    /\ UNCHANGED disk /\ Quiet

ParkDeadlocked(x) ==
    /\ At(x, "deadlocked")
    /\ \E n \in w[x].todo :
          Becomes(x, [w[x] EXCEPT !.todo = @ \ {n}, !.pc = "link", !.dir = "needs_human",
                                  !.src = <<"inbox", n>>, !.after = "deadlocked"])
    /\ UNCHANGED disk /\ Quiet

(* After the scan the loop polls again, or ends under drain and once.      *)
DeadlocksParked(x) ==
    /\ At(x, "deadlocked") /\ w[x].todo = {}
    /\ Becomes(x, IF Idle = "watch" THEN [w[x] EXCEPT !.pc = "loop", !.after = ""] ELSE Off)
    /\ UNCHANGED disk /\ Quiet
-----------------------------------------------------------------------------
(* The environment.                                                        *)

(* A worker is killed.                                                     *)
Crash(x) ==
    /\ ~At(x, "off") /\ spent.interrupts < MaxInterrupts
    /\ Exit(x)
    /\ spent' = [spent EXCEPT !.interrupts = @ + 1]
    /\ UNCHANGED <<fs, old, files, asked, begun, puts, failed>>

(* Time passes.  stale_after_s is hours and the heartbeat is minutes, so   *)
(* an entry that a worker is dispatching does not grow old.                *)
GrowOld(ino) ==
    /\ ino \notin old
    /\ \A x \in Worker : At(x, "working") /\ w[x].src \in DOMAIN fs => fs[w[x].src] # ino
    /\ old' = old \cup {ino}
    /\ UNCHANGED <<fs, claims, files, asked, begun, w>> /\ Quiet

(* Only another machine's claim is judged by age.                          *)
Time == Cardinality(Range(HostOf)) > 1 /\ \E ino \in Inode : GrowOld(ino)

People == \/ \E t \in Task : Add(t)
          \/ \E d \in {"needs_human", "blocked"} : \E n \in In(d) : Revive(d, n)
          \/ \E p \in puts : Put(p) \/ GiveUp(p)

Recovering(x) == RecoverOne(x) \/ RecoverDone(x)
Parking(x)    == ParkLink(x) \/ ParkUnlink(x) \/ ParkUnclaim(x)
Claiming(x)   == Look(x) \/ ClaimLink(x) \/ ClaimUnlink(x) \/ ClaimWrite(x)
Ends(x)       == \E o \in DOMAIN DirOf, c \in 0 .. 1, u \in BOOLEAN : DispatchEnds(x, o, c, u)
Working(x)    == Dispatch(x) \/ Heartbeat(x) \/ Ends(x)
Scanning(x)   == \/ NothingToClaim(x) \/ ScanRunning(x) \/ ScanInbox(x)
                 \/ ParkDeadlocked(x) \/ DeadlocksParked(x)

Loop(x) == Recovering(x) \/ Parking(x) \/ Claiming(x) \/ Working(x) \/ Scanning(x)

Next == \/ People
        \/ Time
        \/ \E x \in Worker : Start(x) \/ Stop(x) \/ Crash(x) \/ Loop(x)

Spec == Init /\ [][Next]_vars

(* The process is scheduled, a dispatch returns (its own timeouts see to   *)
(* it) and a loop that has ended is started again; nobody has to add,      *)
(* revive, crash or stop anything.                                         *)
Fairness == \A x \in Worker :
    /\ WF_vars(Recovering(x)) /\ WF_vars(Parking(x)) /\ WF_vars(Claiming(x))
    /\ WF_vars(Dispatch(x)) /\ WF_vars(Ends(x)) /\ WF_vars(Scanning(x))
    /\ WF_vars(Start(x))

FairSpec == Spec /\ Fairness
=============================================================================
