---------------------------- MODULE BacklogProofs ----------------------------
(***************************************************************************)
(* Theorems about the backlog for every set of task files, dependencies    *)
(* and limits, and every number of crashes and of people.  Types hold for  *)
(* any number of workers; the rest for one worker, or for several that     *)
(* start over an empty running directory and share independent files.      *)
(***************************************************************************)
EXTENDS BacklogProperties, SequenceTheorems, FiniteSetTheorems, TLAPS

-----------------------------------------------------------------------------
(* The shape of the state.                                                 *)

\* The places of the program at which a worker has an entry in its hands.
Held == {"linked", "unlinked", "claimed", "working", "link", "unlink"}
Holds(x) == w[x].pc \in Held

PC == Held \cup {"off", "recover", "loop", "claim", "unclaim", "scan", "scan_inbox", "deadlocked"}
Ident == Seq(Task \cup Nat)
Name == Ident \ {<<>>}
Local == [pc : PC, todo : SUBSET Name, src : (Place \X Name) \cup {<<>>}, dir : Parked \cup {""},
          target : (Parked \X Name) \cup {<<>>}, after : {"", "recover", "loop", "deadlocked"},
          merged : SUBSET Ident, flight : SUBSET Ident, cost : Nat, streak : Nat]
Claim == [host : {HostOf[x] : x \in Worker}, pid : Worker \cup {Dead}]

\* Every inode has a task file and the two counters.
Files ==
    /\ files \in Seq(Task)
    /\ asked \in Seq(Nat) /\ Len(asked) = Len(files)
    /\ begun \in Seq(Nat) /\ Len(begun) = Len(files)
    /\ old \subseteq Inode

\* An entry is under a name of its task.
Entries ==
    /\ fs \in [DOMAIN fs -> Inode] /\ DOMAIN fs \subseteq Place \X Name
    /\ \A p \in DOMAIN fs : p[2][1] = files[fs[p]]

\* What a worker remembers, and what it must have where it is.
Fits(l) ==
    /\ l \in Local
    /\ l.pc \in Held \cup {"unclaim"} => l.src # <<>>
    /\ l.pc \in {"link", "unlink", "unclaim"} => l.after # ""
    /\ l.pc = "link" => l.dir # ""
    /\ l.pc = "unlink" => l.target # <<>> /\ l.target[2][1] = l.src[2][1]

Locals ==
    /\ w \in [Worker -> Local]
    /\ \A x \in Worker : Fits(w[x])
    /\ claims \in [DOMAIN claims -> Claim]
    /\ failed \subseteq Worker
    /\ spent \in [interrupts : Nat, revives : Nat]

\* What a person is about to put into inbox has a name of its task; what is revived comes
\* from where it is parked.
Comer(p) ==
    /\ p.ino \in Inode /\ p.name \in Name /\ p.name[1] = files[p.ino]
    /\ \/ p.from = <<>>
       \/ /\ p.from \in {<<"needs_human", p.name>>, <<"blocked", p.name>>}
          /\ MaxRevives # 0

Producers ==
    /\ IsFiniteSet(puts) /\ Cardinality(puts) <= MaxProducers
    /\ \A p \in puts : Comer(p)

Shape == Files /\ Entries /\ Locals /\ Producers

-----------------------------------------------------------------------------
(* Names, directories and maps.                                            *)

LEMMA WithoutIs ==
    ASSUME NEW f, NEW p
    PROVE  /\ DOMAIN Without(f, p) = DOMAIN f \ {p}
           /\ \A q \in DOMAIN f \ {p} : Without(f, p)[q] = f[q]
           /\ \A S : (\A q \in DOMAIN f : f[q] \in S)
                        => Without(f, p) \in [DOMAIN Without(f, p) -> S]
BY DEF Without, Restrict

\* A suffix makes another name of the same task.
LEMMA CandidateIsName ==
    ASSUME NEW n \in Name, NEW k \in Nat
    PROVE  Candidate(n, k) \in Name /\ Candidate(n, k)[1] = n[1]
<1>1. Len(n) \in Nat \ {0}
  BY EmptySeq DEF Name, Ident
<1>2. /\ Append(n, k) \in Seq(Task \cup Nat) /\ Len(Append(n, k)) = Len(n) + 1
      /\ Append(n, k)[1] = n[1]
  BY <1>1, AppendProperties DEF Name, Ident
<1>3. Append(n, k) # <<>>
  BY <1>1, <1>2
<1> QED
  BY <1>2, <1>3 DEF Candidate, Name, Ident

LEMMA StripIsIdent ==
    ASSUME NEW n \in Name
    PROVE  Strip(n) \in Ident
<1>1. Len(n) \in Nat \ {0} /\ \A i \in 1 .. Len(n) : n[i] \in Task \cup Nat
  BY EmptySeq, ElementOfSeq DEF Name, Ident
<1>2. SubSeq(n, 1, Len(n) - 1) \in Seq(Task \cup Nat)
  BY <1>1, SubSeqProperties
<1> QED
  BY <1>2 DEF Strip, Front, Name, Ident

\* The name of a new task file.
LEMMA TaskIsName ==
    ASSUME NEW t \in Task
    PROVE  <<t>> \in Name /\ <<t>>[1] = t
BY DEF Name, Ident

LEMMA InIsName ==
    ASSUME Entries, NEW d
    PROVE  /\ In(d) \subseteq Name /\ Ids(d) \subseteq Ident
           /\ \A n : n \in In(d) <=> <<d, n>> \in DOMAIN fs
<1>1. \A p \in DOMAIN fs : p = <<p[1], p[2]>> /\ p[2] \in Name
  BY DEF Entries
<1>2. In(d) \subseteq Name /\ \A n : n \in In(d) <=> <<d, n>> \in DOMAIN fs
  BY <1>1 DEF In
<1> QED
  BY <1>2, StripIsIdent DEF Ids

-----------------------------------------------------------------------------
(* Types.                                                                  *)

\* One more request or dispatch of a known inode.
LEMMA CountedOnce ==
    ASSUME NEW s \in Seq(Nat), NEW i \in 1 .. Len(s)
    PROVE  /\ [s EXCEPT ![i] = @ + 1] \in Seq(Nat) /\ Len([s EXCEPT ![i] = @ + 1]) = Len(s)
           /\ [s EXCEPT ![i] = @ + 1][i] = s[i] + 1 /\ s[i] \in Nat
           /\ \A j \in 1 .. Len(s) : j # i => [s EXCEPT ![i] = @ + 1][j] = s[j]
<1>1. s[i] \in Nat /\ DOMAIN s = 1 .. Len(s)
  BY ElementOfSeq, LenProperties
<1>2. [s EXCEPT ![i] = s[i] + 1] \in Seq(Nat) /\ Len([s EXCEPT ![i] = s[i] + 1]) = Len(s)
  BY <1>1, ExceptSeq
<1> QED
  BY <1>1, <1>2

\* An entry that comes or stays keeps to a name of its task.
LEMMA EntriesMove ==
    ASSUME Entries, UNCHANGED files, fs' \in [DOMAIN fs' -> Inode],
           \A p \in DOMAIN fs' : p \in Place \X Name
              /\ \E q \in DOMAIN fs : fs'[p] = fs[q] /\ p[2][1] = q[2][1]
    PROVE  Entries'
BY DEF Entries, Inode

LEMMA EntriesLink ==
    ASSUME Entries, UNCHANGED files, NEW src \in DOMAIN fs, NEW to \in Place \X Name,
           to[2][1] = src[2][1], fs' = Links(src, to)
    PROVE  Entries'
<1>1. \A q \in DOMAIN fs : fs[q] \in Inode
  BY DEF Entries
<1> DEFINE v == fs[src]
           f == With(fs, to, v)
<1>2. /\ DOMAIN f = DOMAIN fs \cup {to} /\ f[to] = v
      /\ \A q \in DOMAIN fs \ {to} : f[q] = fs[q]
      /\ f \in [DOMAIN f -> Inode]
  <2>1. v \in Inode
    BY <1>1
  <2> HIDE DEF v
  <2> QED
    BY <1>1, <2>1 DEF With
<1> HIDE DEF f
<1>3. fs' = f
  BY DEF Links, f
<1>4. \A q \in DOMAIN fs : q \in Place \X Name
  BY DEF Entries
<1> QED
  BY <1>2, <1>3, <1>4, EntriesMove

LEMMA EntriesWithout ==
    ASSUME Entries, UNCHANGED files, NEW p, fs' = Without(fs, p)
    PROVE  Entries'
<1>1. \A q \in DOMAIN fs : fs[q] \in Inode
  BY DEF Entries
<1>2. /\ DOMAIN fs' = DOMAIN fs \ {p} /\ \A q \in DOMAIN fs \ {p} : fs'[q] = fs[q]
      /\ fs' \in [DOMAIN fs' -> Inode]
  BY <1>1, WithoutIs
<1> QED
  BY <1>2, EntriesMove DEF Entries

\* What parking leaves: the old name is gone, the new one has its file.
LEMMA MovedIs ==
    ASSUME Entries, NEW src \in DOMAIN fs, NEW to \in DOMAIN fs
    PROVE  /\ DOMAIN Moved(src, to) = DOMAIN fs \ {src}
           /\ \A q \in DOMAIN fs \ {src} : Moved(src, to)[q] = IF q = to THEN fs[src] ELSE fs[q]
           /\ Moved(src, to) \in [DOMAIN Moved(src, to) -> Inode]
<1> DEFINE f == [fs EXCEPT ![to] = fs[src]]
<1>1. /\ DOMAIN f = DOMAIN fs /\ \A q \in DOMAIN fs : f[q] \in Inode
      /\ \A q \in DOMAIN fs : f[q] = IF q = to THEN fs[src] ELSE fs[q]
  BY DEF Entries
<1> HIDE DEF f
<1>2. Moved(src, to) = Without(f, src)
  BY DEF Moved, f
<1>3. /\ DOMAIN Without(f, src) = DOMAIN f \ {src}
      /\ \A q \in DOMAIN f \ {src} : Without(f, src)[q] = f[q]
      /\ Without(f, src) \in [DOMAIN Without(f, src) -> Inode]
  BY <1>1, WithoutIs
<1> QED
  BY <1>1, <1>2, <1>3

-----------------------------------------------------------------------------
(* What people do.                                                         *)

\* A file i is put into inbox under the name p, and leaves where it was parked.
Comes(p, i, gone) ==
    /\ p[1] = "inbox"
    /\ \A q \in gone : q[1] \in {"needs_human", "blocked"} /\ fs[q] = i
    /\ DOMAIN fs' = (DOMAIN fs \ gone) \cup {p}
    /\ fs'[p] = i /\ fs' \in [DOMAIN fs' -> Inode]
    /\ \A q \in DOMAIN fs \ gone : q # p => fs'[q] = fs[q]

LEMMA AddIs ==
    ASSUME Files, NEW t \in Task, Add(t)
    PROVE  /\ Files' /\ UNCHANGED <<fs, w>>
           /\ Inode \subseteq Inode' /\ Inode' = Inode \cup {Len(files) + 1}
           /\ Len(files) + 1 \notin Inode
           /\ asked'[Len(files) + 1] = 0 /\ begun'[Len(files) + 1] = 0
           /\ files'[Len(files) + 1] = t
           /\ \A i \in Inode : /\ asked'[i] = asked[i] /\ begun'[i] = begun[i]
                               /\ files'[i] = files[i]
<1>1. /\ files' = Append(files, t) /\ asked' = Append(asked, 0) /\ begun' = Append(begun, 0)
      /\ UNCHANGED <<fs, w, old>>
  BY DEF Add
<1>2. /\ files \in Seq(Task) /\ asked \in Seq(Nat) /\ begun \in Seq(Nat)
      /\ Len(asked) = Len(files) /\ Len(begun) = Len(files) /\ Len(files) \in Nat
  BY LenProperties DEF Files
<1>3. /\ files' \in Seq(Task) /\ Len(files') = Len(files) + 1 /\ files'[Len(files) + 1] = t
      /\ asked' \in Seq(Nat) /\ Len(asked') = Len(files) + 1 /\ asked'[Len(files) + 1] = 0
      /\ begun' \in Seq(Nat) /\ Len(begun') = Len(files) + 1 /\ begun'[Len(files) + 1] = 0
      /\ \A i \in 1 .. Len(files) :
            asked'[i] = asked[i] /\ begun'[i] = begun[i] /\ files'[i] = files[i]
  BY <1>1, <1>2, AppendProperties
<1> QED
  BY <1>1, <1>2, <1>3 DEF Files, Inode

\* What a person's rename leaves, whatever was under the name by then.
Lands(p, i, gone) ==
    /\ Comes(<<"inbox", p.name>>, i, gone)
    /\ p.name[1] = files[i]
    /\ asked' = [asked EXCEPT ![i] = @ + 1]
    /\ gone # {} => MaxRevives # 0
    /\ puts' = puts \ {p}
    /\ UNCHANGED <<old, files, begun, w>>

LEMMA PutIs ==
    ASSUME Entries, Producers, NEW p \in puts, Put(p)
    PROVE  \E i \in Inode, gone \in SUBSET DOMAIN fs : Lands(p, i, gone)
<1> DEFINE to == <<"inbox", p.name>>
<1>0. Comer(p) /\ to[1] = "inbox" /\ to[2] = p.name
  BY DEF Producers
<1>1. fs \in [DOMAIN fs -> Inode] /\ \A q \in DOMAIN fs : fs[q] \in Inode
  BY DEF Entries
<1>2. puts' = puts \ {p} /\ UNCHANGED <<old, files, begun, w>>
  BY DEF Put
<1>3. \/ p.from = <<>> /\ fs' = With(fs, to, p.ino) /\ asked' = [asked EXCEPT ![p.ino] = @ + 1]
      \/ /\ p.from \in DOMAIN fs /\ fs' = Renamed(p.from, to)
         /\ asked' = [asked EXCEPT ![fs[p.from]] = @ + 1]
  BY DEF Put
<1>4. ASSUME NEW i \in Inode, NEW gone \in SUBSET DOMAIN fs, Comes(to, i, gone),
             p.name[1] = files[i], asked' = [asked EXCEPT ![i] = @ + 1],
             gone # {} => MaxRevives # 0
      PROVE  Lands(p, i, gone)
  BY <1>2, <1>4 DEF Lands
<1>5. CASE p.from = <<>> /\ fs' = With(fs, to, p.ino) /\ asked' = [asked EXCEPT ![p.ino] = @ + 1]
  <2> DEFINE i == p.ino
  <2>1. i \in Inode /\ p.name[1] = files[i]
    BY <1>0 DEF Comer
  <2>2. fs' = With(fs, to, i) /\ asked' = [asked EXCEPT ![i] = @ + 1]
    BY <1>5
  <2> HIDE DEF i, to
  <2>3. Comes(to, i, {})
    BY <1>0, <1>1, <2>1, <2>2 DEF Comes, With
  <2>4. {} \in SUBSET DOMAIN fs
    OBVIOUS
  <2>5. Lands(p, i, {})
    BY <1>4, <2>1, <2>2, <2>3, <2>4
  <2> QED
    BY <2>1, <2>4, <2>5
<1>6. CASE /\ p.from \in DOMAIN fs /\ fs' = Renamed(p.from, to)
           /\ asked' = [asked EXCEPT ![fs[p.from]] = @ + 1]
  <2> DEFINE src == p.from
             i == fs[src]
  <2>1. <<>> \notin DOMAIN fs
    BY DEF Entries
  <2>2. /\ src \in DOMAIN fs /\ src[1] \in {"needs_human", "blocked"} /\ src[2] = p.name
        /\ MaxRevives # 0 /\ src # to
    BY <1>0, <1>6, <2>1 DEF Comer
  <2>3. i \in Inode /\ p.name[1] = files[i]
    BY <2>2 DEF Entries
  <2>4. fs' = Renamed(src, to) /\ asked' = [asked EXCEPT ![i] = @ + 1]
    BY <1>6
  <2> HIDE DEF src, to
  <2>5. CASE to \in DOMAIN fs /\ fs[src] = fs[to]
    <3>1. Comes(to, i, {})
      BY <1>0, <1>1, <2>3, <2>4, <2>5 DEF Comes, Renamed
    <3>2. {} \in SUBSET DOMAIN fs
      OBVIOUS
    <3> HIDE DEF i
    <3>3. Lands(p, i, {})
      BY <1>4, <2>2, <2>3, <2>4, <3>1, <3>2
    <3> QED
      BY <2>3, <3>2, <3>3
  <2>6. CASE ~(to \in DOMAIN fs /\ fs[src] = fs[to])
    <3> DEFINE rest == Without(fs, src)
    <3>1. /\ DOMAIN rest = DOMAIN fs \ {src} /\ \A q \in DOMAIN fs \ {src} : rest[q] = fs[q]
      BY WithoutIs
    <3>2. fs' = With(rest, to, i)
      BY <2>4, <2>6 DEF Renamed
    <3> HIDE DEF rest
    <3>3. Comes(to, i, {src})
      BY <1>0, <1>1, <2>2, <2>3, <3>1, <3>2 DEF Comes, With
    <3>4. {src} \in SUBSET DOMAIN fs
      BY <2>2
    <3> HIDE DEF i
    <3>5. Lands(p, i, {src})
      BY <1>4, <2>2, <2>3, <2>4, <3>3, <3>4
    <3> QED
      BY <2>3, <3>4, <3>5
  <2> QED
    BY <2>5, <2>6
<1> QED
  BY <1>3, <1>5, <1>6

\* One more person, and one less.
LEMMA PutsOne ==
    ASSUME Producers, NEW p
    PROVE  /\ IsFiniteSet(puts \ {p}) /\ Cardinality(puts \ {p}) <= MaxProducers
           /\ IsFiniteSet(puts \cup {p})
           /\ Cardinality(puts) < MaxProducers => Cardinality(puts \cup {p}) <= MaxProducers
<1>1. IsFiniteSet(puts) /\ Cardinality(puts) \in Nat /\ Cardinality(puts) <= MaxProducers
      /\ MaxProducers \in Nat
  BY FS_CardinalityType, BacklogAssumption DEF Producers
<1>2. /\ IsFiniteSet(puts \cup {p})
      /\ \/ Cardinality(puts \cup {p}) = Cardinality(puts)
         \/ Cardinality(puts \cup {p}) = Cardinality(puts) + 1
  BY <1>1, FS_AddElement
<1>3. /\ IsFiniteSet(puts \ {p}) /\ Cardinality(puts \ {p}) <= Cardinality(puts)
      /\ Cardinality(puts \ {p}) \in Nat
  BY <1>1, FS_Subset, FS_CardinalityType
<1> QED
  BY <1>1, <1>2, <1>3

LEMMA ProducersStep == Shape /\ [Next]_vars => Producers'
<1> SUFFICES ASSUME Shape, [Next]_vars PROVE Producers'
  OBVIOUS
<1>0. Files /\ Entries /\ Locals /\ Producers
  BY DEF Shape
<1>1. ASSUME NEW t \in Task, Add(t) PROVE Producers'
  <2>0. PICK new : new = [from |-> <<>>, name |-> <<t>>, ino |-> Len(files) + 1]
    OBVIOUS
  <2>1. /\ Inode \subseteq Inode' /\ Len(files) + 1 \in Inode' /\ files'[Len(files) + 1] = t
        /\ \A i \in Inode : files'[i] = files[i]
    BY <1>0, <1>1, AddIs
  <2>2. <<t>> \in Name /\ <<t>>[1] = t
    BY TaskIsName
  <2>3. new.from = <<>> /\ new.name = <<t>> /\ new.ino = Len(files) + 1
    BY <2>0
  <2>4. puts' = puts \cup {new} /\ Cardinality(puts) < MaxProducers
    BY <1>1, <2>0 DEF Add, Producing
  <2>5. new.ino \in Inode' /\ new.name \in Name /\ new.name[1] = files'[new.ino]
    BY <2>1, <2>2, <2>3
  <2>6. Comer(new)'
    BY <2>3, <2>5 DEF Comer
  <2>7. IsFiniteSet(puts') /\ Cardinality(puts') <= MaxProducers
    BY <1>0, <2>4, PutsOne
  <2>8. ASSUME NEW p \in puts PROVE Comer(p)'
    <3>1. Comer(p)
      BY <1>0 DEF Producers
    <3> QED
      BY <2>1, <3>1 DEF Comer
  <2> QED
    BY <2>4, <2>6, <2>7, <2>8 DEF Producers
<1>2. ASSUME NEW d \in {"needs_human", "blocked"}, NEW n \in In(d), Revive(d, n)
      PROVE  Producers'
  <2> DEFINE new == [from |-> <<d, n>>, name |-> n, ino |-> fs[<<d, n>>]]
  <2>1. <<d, n>> \in DOMAIN fs /\ n \in Name
    BY <1>0, InIsName
  <2>2. fs[<<d, n>>] \in Inode /\ n[1] = files[fs[<<d, n>>]]
    BY <1>0, <2>1 DEF Entries
  <2>3. MaxRevives # 0
    BY <1>0, <1>2, BacklogAssumption DEF Revive, Locals
  <2>4. new.from = <<d, n>> /\ new.name = n /\ new.ino = fs[<<d, n>>]
    OBVIOUS
  <2>5. puts' = puts \cup {new} /\ Cardinality(puts) < MaxProducers /\ UNCHANGED files
    BY <1>2 DEF Revive, Producing
  <2> HIDE DEF new
  <2>6. Comer(new)
    BY <2>1, <2>2, <2>3, <2>4 DEF Comer
  <2>7. IsFiniteSet(puts') /\ Cardinality(puts') <= MaxProducers
    BY <1>0, <2>5, PutsOne
  <2>8. \A p \in puts' : Comer(p)
    BY <1>0, <2>5, <2>6 DEF Producers
  <2>9. \A p \in puts' : Comer(p)'
    BY <2>5, <2>8 DEF Comer, Inode
  <2> QED
    BY <2>7, <2>9 DEF Producers
<1>3. ASSUME NEW p \in puts, Put(p) \/ GiveUp(p) PROVE Producers'
  <2>1. puts' = puts \ {p} /\ UNCHANGED files
    BY <1>3 DEF Put, GiveUp, disk
  <2>2. IsFiniteSet(puts') /\ Cardinality(puts') <= MaxProducers
    BY <1>0, <2>1, PutsOne
  <2>3. \A q \in puts' : Comer(q)
    BY <1>0, <2>1 DEF Producers
  <2>4. \A q \in puts' : Comer(q)'
    BY <2>1, <2>3 DEF Comer, Inode
  <2> QED
    BY <2>2, <2>4 DEF Producers
<1>4. CASE Time \/ UNCHANGED vars \/ \E x \in Worker : Start(x) \/ Stop(x) \/ Crash(x) \/ Loop(x)
  <2>1. UNCHANGED <<puts, files>>
    BY <1>4 DEF Time, GrowOld, vars, Start, Stop, Crash, Loop, Recovering, Parking, Claiming,
       Working, Scanning, RecoverOne, RecoverDone, ParkLink, ParkUnlink, ParkUnclaim, Look,
       ClaimLink, ClaimUnlink, ClaimWrite, Dispatch, Heartbeat, Ends, DispatchEnds,
       NothingToClaim, ScanRunning, ScanInbox, ParkDeadlocked, DeadlocksParked, disk, Quiet
  <2> QED
    BY <1>0, <2>1 DEF Producers, Comer, Inode
<1> QED
  BY <1>1, <1>2, <1>3, <1>4 DEF Next, People

-----------------------------------------------------------------------------
(* Types of every step.                                                    *)

\* The entries of every step.
LEMMA EntriesStep == Shape /\ [Next]_vars => Files' /\ Entries'
<1> SUFFICES ASSUME Shape, [Next]_vars PROVE Files' /\ Entries'
  OBVIOUS
<1>0. Files /\ Entries /\ Locals /\ Producers
  BY DEF Shape
<1>1. ASSUME NEW t \in Task, Add(t) PROVE Files' /\ Entries'
  <2>1. /\ Files' /\ UNCHANGED fs /\ Inode \subseteq Inode'
        /\ \A i \in Inode : files'[i] = files[i]
    BY <1>0, <1>1, AddIs
  <2> QED
    BY <1>0, <2>1 DEF Entries
<1>2. ASSUME NEW p \in puts, Put(p) PROVE Files' /\ Entries'
  <2>0. PICK i \in Inode, gone \in SUBSET DOMAIN fs : Lands(p, i, gone)
    BY <1>0, <1>2, PutIs
  <2>1. /\ Comes(<<"inbox", p.name>>, i, gone) /\ p.name[1] = files[i]
        /\ asked' = [asked EXCEPT ![i] = @ + 1]
        /\ UNCHANGED <<old, files, begun>>
    BY <2>0 DEF Lands
  <2>2. asked' \in Seq(Nat) /\ Len(asked') = Len(asked)
    <3>1. i \in 1 .. Len(asked) /\ asked \in Seq(Nat)
      BY <1>0 DEF Files, Inode
    <3> QED
      BY <2>1, <3>1, CountedOnce
  <2> DEFINE to == <<"inbox", p.name>>
  <2>3. to \in Place \X Name /\ to[2] = p.name
    <3>1. p.name \in Name
      BY <1>0 DEF Producers, Comer
    <3> QED
      BY <3>1 DEF Place
  <2> HIDE DEF to
  <2>4. /\ DOMAIN fs' = (DOMAIN fs \ gone) \cup {to} /\ fs'[to] = i
        /\ fs' \in [DOMAIN fs' -> Inode]
        /\ \A q \in DOMAIN fs \ gone : q # to => fs'[q] = fs[q]
    BY <2>1 DEF Comes, to
  <2>5. Entries'
    BY <1>0, <2>1, <2>3, <2>4 DEF Entries, Inode
  <2> QED
    BY <1>0, <2>1, <2>2, <2>5 DEF Files, Inode
<1>9. ASSUME \/ \E d \in {"needs_human", "blocked"} : \E n \in In(d) : Revive(d, n)
             \/ \E p \in puts : GiveUp(p)
      PROVE  Files' /\ Entries'
  <2>1. UNCHANGED <<fs, old, files, asked, begun>>
    BY <1>9 DEF Revive, GiveUp, disk
  <2> QED
    BY <1>0, <2>1 DEF Files, Entries, Inode
<1>3. CASE Time
  BY <1>0, <1>3 DEF Time, GrowOld, Files, Entries, Inode, Quiet
<1>4. ASSUME NEW x \in Worker, Start(x) \/ Stop(x) \/ Crash(x) \/ Recovering(x) \/ Scanning(x)
      PROVE  Files' /\ Entries'
  <2>1. UNCHANGED <<fs, old, files, asked, begun>>
    BY <1>4 DEF Start, Stop, Crash, Recovering, Scanning, RecoverOne, RecoverDone, NothingToClaim,
       ScanRunning, ScanInbox, ParkDeadlocked, DeadlocksParked, disk
  <2> QED
    BY <1>0, <2>1 DEF Files, Entries, Inode
<1>5. ASSUME NEW x \in Worker, Parking(x) PROVE Files' /\ Entries'
  <2>0. UNCHANGED <<old, files, asked, begun>>
    BY <1>5 DEF Parking, ParkLink, ParkUnlink, ParkUnclaim
  <2>1. Files'
    BY <1>0, <2>0 DEF Files, Inode
  <2>2. CASE UNCHANGED fs
    BY <1>0, <2>0, <2>1, <2>2 DEF Entries, Inode
  <2>3. CASE ParkLink(x) /\ fs' # fs
    <3>1. w[x].pc = "link" /\ w[x].src \in DOMAIN fs
      BY <2>3 DEF ParkLink, ParkFails, At
    <3>2. PICK k \in FreeSuffixes(w[x].src[2], w[x].dir) :
                  fs' = Links(w[x].src, <<w[x].dir, Candidate(w[x].src[2], k)>>)
      BY <2>3 DEF ParkLink, ParkFails
    <3>3. w[x].src[2] \in Name /\ w[x].dir \in Place /\ k \in Nat
      <4>1. w[x].src[2] \in Name
        BY <1>0, <3>1 DEF Entries
      <4>2. w[x].dir \in Parked
        BY <1>0, <3>1 DEF Locals, Fits, Local
      <4>3. k \in Nat
        BY <3>2, BacklogAssumption DEF FreeSuffixes
      <4> QED
        BY <4>1, <4>2, <4>3 DEF Place
    <3>4. /\ <<w[x].dir, Candidate(w[x].src[2], k)>> \in Place \X Name
          /\ Candidate(w[x].src[2], k)[1] = w[x].src[2][1]
      BY <3>3, CandidateIsName
    <3> QED
      BY <1>0, <2>0, <2>1, <3>1, <3>2, <3>4, EntriesLink
  <2>4. CASE ParkUnlink(x) /\ fs' # fs
    <3> DEFINE src == w[x].src
               to == w[x].target
    <3>1. w[x].pc = "unlink" /\ src \in DOMAIN fs /\ to \in DOMAIN fs /\ fs' = Moved(src, to)
      BY <2>4 DEF ParkUnlink, ParkFails, At
    <3>2. to[2][1] = src[2][1]
      BY <1>0, <3>1 DEF Locals, Fits
    <3> HIDE DEF src, to
    <3>3. /\ DOMAIN fs' = DOMAIN fs \ {src} /\ fs' \in [DOMAIN fs' -> Inode]
          /\ \A q \in DOMAIN fs' : fs'[q] = IF q = to THEN fs[src] ELSE fs[q]
      BY <1>0, <3>1, MovedIs
    <3>4. \A q \in DOMAIN fs' : \E o \in DOMAIN fs : fs'[q] = fs[o] /\ q[2][1] = o[2][1]
      BY <3>1, <3>2, <3>3
    <3> QED
      BY <1>0, <2>0, <2>1, <3>3, <3>4, EntriesMove DEF Entries
  <2> QED
    BY <1>5, <2>2, <2>3, <2>4 DEF Parking, ParkUnclaim
<1>6. ASSUME NEW x \in Worker, Claiming(x) PROVE Files' /\ Entries'
  <2>0. UNCHANGED <<old, files, asked, begun>>
    BY <1>6 DEF Claiming, Look, ClaimLink, ClaimUnlink, ClaimWrite, disk
  <2>1. Files'
    BY <1>0, <2>0 DEF Files, Inode
  <2>2. CASE UNCHANGED fs
    BY <1>0, <2>0, <2>1, <2>2 DEF Entries, Inode
  <2>3. CASE ClaimLink(x) /\ fs' # fs
    <3>1. PICK n \in In("inbox") : fs' = Links(<<"inbox", n>>, <<"running", n>>)
      BY <2>3 DEF ClaimLink, Linkable
    <3>2. n \in Name /\ <<"inbox", n>> \in DOMAIN fs
      BY <1>0, InIsName
    <3>3. <<"running", n>> \in Place \X Name
      BY <3>2 DEF Place
    <3> QED
      BY <1>0, <2>0, <2>1, <3>1, <3>2, <3>3, EntriesLink
  <2>4. CASE ClaimUnlink(x)
    BY <1>0, <2>0, <2>1, <2>4, EntriesWithout DEF ClaimUnlink
  <2> QED
    BY <1>6, <2>2, <2>3, <2>4 DEF Claiming, Look, ClaimWrite, disk
<1>7. ASSUME NEW x \in Worker, Working(x) PROVE Files' /\ Entries'
  <2>1. UNCHANGED <<fs, files, asked>> /\ old' \subseteq old
    BY <1>7 DEF Working, Dispatch, Heartbeat, Ends, DispatchEnds, disk
  <2>2. begun' \in Seq(Nat) /\ Len(begun') = Len(begun)
    <3>1. CASE UNCHANGED begun
      BY <1>0, <3>1 DEF Files
    <3>2. CASE begun' # begun
      <4>1. w[x].src \in DOMAIN fs /\ begun' = [begun EXCEPT ![fs[w[x].src]] = @ + 1]
        BY <1>7, <3>2 DEF Working, Dispatch, Heartbeat, Ends, DispatchEnds, disk
      <4>2. fs[w[x].src] \in 1 .. Len(begun)
        BY <1>0, <4>1 DEF Entries, Files, Inode
      <4> QED
        BY <1>0, <4>1, <4>2, CountedOnce DEF Files
    <3> QED
      BY <3>1, <3>2
  <2> QED
    BY <1>0, <2>1, <2>2 DEF Files, Entries, Inode
<1>8. CASE UNCHANGED vars
  BY <1>0, <1>8 DEF vars, Files, Entries, Inode
<1> QED
  BY <1>1, <1>2, <1>3, <1>4, <1>5, <1>6, <1>7, <1>8, <1>9 DEF Next, People, Loop

\* A step of one worker that leaves it what it must have.
LEMMA LocalsOne ==
    ASSUME Locals, NEW x \in Worker, NEW l, Fits(l), Becomes(x, l),
           UNCHANGED claims \/ claims' \in [DOMAIN claims' -> Claim],
           UNCHANGED failed, spent' \in [interrupts : Nat, revives : Nat]
    PROVE  Locals'
<1>1. l \in Local
  BY DEF Fits
<1>2. w' \in [Worker -> Local] /\ \A y \in Worker : w'[y] = IF y = x THEN l ELSE w[y]
  BY <1>1 DEF Becomes, Locals
<1>3. \A y \in Worker : Fits(w'[y])
  BY <1>2 DEF Locals
<1> QED
  BY <1>2, <1>3 DEF Locals, Fits

LEMMA OffFits == Fits(Off)
BY DEF Off, Fits, Local, PC, Held

\* Only a worker that has an entry in its hands must have anything.
LEMMA FreeFits ==
    ASSUME NEW l \in Local, l.pc \notin Held \cup {"unclaim"}
    PROVE  Fits(l)
BY DEF Fits, Held

LEMMA HeldFits ==
    ASSUME NEW l \in Local, l.src # <<>>, l.pc = "link" => l.dir # "", l.pc # "unlink",
           l.pc \in {"link", "unclaim"} => l.after # ""
    PROVE  Fits(l)
BY DEF Fits

\* The process of a worker is gone.
LEMMA LocalsExit ==
    ASSUME Locals, NEW x \in Worker, Exit(x), failed' \subseteq Worker,
           spent' \in [interrupts : Nat, revives : Nat]
    PROVE  Locals'
<1>1. Off \in Local
  BY OffFits DEF Fits
<1>2. w' \in [Worker -> Local] /\ \A y \in Worker : w'[y] = IF y = x THEN Off ELSE w[y]
  BY <1>1 DEF Exit, Becomes, Locals
<1>3. \A y \in Worker : Fits(w'[y])
  BY <1>2, OffFits DEF Locals
<1>4. \A c \in Claim : [c EXCEPT !.pid = Dead] \in Claim
  BY DEF Claim
<1>5. claims' \in [DOMAIN claims' -> Claim]
  BY <1>4 DEF Exit, Locals
<1> QED
  BY <1>2, <1>3, <1>5 DEF Locals, Fits

LEMMA SpendsOne ==
    ASSUME NEW s \in [interrupts : Nat, revives : Nat]
    PROVE  /\ [s EXCEPT !.interrupts = @ + 1] \in [interrupts : Nat, revives : Nat]
           /\ [s EXCEPT !.revives = @ + 1] \in [interrupts : Nat, revives : Nat]
OBVIOUS

LEMMA LocalsStep == Shape /\ [Next]_vars => Locals'
<1> SUFFICES ASSUME Shape, [Next]_vars PROVE Locals'
  OBVIOUS
<1>0. Files /\ Entries /\ Locals /\ spent \in [interrupts : Nat, revives : Nat]
  BY DEF Shape, Locals
<1>1. ASSUME NEW t \in Task, Add(t) PROVE Locals'
  BY <1>0, <1>1 DEF Add, Locals, Quiet, Fits
<1>2. ASSUME NEW d, NEW n, Revive(d, n) PROVE Locals'
  <2>1. [spent EXCEPT !.revives = @ + 1] \in [interrupts : Nat, revives : Nat]
    BY <1>0, SpendsOne
  <2> QED
    BY <1>0, <1>2, <2>1 DEF Revive, Locals, Fits
<1>3. CASE Time \/ \E p \in puts : Put(p) \/ GiveUp(p)
  BY <1>0, <1>3 DEF Time, GrowOld, Put, GiveUp, Locals, Quiet, disk, Fits
<1>4. \A d : In(d) \in SUBSET Name /\ Ids(d) \in SUBSET Ident
  BY <1>0, InIsName
<1>5. ASSUME NEW x \in Worker, Start(x) \/ Stop(x) \/ Crash(x) PROVE Locals'
  <2>0. [spent EXCEPT !.interrupts = @ + 1] \in [interrupts : Nat, revives : Nat]
    BY <1>0, SpendsOne
  <2>1. CASE Start(x)
    <3> DEFINE l == [Off EXCEPT !.pc = "recover", !.todo = In("running")]
    <3>1. l \in Local /\ l.pc = "recover"
      BY <1>4 DEF Off, Local, PC
    <3>2. Becomes(x, l) /\ UNCHANGED <<claims, failed, spent>>
      BY <2>1 DEF Start, disk, Quiet
    <3> HIDE DEF l
    <3> QED
      BY <1>0, <3>1, <3>2, FreeFits, LocalsOne DEF Held
  <2>2. CASE Stop(x)
    BY <1>0, <2>0, <2>2, OffFits, LocalsOne DEF Stop, disk
  <2>3. CASE Crash(x)
    BY <1>0, <2>0, <2>3, LocalsExit DEF Crash, Locals
  <2> QED
    BY <1>5, <2>1, <2>2, <2>3
<1>6. ASSUME NEW x \in Worker, Recovering(x) \/ Scanning(x) PROVE Locals'
  <2>1. UNCHANGED <<claims, failed, spent>> /\ w[x] \in Local /\ Fits(w[x])
    BY <1>0, <1>6 DEF Recovering, Scanning, RecoverOne, RecoverDone, NothingToClaim,
       ScanRunning, ScanInbox, ParkDeadlocked, DeadlocksParked, disk, Quiet, Locals
  <2> SUFFICES \E l : Fits(l) /\ Becomes(x, l)
    BY <1>0, <2>1, LocalsOne
  <2>3. CASE RecoverOne(x)
    <3>1. PICK n \in w[x].todo :
            \/ Becomes(x, [w[x] EXCEPT !.todo = @ \ {n}, !.pc = "link", !.dir = RecoverTo,
                                       !.src = <<"running", n>>, !.after = "recover"])
            \/ Becomes(x, [w[x] EXCEPT !.todo = @ \ {n}])
      BY <2>3 DEF RecoverOne
    <3>2. n \in Name
      BY <2>1 DEF Local
    <3>3. ASSUME NEW m \in Local
          PROVE  LET l == [m EXCEPT !.todo = @ \ {n}, !.pc = "link", !.dir = RecoverTo,
                                !.src = <<"running", n>>, !.after = "recover"]
             IN  /\ l \in Local /\ l.src = <<"running", n>> /\ l.pc = "link"
                 /\ l.dir = "needs_human" /\ l.after = "recover"
      BY <3>2 DEF Local, PC, Held, RecoverTo, Parked, Place
    <3>4. Fits([w[x] EXCEPT !.todo = @ \ {n}])
      BY <2>1 DEF Fits, Local
    <3> DEFINE l == [w[x] EXCEPT !.todo = @ \ {n}, !.pc = "link", !.dir = RecoverTo,
                                 !.src = <<"running", n>>, !.after = "recover"]
    <3>5. /\ l \in Local /\ l.src = <<"running", n>> /\ l.pc = "link"
          /\ l.dir = "needs_human" /\ l.after = "recover"
      BY <2>1, <3>3
    <3>6. Becomes(x, l) \/ Becomes(x, [w[x] EXCEPT !.todo = @ \ {n}])
      BY <3>1
    <3> HIDE DEF l
    <3>7. Fits(l)
      <4>1. l.src # <<>>
        BY <3>5
      <4> QED
        BY <3>5, <4>1, HeldFits
    <3> QED
      BY <3>4, <3>6, <3>7
  <2>4. CASE RecoverDone(x)
    <3>1. ASSUME NEW m \in Local
          PROVE  LET l == [m EXCEPT !.pc = "loop", !.after = ""]
                            IN  l \in Local /\ l.pc = "loop"
      BY DEF Local, PC
    <3> QED
      BY <2>1, <2>4, <3>1, FreeFits DEF RecoverDone, Held
  <2>5. CASE NothingToClaim(x)
    <3>1. ASSUME NEW m \in Local
          PROVE  LET l == [m EXCEPT !.pc = "loop"]
                            IN  l \in Local /\ l.pc = "loop"
      BY DEF Local, PC
    <3>2. ASSUME NEW m \in Local
          PROVE  LET l == [m EXCEPT !.pc = "scan", !.merged = merged_ids]
                            IN  l \in Local /\ l.pc = "scan"
      BY <1>4 DEF Local, PC, merged_ids
    <3>3. \/ Becomes(x, [w[x] EXCEPT !.pc = "loop"]) \/ Becomes(x, Off)
          \/ Becomes(x, [w[x] EXCEPT !.pc = "scan", !.merged = merged_ids])
      BY <2>5 DEF NothingToClaim
    <3> QED
      BY <2>1, <3>1, <3>2, <3>3, OffFits, FreeFits DEF Held
  <2>6. CASE ScanRunning(x)
    <3>1. ASSUME NEW m \in Local
          PROVE  LET l == [m EXCEPT !.pc = "scan_inbox", !.flight = Ids("running")]
                            IN  l \in Local /\ l.pc = "scan_inbox"
      BY <1>4 DEF Local, PC
    <3> QED
      BY <2>1, <2>6, <3>1, FreeFits DEF ScanRunning, Held
  <2>7. CASE ScanInbox(x)
    <3>1. PICK todo \in SUBSET Name :
             Becomes(x, [w[x] EXCEPT !.pc = "deadlocked", !.todo = todo, !.merged = {}, !.flight = {}])
      <4>1. \A entries \in SUBSET In("inbox") :
               Hopeless(entries, w[x].merged, w[x].flight) \in SUBSET Name
        BY <1>4 DEF Hopeless
      <4> QED
        BY <2>7, <4>1 DEF ScanInbox
    <3>2. ASSUME NEW m \in Local, NEW h \in SUBSET Name
          PROVE  LET l == [m EXCEPT !.pc = "deadlocked", !.todo = h, !.merged = {}, !.flight = {}]
             IN  l \in Local /\ l.pc = "deadlocked"
      BY DEF Local, PC
    <3> QED
      BY <2>1, <2>7, <3>1, <3>2, FreeFits DEF ScanInbox, Held
  <2>8. CASE ParkDeadlocked(x)
    <3>1. PICK n \in w[x].todo :
             Becomes(x, [w[x] EXCEPT !.todo = @ \ {n}, !.pc = "link", !.dir = "needs_human",
                                     !.src = <<"inbox", n>>, !.after = "deadlocked"])
      BY <2>8 DEF ParkDeadlocked
    <3>2. n \in Name
      BY <2>1 DEF Local
    <3>3. ASSUME NEW m \in Local
          PROVE  LET l == [m EXCEPT !.todo = @ \ {n}, !.pc = "link", !.dir = "needs_human",
                                !.src = <<"inbox", n>>, !.after = "deadlocked"]
             IN  /\ l \in Local /\ l.src = <<"inbox", n>> /\ l.pc = "link"
                 /\ l.dir = "needs_human" /\ l.after = "deadlocked"
      BY <3>2 DEF Local, PC, Held, Parked, Place
    <3> DEFINE l == [w[x] EXCEPT !.todo = @ \ {n}, !.pc = "link", !.dir = "needs_human",
                                 !.src = <<"inbox", n>>, !.after = "deadlocked"]
    <3>4. /\ l \in Local /\ l.src = <<"inbox", n>> /\ l.pc = "link"
          /\ l.dir = "needs_human" /\ l.after = "deadlocked"
      BY <2>1, <3>3
    <3>5. Becomes(x, l)
      BY <3>1
    <3> HIDE DEF l
    <3>6. l.src # <<>>
      BY <3>4
    <3> QED
      BY <3>4, <3>5, <3>6, HeldFits
  <2>9. CASE DeadlocksParked(x)
    <3>1. ASSUME NEW m \in Local
          PROVE  LET l == [m EXCEPT !.pc = "loop", !.after = ""]
                            IN  l \in Local /\ l.pc = "loop"
      BY DEF Local, PC
    <3> QED
      BY <2>1, <2>9, <3>1, OffFits, FreeFits DEF DeadlocksParked, Held
  <2> QED
    BY <1>6, <2>3, <2>4, <2>5, <2>6, <2>7, <2>8, <2>9 DEF Recovering, Scanning
<1>7. ASSUME NEW x \in Worker, Working(x) PROVE Locals'
  <2>1. UNCHANGED <<claims, failed, spent>> /\ w[x] \in Local /\ Fits(w[x])
    BY <1>0, <1>7 DEF Working, Dispatch, Heartbeat, Ends, DispatchEnds, disk, Quiet, Locals
  <2>2. CASE Heartbeat(x)
    BY <1>0, <2>1, <2>2 DEF Heartbeat, Locals, Fits
  <2>3. CASE Dispatch(x)
    <3>1. Fits([w[x] EXCEPT !.pc = "working"])
      BY <2>1, <2>3 DEF Dispatch, At, Fits, Local, PC, Held
    <3> QED
      BY <1>0, <2>1, <2>3, <3>1, LocalsOne DEF Dispatch, Goto
  <2>4. ASSUME NEW o \in DOMAIN DirOf, NEW c \in 0 .. 1, NEW u \in BOOLEAN, DispatchEnds(x, o, c, u)
        PROVE  Locals'
    <3>1. DirOf[o] \in Parked
      BY DEF DirOf, Parked
    <3>3. PICK d \in Parked, cost \in Nat, streak \in Nat :
             Becomes(x, [w[x] EXCEPT !.pc = "link", !.dir = d, !.after = "loop",
                                     !.cost = cost, !.streak = streak])
      <4> DEFINE cost == IF Budget = 0 THEN 0 ELSE w[x].cost + c
                 streak == IF u /\ MaxStreak > 0 THEN w[x].streak + 1 ELSE 0
      <4>1. cost \in Nat /\ streak \in Nat
        <5>1. w[x].cost \in Nat /\ w[x].streak \in Nat
          BY <2>1 DEF Local
        <5>2. c \in Nat
          BY <2>4
        <5> QED
          BY <5>1, <5>2
      <4> QED
        BY <2>4, <3>1, <4>1 DEF DispatchEnds
    <3>4. w[x].src # <<>>
      BY <2>1, <2>4 DEF DispatchEnds, At, Fits, Held
    <3> DEFINE l == [w[x] EXCEPT !.pc = "link", !.dir = d, !.after = "loop",
                                 !.cost = cost, !.streak = streak]
    <3>5. /\ l \in Local /\ l.src = w[x].src /\ l.pc = "link" /\ l.dir = d
          /\ l.after = "loop"
      <4>1. d \in Parked /\ cost \in Nat /\ streak \in Nat
        BY <3>3
      <4> QED
        BY <2>1, <4>1 DEF Local, PC, Held, Parked
    <3>6. Becomes(x, l)
      BY <3>3
    <3> HIDE DEF l
    <3>7. Fits(l)
      BY <3>3, <3>4, <3>5, HeldFits DEF Parked
    <3> QED
      BY <1>0, <2>1, <3>6, <3>7, LocalsOne
  <2> QED
    BY <1>7, <2>2, <2>3, <2>4 DEF Working, Ends
<1>8. ASSUME NEW x \in Worker, Claiming(x) PROVE Locals'
  <2>1. UNCHANGED <<failed, spent>> /\ w[x] \in Local /\ Fits(w[x])
    BY <1>0, <1>8 DEF Claiming, Look, ClaimLink, ClaimUnlink, ClaimWrite, disk, Quiet, Locals
  <2>2. CASE Look(x)
    <3> DEFINE ready == {n \in In("inbox") : missing_deps(fs[<<"inbox", n>>], merged_ids) = {}}
    <3>1. ASSUME NEW m \in Local, NEW r \in SUBSET Name
          PROVE  LET l == [m EXCEPT !.pc = "claim", !.todo = r]
                                               IN  l \in Local /\ l.pc = "claim"
      BY DEF Local, PC
    <3>2. ready \in SUBSET Name
      BY <1>4
    <3>3. Becomes(x, Off) \/ Becomes(x, [w[x] EXCEPT !.pc = "claim", !.todo = ready])
      BY <2>2 DEF Look
    <3> QED
      BY <1>0, <2>1, <2>2, <3>1, <3>2, <3>3, OffFits, FreeFits, LocalsOne DEF Look, disk, Held
  <2>3. CASE ClaimLink(x)
    <3>1. PICK n \in w[x].todo :
            \/ Becomes(x, [w[x] EXCEPT !.pc = "linked", !.src = <<"running", n>>, !.todo = {}])
            \/ Becomes(x, [w[x] EXCEPT !.todo = @ \ {n}])
      BY <2>3 DEF ClaimLink
    <3>2. n \in Name
      BY <2>1 DEF Local
    <3>3. ASSUME NEW m \in Local
          PROVE  LET l == [m EXCEPT !.pc = "linked", !.src = <<"running", n>>, !.todo = {}]
             IN  l \in Local /\ l.src = <<"running", n>> /\ l.pc = "linked"
      BY <3>2 DEF Local, PC, Held, Place
    <3>4. Fits([w[x] EXCEPT !.todo = @ \ {n}])
      BY <2>1 DEF Fits, Local
    <3> DEFINE l == [w[x] EXCEPT !.pc = "linked", !.src = <<"running", n>>, !.todo = {}]
    <3>5. l \in Local /\ l.src = <<"running", n>> /\ l.pc = "linked"
      BY <2>1, <3>3
    <3>6. Becomes(x, l) \/ Becomes(x, [w[x] EXCEPT !.todo = @ \ {n}])
      BY <3>1
    <3> HIDE DEF l
    <3>7. Fits(l)
      <4>1. l.src # <<>>
        BY <3>5
      <4> QED
        BY <3>5, <4>1, HeldFits
    <3>8. UNCHANGED claims
      BY <2>3 DEF ClaimLink
    <3> QED
      BY <1>0, <2>1, <3>4, <3>6, <3>7, <3>8, LocalsOne
  <2>4. CASE ClaimUnlink(x)
    <3>1. Fits([w[x] EXCEPT !.pc = "unlinked"])
      BY <2>1, <2>4 DEF ClaimUnlink, At, Fits, Local, PC, Held
    <3> QED
      BY <1>0, <2>1, <2>4, <3>1, LocalsOne DEF ClaimUnlink, Goto
  <2>5. CASE ClaimWrite(x)
    <3> DEFINE c == [host |-> HostOf[x], pid |-> x]
    <3>1. Fits([w[x] EXCEPT !.pc = "claimed"])
      BY <2>1, <2>5 DEF ClaimWrite, At, Fits, Local, PC, Held
    <3>2. c \in Claim
      BY DEF Claim
    <3> HIDE DEF c
    <3>3. claims' = With(claims, w[x].src[2], c)
      BY <2>5 DEF ClaimWrite, c
    <3>4. claims' \in [DOMAIN claims' -> Claim]
      BY <1>0, <3>2, <3>3 DEF With, Locals
    <3> QED
      BY <1>0, <2>1, <2>5, <3>1, <3>4, LocalsOne DEF ClaimWrite, Goto
  <2> QED
    BY <1>8, <2>2, <2>3, <2>4, <2>5 DEF Claiming
<1>9. ASSUME NEW x \in Worker, Parking(x) PROVE Locals'
  <2>1. UNCHANGED spent /\ w[x] \in Local /\ Fits(w[x])
    BY <1>0, <1>9 DEF Parking, ParkLink, ParkUnlink, ParkUnclaim, disk, Quiet, Locals
  <2>2. w[x].src # <<>> => w[x].src[2] \in Name /\ w[x].src[1] \in Place
    BY <2>1 DEF Local
  <2>3. CASE ParkFails(x)
    <3>1. CASE w[x].after = "recover"
      <4>1. ASSUME NEW m \in Local
          PROVE  LET l == [m EXCEPT !.pc = "recover", !.src = <<>>, !.target = <<>>]
                              IN  l \in Local /\ l.pc = "recover"
        BY DEF Local, PC
      <4> QED
        BY <1>0, <2>1, <2>3, <3>1, <4>1, FreeFits, LocalsOne DEF ParkFails, Held
    <3>2. CASE w[x].after # "recover"
      <4>1. Exit(x) /\ failed' \subseteq Worker
        BY <1>0, <2>3, <3>2 DEF ParkFails, Locals
      <4> QED
        BY <1>0, <2>1, <4>1, LocalsExit
    <3> QED
      BY <3>1, <3>2
  <2>4. CASE ParkLink(x) /\ ~ParkFails(x)
    <3>1. /\ w[x].pc = "link" /\ w[x].src # <<>> /\ w[x].dir \in Parked /\ w[x].after # ""
          /\ UNCHANGED <<claims, failed>>
      BY <2>1, <2>4 DEF ParkLink, At, Fits, Local, Held
    <3>2. PICK k \in FreeSuffixes(w[x].src[2], w[x].dir) :
             Becomes(x, [w[x] EXCEPT !.pc = "unlink",
                                     !.target = <<w[x].dir, Candidate(w[x].src[2], k)>>])
      BY <2>4 DEF ParkLink
    <3>3. k \in Nat
      BY <3>2, BacklogAssumption DEF FreeSuffixes
    <3>4. Candidate(w[x].src[2], k) \in Name /\ Candidate(w[x].src[2], k)[1] = w[x].src[2][1]
      BY <2>2, <3>1, <3>3, CandidateIsName
    <3>5. ASSUME NEW m \in Local, NEW t \in Parked \X Name
          PROVE  LET l == [m EXCEPT !.pc = "unlink", !.target = t]
             IN  l \in Local /\ l.pc = "unlink" /\ l.src = m.src /\ l.target = t /\ l.after = m.after
      BY DEF Local, PC, Held, Parked
    <3> DEFINE t == <<w[x].dir, Candidate(w[x].src[2], k)>>
               l == [w[x] EXCEPT !.pc = "unlink", !.target = t]
    <3>6. t \in Parked \X Name /\ t # <<>> /\ t[2][1] = w[x].src[2][1]
      BY <3>1, <3>4
    <3>7. Becomes(x, l)
      BY <3>2
    <3> HIDE DEF t
    <3>8. l \in Local /\ l.pc = "unlink" /\ l.src = w[x].src /\ l.target = t /\ l.after = w[x].after
      BY <2>1, <3>5, <3>6
    <3> HIDE DEF l
    <3>9. Fits(l)
      BY <3>1, <3>6, <3>8 DEF Fits
    <3> QED
      BY <1>0, <2>1, <3>1, <3>7, <3>9, LocalsOne
  <2>5. CASE ParkUnlink(x) /\ ~ParkFails(x)
    <3>1. /\ w[x].pc = "unlink" /\ w[x].src # <<>> /\ w[x].after # ""
          /\ UNCHANGED <<claims, failed>>
          /\ Becomes(x, [w[x] EXCEPT !.pc = "unclaim"])
      BY <2>1, <2>5 DEF ParkUnlink, At, Fits, Held, Goto
    <3>2. ASSUME NEW m \in Local
          PROVE  LET l == [m EXCEPT !.pc = "unclaim"]
                            IN  l \in Local /\ l.pc = "unclaim" /\ l.src = m.src /\ l.after = m.after
      BY DEF Local, PC
    <3> QED
      BY <1>0, <2>1, <3>1, <3>2, HeldFits, LocalsOne
  <2>6. CASE ParkUnclaim(x)
    <3>1. w[x].after \in {"recover", "loop", "deadlocked"}
      BY <2>1, <2>6 DEF ParkUnclaim, At, Fits, Local
    <3>2. ASSUME NEW m \in Local, NEW a \in {"recover", "loop", "deadlocked"}
          PROVE  LET l == [m EXCEPT !.pc = a, !.src = <<>>, !.target = <<>>, !.dir = ""]
             IN  l \in Local /\ l.pc = a
      BY DEF Local, PC
    <3>3. UNCHANGED claims \/ claims' \in [DOMAIN claims' -> Claim]
      <4>1. \A n : \A c \in DOMAIN Without(claims, n) : Without(claims, n)[c] \in Claim
        BY <1>0 DEF Locals, Without, Restrict
      <4>2. \A n : Without(claims, n) \in [DOMAIN Without(claims, n) -> Claim]
        BY <4>1 DEF Without, Restrict
      <4> QED
        BY <2>6, <4>2 DEF ParkUnclaim
    <3>4. UNCHANGED failed
      BY <2>6 DEF ParkUnclaim, Quiet
    <3> QED
      BY <1>0, <2>1, <2>6, <3>1, <3>2, <3>3, <3>4, FreeFits, LocalsOne DEF ParkUnclaim, Held
  <2> QED
    BY <1>9, <2>3, <2>4, <2>5, <2>6 DEF Parking
<1>10. CASE UNCHANGED vars
  BY <1>0, <1>10 DEF vars, Locals, Fits
<1> QED
  BY <1>1, <1>2, <1>3, <1>5, <1>6, <1>7, <1>8, <1>9, <1>10 DEF Next, People, Loop

LEMMA ShapeStep == Shape /\ [Next]_vars => Shape'
BY EntriesStep, LocalsStep, ProducersStep DEF Shape

LEMMA ShapeInit == Init => Shape
<1> SUFFICES ASSUME Init PROVE Shape
  OBVIOUS
<1>1. Files
  BY DEF Init, Files, Inode
<1>2. Entries
  BY DEF Init, Entries
<1>3. Off \in Local /\ Fits(Off)
  BY OffFits DEF Fits
<1>4. Locals
  BY <1>3 DEF Init, Locals
<1>5. Producers
  BY FS_EmptySet, BacklogAssumption DEF Init, Producers
<1> QED
  BY <1>1, <1>2, <1>4, <1>5 DEF Shape

LEMMA AlwaysShape == Spec => []Shape
BY ShapeInit, ShapeStep, PTL DEF Spec

\* Every entry is a created file in a known directory under a name of its task, whatever
\* the workers do and wherever they are interrupted (add, claim, _park, recover, revive).
THEOREM TypeCorrect == Spec => []TypeOK
<1>1. Shape => TypeOK
  <2> SUFFICES ASSUME Shape PROVE TypeOK
    OBVIOUS
  <2>1. \A p \in DOMAIN fs : p[1] \in Place /\ fs[p] \in Inode /\ p[2][1] = files[fs[p]]
    BY DEF Shape, Entries
  <2>2. DOMAIN asked = Inode /\ DOMAIN begun = Inode
    BY LenProperties DEF Shape, Files, Inode
  <2>3. \A n \in DOMAIN claims : claims[n].pid \in Worker \cup {Dead}
    BY DEF Shape, Locals, Claim
  <2>4. Cardinality(puts) <= MaxProducers /\ \A p \in puts : p.ino \in Inode /\ p.name[1] = files[p.ino]
    BY DEF Shape, Producers, Comer
  <2> QED
    BY <2>1, <2>2, <2>3, <2>4 DEF TypeOK, Shape, Files, Locals
<1> QED
  BY <1>1, AlwaysShape, PTL

-----------------------------------------------------------------------------
(* Who has which entry.                                                    *)

\* There is one worker.
Alone == \A x, y \in Worker : x = y

\* Workers start over an empty running directory and share independent files.
Separate == ~LateStarts /\ \A t \in Task : Deps[t] = {}

\* A step of worker x.
Acts(x) == Start(x) \/ Stop(x) \/ Crash(x) \/ Loop(x)

\* How a worker gets to where it is: a is what it had in hand, b what it has now.
Reached(x, a, b) ==
    /\ b.pc = "linked" => ClaimLink(x) /\ Linkable(b.src[2]) /\ b.src = <<"running", b.src[2]>>
    /\ b.pc = "unlinked" => ClaimUnlink(x) /\ b.src = a.src
    /\ b.pc = "claimed" => ClaimWrite(x) /\ b.src = a.src
    /\ b.pc = "working" => Dispatch(x) /\ b.src = a.src
    /\ b.pc = "link" =>
         \/ a.pc = "working" /\ b.src = a.src /\ b.after = "loop"
         \/ /\ a.pc = "recover" /\ b.after = "recover"
            /\ \E n \in a.todo : n \in In("running") /\ b.src = <<"running", n>>
         \/ /\ a.pc = "deadlocked" /\ b.after = "deadlocked"
            /\ \E n \in a.todo : b.src = <<"inbox", n>> /\ b.todo = a.todo \ {n}
    /\ b.pc = "unlink" =>
         /\ ParkLink(x) /\ b.target \notin DOMAIN fs
         /\ fs' = Links(a.src, b.target) /\ a.src \in DOMAIN fs
         /\ b.src = a.src /\ b.after = a.after /\ b.todo = a.todo
    /\ b.pc = "unclaim" => a.pc = "unlink" /\ b.src = a.src /\ b.after = a.after /\ b.todo = a.todo
    /\ b.pc = "recover" =>
         \/ LateStarts /\ a.pc = "off"
         \/ b.todo = {}
         \/ a.pc = "recover" /\ b.todo \subseteq a.todo
         \/ a.pc \in {"link", "unlink", "unclaim"} /\ a.after = "recover"
    /\ b.pc = "scan" => Waiting # {}
    /\ b.pc = "scan_inbox" => a.pc = "scan"
    /\ b.pc = "deadlocked" =>
         \/ a.pc = "scan_inbox" /\ b.todo \subseteq In("inbox")
         \/ a.pc = "unclaim" /\ a.after = "deadlocked" /\ b.todo = a.todo

LEMMA ExitReaches ==
    ASSUME Shape, NEW x \in Worker, Becomes(x, Off)
    PROVE  /\ \A y \in Worker \ {x} : w'[y] = w[y]
           /\ Reached(x, w[x], w'[x])
<1>1. w'[x] = Off /\ \A y \in Worker \ {x} : w'[y] = w[y]
  BY DEF Becomes, Shape, Locals
<1>2. Off.pc = "off"
  BY DEF Off
<1> QED
  BY <1>1, <1>2 DEF Reached

LEMMA WorkerReaches ==
    ASSUME Shape, NEW x \in Worker, Acts(x)
    PROVE  /\ \A y \in Worker \ {x} : w'[y] = w[y]
           /\ w'[x] = w[x] \/ Reached(x, w[x], w'[x])
<1>0. w[x] \in Local /\ Fits(w[x]) /\ w \in [Worker -> Local]
  BY DEF Shape, Locals
<1>1. ASSUME NEW l, Becomes(x, l)
      PROVE  (\A y \in Worker \ {x} : w'[y] = w[y]) /\ w'[x] = l
  BY <1>0, <1>1 DEF Becomes
<1>2. CASE Start(x)
  <2>1. w'[x] = [Off EXCEPT !.pc = "recover", !.todo = In("running")]
        /\ \A y \in Worker \ {x} : w'[y] = w[y]
    BY <1>1, <1>2 DEF Start
  <2>2. w'[x].pc = "recover" /\ w'[x].todo = In("running") /\ w[x].pc = "off"
        /\ (LateStarts \/ In("running") = {})
    BY <1>2, <2>1 DEF Off, Start, At
  <2> QED
    BY <2>1, <2>2 DEF Reached
<1>3. CASE Stop(x) \/ Crash(x)
  BY <1>3, ExitReaches DEF Stop, Crash, Exit
<1>4. CASE RecoverOne(x)
  <2>1. PICK n \in w[x].todo :
          \/ /\ n \in In("running")
             /\ Becomes(x, [w[x] EXCEPT !.todo = @ \ {n}, !.pc = "link", !.dir = RecoverTo,
                                        !.src = <<"running", n>>, !.after = "recover"])
          \/ Becomes(x, [w[x] EXCEPT !.todo = @ \ {n}])
    BY <1>4 DEF RecoverOne, StaleReason
  <2>2. w[x].pc = "recover"
    BY <1>4 DEF RecoverOne, At
  <2>3. CASE Becomes(x, [w[x] EXCEPT !.todo = @ \ {n}])
    <3>1. w'[x].pc = "recover" /\ w'[x].todo \subseteq w[x].todo
      <4>1. w'[x] = [w[x] EXCEPT !.todo = @ \ {n}]
        BY <1>1, <2>3
      <4> QED
        BY <1>0, <2>2, <4>1 DEF Local
    <3> QED
      BY <1>1, <2>2, <2>3, <3>1 DEF Reached
  <2>4. CASE n \in In("running") /\ Becomes(x, [w[x] EXCEPT !.todo = @ \ {n}, !.pc = "link",
               !.dir = RecoverTo, !.src = <<"running", n>>, !.after = "recover"])
    <3>1. w'[x].pc = "link" /\ w'[x].after = "recover" /\ w'[x].src = <<"running", n>>
      <4>1. w'[x] = [w[x] EXCEPT !.todo = @ \ {n}, !.pc = "link", !.dir = RecoverTo,
                              !.src = <<"running", n>>, !.after = "recover"]
        BY <1>1, <2>4
      <4> QED
        BY <1>0, <4>1 DEF Local
    <3> QED
      BY <1>1, <2>1, <2>2, <2>4, <3>1 DEF Reached
  <2> QED
    BY <2>1, <2>3, <2>4
<1>5. CASE RecoverDone(x)
  <2>1. w'[x].pc = "loop"
    <3>1. w'[x] = [w[x] EXCEPT !.pc = "loop", !.after = ""]
      BY <1>1, <1>5 DEF RecoverDone
    <3> QED
      BY <1>0, <3>1 DEF Local
  <2> QED
    BY <1>1, <1>5, <2>1 DEF Reached, RecoverDone
<1>6. CASE ParkFails(x) /\ w[x].pc \in {"link", "unlink"}
  <2>1. CASE w[x].after = "recover"
    <3>1. w'[x].pc = "recover"
      <4>1. w'[x] = [w[x] EXCEPT !.pc = "recover", !.src = <<>>, !.target = <<>>]
        BY <1>1, <1>6, <2>1 DEF ParkFails
      <4> QED
        BY <1>0, <4>1 DEF Local
    <3> QED
      BY <1>1, <1>6, <2>1, <3>1 DEF Reached, ParkFails
  <2>2. CASE w[x].after # "recover"
    BY <1>6, <2>2, ExitReaches DEF ParkFails, Exit
  <2> QED
    BY <2>1, <2>2
<1>7. CASE ParkLink(x) /\ ~ParkFails(x)
  <2>1. w[x].src \in DOMAIN fs /\ w[x].pc = "link"
    BY <1>7 DEF ParkLink, At
  <2>2. PICK k \in FreeSuffixes(w[x].src[2], w[x].dir) :
           /\ fs' = Links(w[x].src, <<w[x].dir, Candidate(w[x].src[2], k)>>)
           /\ Becomes(x, [w[x] EXCEPT !.pc = "unlink",
                                   !.target = <<w[x].dir, Candidate(w[x].src[2], k)>>])
    BY <1>7 DEF ParkLink
  <2> DEFINE to == <<w[x].dir, Candidate(w[x].src[2], k)>>
  <2>3. to \notin DOMAIN fs
    BY <2>2 DEF FreeSuffixes, In
  <2> HIDE DEF to
  <2>4. fs' = Links(w[x].src, to) /\ Becomes(x, [w[x] EXCEPT !.pc = "unlink", !.target = to])
    BY <2>2 DEF to
  <2>5. /\ w'[x].pc = "unlink" /\ w'[x].target = to /\ w'[x].src = w[x].src
        /\ w'[x].after = w[x].after /\ w'[x].todo = w[x].todo
    <3>1. w'[x] = [w[x] EXCEPT !.pc = "unlink", !.target = to]
      BY <1>1, <2>4
    <3> QED
      BY <1>0, <3>1 DEF Local
  <2> QED
    BY <1>1, <1>7, <2>1, <2>3, <2>4, <2>5 DEF Reached
<1>8. CASE ParkUnlink(x) /\ ~ParkFails(x)
  <2>1. w[x].pc = "unlink" /\ Becomes(x, [w[x] EXCEPT !.pc = "unclaim"])
    BY <1>8 DEF ParkUnlink, At, Goto
  <2>2. w'[x].pc = "unclaim" /\ w'[x].src = w[x].src /\ w'[x].after = w[x].after
        /\ w'[x].todo = w[x].todo
    <3>1. w'[x] = [w[x] EXCEPT !.pc = "unclaim"]
      BY <1>1, <2>1
    <3> QED
      BY <1>0, <3>1 DEF Local
  <2> QED
    BY <1>1, <2>1, <2>2 DEF Reached
<1>9. CASE ParkUnclaim(x)
  <2>1. w[x].pc = "unclaim" /\ Becomes(x, [w[x] EXCEPT !.pc = w[x].after, !.src = <<>>,
                                                       !.target = <<>>, !.dir = ""])
    BY <1>9 DEF ParkUnclaim, At
  <2>2. w[x].after \in {"recover", "loop", "deadlocked"}
    BY <1>0, <2>1 DEF Fits, Local
  <2>3. w'[x].pc = w[x].after /\ w'[x].todo = w[x].todo
    <3>1. w'[x] = [w[x] EXCEPT !.pc = w[x].after, !.src = <<>>, !.target = <<>>,
                           !.dir = ""]
      BY <1>1, <2>1
    <3> QED
      BY <1>0, <3>1 DEF Local
  <2> QED
    BY <1>1, <2>1, <2>2, <2>3 DEF Reached
<1>10. CASE Look(x)
  <2>1. CASE Becomes(x, Off)
    BY <2>1, ExitReaches
  <2>2. CASE ~Becomes(x, Off)
    <3>1. PICK r : Becomes(x, [w[x] EXCEPT !.pc = "claim", !.todo = r])
      BY <1>10, <2>2 DEF Look
    <3>2. w'[x].pc = "claim"
      <4>1. w'[x] = [w[x] EXCEPT !.pc = "claim", !.todo = r]
        BY <1>1, <3>1
      <4> QED
        BY <1>0, <4>1 DEF Local
    <3> QED
      BY <1>1, <3>1, <3>2 DEF Reached
  <2> QED
    BY <2>1, <2>2
<1>11. CASE ClaimLink(x)
  <2>1. PICK n \in w[x].todo :
          \/ /\ Linkable(n)
             /\ Becomes(x, [w[x] EXCEPT !.pc = "linked", !.src = <<"running", n>>, !.todo = {}])
          \/ Becomes(x, [w[x] EXCEPT !.todo = @ \ {n}])
    BY <1>11 DEF ClaimLink
  <2>2. CASE Becomes(x, [w[x] EXCEPT !.todo = @ \ {n}])
    <3>1. w'[x].pc = "claim"
      <4>1. w'[x] = [w[x] EXCEPT !.todo = @ \ {n}]
        BY <1>1, <2>2
      <4> QED
        BY <1>0, <1>11, <4>1 DEF Local, ClaimLink, At
    <3> QED
      BY <1>1, <2>2, <3>1 DEF Reached
  <2>3. CASE Linkable(n) /\ Becomes(x, [w[x] EXCEPT !.pc = "linked", !.src = <<"running", n>>,
                                                    !.todo = {}])
    <3>1. w'[x].pc = "linked" /\ w'[x].src = <<"running", n>>
      <4>1. w'[x] = [w[x] EXCEPT !.pc = "linked", !.src = <<"running", n>>, !.todo = {}]
        BY <1>1, <2>3
      <4> QED
        BY <1>0, <4>1 DEF Local
    <3> QED
      BY <1>1, <1>11, <2>3, <3>1 DEF Reached
  <2> QED
    BY <2>1, <2>2, <2>3
<1>12. CASE ClaimUnlink(x) \/ ClaimWrite(x) \/ Dispatch(x)
  <2>1. \/ ClaimUnlink(x) /\ Becomes(x, [w[x] EXCEPT !.pc = "unlinked"])
        \/ ClaimWrite(x) /\ Becomes(x, [w[x] EXCEPT !.pc = "claimed"])
        \/ Dispatch(x) /\ Becomes(x, [w[x] EXCEPT !.pc = "working"])
    BY <1>12 DEF ClaimUnlink, ClaimWrite, Dispatch, Goto
  <2>2. /\ \/ ClaimUnlink(x) /\ w'[x].pc = "unlinked"
           \/ ClaimWrite(x) /\ w'[x].pc = "claimed"
           \/ Dispatch(x) /\ w'[x].pc = "working"
        /\ w'[x].src = w[x].src
    <3>1. \/ ClaimUnlink(x) /\ w'[x] = [w[x] EXCEPT !.pc = "unlinked"]
          \/ ClaimWrite(x) /\ w'[x] = [w[x] EXCEPT !.pc = "claimed"]
          \/ Dispatch(x) /\ w'[x] = [w[x] EXCEPT !.pc = "working"]
      BY <1>1, <2>1
    <3> QED
      BY <1>0, <3>1 DEF Local
  <2> QED
    BY <1>1, <2>1, <2>2 DEF Reached
<1>13. CASE Heartbeat(x)
  BY <1>13 DEF Heartbeat
<1>14. CASE Ends(x)
  <2>1. PICK d, cost, streak :
          Becomes(x, [w[x] EXCEPT !.pc = "link", !.dir = d, !.after = "loop",
                                  !.cost = cost, !.streak = streak])
    BY <1>14 DEF Ends, DispatchEnds
  <2>2. w'[x].pc = "link" /\ w'[x].after = "loop" /\ w'[x].src = w[x].src /\ w[x].pc = "working"
    <3>1. w'[x] = [w[x] EXCEPT !.pc = "link", !.dir = d, !.after = "loop",
                           !.cost = cost, !.streak = streak]
      BY <1>1, <2>1
    <3> QED
      BY <1>0, <1>14, <3>1 DEF Local, Ends, DispatchEnds, At
  <2> QED
    BY <1>1, <2>1, <2>2 DEF Reached
<1>15. CASE NothingToClaim(x)
  <2>1. \/ Becomes(x, Off) \/ Becomes(x, [w[x] EXCEPT !.pc = "loop"])
        \/ Waiting # {} /\ Becomes(x, [w[x] EXCEPT !.pc = "scan", !.merged = merged_ids])
    BY <1>15 DEF NothingToClaim
  <2>2. CASE Becomes(x, [w[x] EXCEPT !.pc = "loop"])
    <3>1. w'[x].pc = "loop"
      <4>1. w'[x] = [w[x] EXCEPT !.pc = "loop"]
        BY <1>1, <2>2
      <4> QED
        BY <1>0, <4>1 DEF Local
    <3> QED
      BY <1>1, <2>2, <3>1 DEF Reached
  <2>3. CASE Waiting # {} /\ Becomes(x, [w[x] EXCEPT !.pc = "scan", !.merged = merged_ids])
    <3>1. w'[x].pc = "scan"
      <4>1. w'[x] = [w[x] EXCEPT !.pc = "scan", !.merged = merged_ids]
        BY <1>1, <2>3
      <4> QED
        BY <1>0, <4>1 DEF Local
    <3> QED
      BY <1>1, <2>3, <3>1 DEF Reached
  <2> QED
    BY <2>1, <2>2, <2>3, ExitReaches
<1>16. CASE ScanRunning(x)
  <2>1. w'[x].pc = "scan_inbox" /\ w[x].pc = "scan"
    <3>1. w'[x] = [w[x] EXCEPT !.pc = "scan_inbox", !.flight = Ids("running")]
      BY <1>1, <1>16 DEF ScanRunning
    <3> QED
      BY <1>0, <1>16, <3>1 DEF Local, ScanRunning, At
  <2> QED
    BY <1>1, <1>16, <2>1 DEF Reached, ScanRunning
<1>17. CASE ScanInbox(x)
  <2>1. PICK todo \in SUBSET In("inbox") :
           Becomes(x, [w[x] EXCEPT !.pc = "deadlocked", !.todo = todo, !.merged = {}, !.flight = {}])
    BY <1>17 DEF ScanInbox, Hopeless
  <2>2. w'[x].pc = "deadlocked" /\ w'[x].todo = todo /\ w[x].pc = "scan_inbox"
    <3>1. w'[x] = [w[x] EXCEPT !.pc = "deadlocked", !.todo = todo, !.merged = {}, !.flight = {}]
      BY <1>1, <2>1
    <3> QED
      BY <1>0, <1>17, <3>1 DEF Local, ScanInbox, At
  <2> QED
    BY <1>1, <2>1, <2>2 DEF Reached
<1>18. CASE ParkDeadlocked(x)
  <2>1. PICK n \in w[x].todo :
           Becomes(x, [w[x] EXCEPT !.todo = @ \ {n}, !.pc = "link", !.dir = "needs_human",
                                   !.src = <<"inbox", n>>, !.after = "deadlocked"])
    BY <1>18 DEF ParkDeadlocked
  <2>2. /\ w'[x].pc = "link" /\ w'[x].after = "deadlocked"
        /\ w'[x].src = <<"inbox", n>> /\ w'[x].todo = w[x].todo \ {n} /\ w[x].pc = "deadlocked"
    <3>1. w'[x] = [w[x] EXCEPT !.todo = @ \ {n}, !.pc = "link", !.dir = "needs_human",
                            !.src = <<"inbox", n>>, !.after = "deadlocked"]
      BY <1>1, <2>1
    <3> QED
      BY <1>0, <1>18, <3>1 DEF Local, ParkDeadlocked, At
  <2> QED
    BY <1>1, <2>1, <2>2 DEF Reached
<1>19. CASE DeadlocksParked(x)
  <2>1. CASE Becomes(x, Off)
    BY <2>1, ExitReaches
  <2>2. CASE Becomes(x, [w[x] EXCEPT !.pc = "loop", !.after = ""])
    <3>1. w'[x].pc = "loop"
      <4>1. w'[x] = [w[x] EXCEPT !.pc = "loop", !.after = ""]
        BY <1>1, <2>2
      <4> QED
        BY <1>0, <4>1 DEF Local
    <3> QED
      BY <1>1, <2>2, <3>1 DEF Reached
  <2> QED
    BY <1>19, <2>1, <2>2 DEF DeadlocksParked
<1> QED
  BY <1>2, <1>3, <1>4, <1>5, <1>6, <1>7, <1>8, <1>9, <1>10, <1>11, <1>12, <1>13, <1>14, <1>15,
     <1>16, <1>17, <1>18, <1>19
     DEF Acts, Loop, Recovering, Parking, Claiming, Working, Scanning, ParkLink, ParkUnlink, At

\* What a second name of an entry leaves of the others.
LEMMA LinksIs ==
    ASSUME NEW src \in DOMAIN fs, NEW to, fs' = Links(src, to)
    PROVE  /\ DOMAIN fs' = DOMAIN fs \cup {to}
           /\ fs'[to] = fs[src]
           /\ \A q \in DOMAIN fs : q # to => fs'[q] = fs[q]
BY DEF Links, With

-----------------------------------------------------------------------------
(* What a worker's step leaves of inbox and running.                       *)

\* Parking is done: its entry has lost the name it had.
Departs(x) == ParkUnlink(x) /\ w'[x].pc = "unclaim"

LEMMA ParkUnlinkIs ==
    ASSUME Shape, NEW x \in Worker, ParkUnlink(x), fs' # fs
    PROVE  /\ Departs(x) /\ w[x].pc = "unlink"
           /\ w[x].src \in DOMAIN fs /\ w[x].target \in DOMAIN fs
           /\ DOMAIN fs' = DOMAIN fs \ {w[x].src}
           /\ \A q \in DOMAIN fs' : fs'[q] = IF q = w[x].target THEN fs[w[x].src] ELSE fs[q]
<1>0. w[x] \in Local /\ w \in [Worker -> Local] /\ Entries
  BY DEF Shape, Locals
<1>1. /\ w[x].pc = "unlink" /\ w[x].src \in DOMAIN fs /\ w[x].target \in DOMAIN fs
      /\ fs' = Moved(w[x].src, w[x].target) /\ Becomes(x, [w[x] EXCEPT !.pc = "unclaim"])
  BY DEF ParkUnlink, ParkFails, At, Goto
<1>2. w'[x] = [w[x] EXCEPT !.pc = "unclaim"]
  BY <1>0, <1>1 DEF Becomes
<1>3. w'[x].pc = "unclaim"
  BY <1>0, <1>2 DEF Local
<1> DEFINE src == w[x].src
           to == w[x].target
<1>4. src \in DOMAIN fs /\ to \in DOMAIN fs /\ fs' = Moved(src, to)
  BY <1>1
<1>5. /\ DOMAIN fs' = DOMAIN fs \ {src}
      /\ \A q \in DOMAIN fs \ {src} : fs'[q] = IF q = to THEN fs[src] ELSE fs[q]
  <2> HIDE DEF src, to
  <2> QED
    BY <1>0, <1>4, MovedIs
<1> QED
  BY <1>1, <1>3, <1>5 DEF Departs

\* What a step of a worker takes from inbox and running, and puts there.
LEMMA WorkerMoves ==
    ASSUME Shape, NEW x \in Worker, Acts(x)
    PROVE  /\ \A p \in DOMAIN fs : p[1] \in {"inbox", "running"} =>
                \/ p \in DOMAIN fs' /\ fs'[p] = fs[p]
                \/ ClaimUnlink(x) /\ p = <<"inbox", w[x].src[2]>>
                \/ Departs(x) /\ p = w[x].src
           /\ \A p \in DOMAIN fs' : p[1] \in {"inbox", "running"} =>
                \/ p \in DOMAIN fs /\ fs'[p] = fs[p]
                \/ p[1] = "running" /\ w'[x].pc = "linked"
           /\ UNCHANGED <<files, asked>>
<1>0. Entries /\ w[x] \in Local
  BY DEF Shape, Locals
<1>1. UNCHANGED <<files, asked>>
  BY DEF Acts, Start, Stop, Crash, Loop, Recovering, Parking, Claiming, Working, Scanning,
     RecoverOne, RecoverDone, ParkLink, ParkUnlink, ParkUnclaim, Look, ClaimLink, ClaimUnlink,
     ClaimWrite, Dispatch, Heartbeat, Ends, DispatchEnds, NothingToClaim, ScanRunning, ScanInbox,
     ParkDeadlocked, DeadlocksParked, disk
<1>2. UNCHANGED fs \/ ParkLink(x) \/ ParkUnlink(x) \/ ClaimLink(x) \/ ClaimUnlink(x)
  BY DEF Acts, Start, Stop, Crash, Loop, Recovering, Parking, Claiming, Working, Scanning,
     RecoverOne, RecoverDone, ParkUnclaim, Look,
     ClaimWrite, Dispatch, Heartbeat, Ends, DispatchEnds, NothingToClaim, ScanRunning, ScanInbox,
     ParkDeadlocked, DeadlocksParked, disk
<1>3. CASE UNCHANGED fs
  BY <1>1, <1>3
<1>4. CASE ParkLink(x) /\ fs' # fs
  <2>1. PICK k \in FreeSuffixes(w[x].src[2], w[x].dir) :
           fs' = Links(w[x].src, <<w[x].dir, Candidate(w[x].src[2], k)>>)
    BY <1>4 DEF ParkLink, ParkFails
  <2> DEFINE to == <<w[x].dir, Candidate(w[x].src[2], k)>>
  <2>2. w[x].src \in DOMAIN fs /\ w[x].pc = "link" /\ w[x].dir \in Parked
    BY <1>4 DEF ParkLink, ParkFails, At, Shape, Locals, Fits, Local
  <2>3. to[1] \notin {"inbox", "running"}
    BY <2>2 DEF Parked
  <2>4. fs' = Links(w[x].src, to)
    BY <2>1
  <2> HIDE DEF to
  <2> DEFINE from == w[x].src
  <2>5. from \in DOMAIN fs /\ fs' = Links(from, to)
    BY <2>2, <2>4
  <2> HIDE DEF from
  <2>6. DOMAIN fs' = DOMAIN fs \cup {to} /\ \A q \in DOMAIN fs : q # to => fs'[q] = fs[q]
    BY <2>5, LinksIs
  <2> QED
    BY <1>1, <2>3, <2>6
<1>5. CASE ParkUnlink(x) /\ fs' # fs
  <2>1. w[x].target[1] \notin {"inbox", "running"}
    BY <1>0, <1>5, ParkUnlinkIs DEF Shape, Locals, Fits, Local, Parked
  <2> QED
    BY <1>1, <1>5, <2>1, ParkUnlinkIs
<1>6. CASE ClaimLink(x) /\ fs' # fs
  <2>1. PICK n \in w[x].todo : /\ n \in In("inbox") /\ n \notin In("running")
                               /\ fs' = Links(<<"inbox", n>>, <<"running", n>>)
                               /\ Becomes(x, [w[x] EXCEPT !.pc = "linked", !.src = <<"running", n>>,
                                                          !.todo = {}])
    BY <1>6 DEF ClaimLink, Linkable
  <2>2. <<"inbox", n>> \in DOMAIN fs /\ <<"running", n>> \notin DOMAIN fs
    BY <1>0, <2>1, InIsName
  <2>3. w'[x].pc = "linked"
    <3>1. w'[x] = [w[x] EXCEPT !.pc = "linked", !.src = <<"running", n>>, !.todo = {}]
      BY <2>1 DEF Becomes, Shape, Locals
    <3> QED
      BY <1>0, <3>1 DEF Local
  <2> DEFINE from == <<"inbox", n>>
             to == <<"running", n>>
  <2>4. fs' = Links(from, to) /\ from \in DOMAIN fs /\ to \notin DOMAIN fs /\ to[1] = "running"
    BY <2>1, <2>2
  <2> HIDE DEF from, to
  <2>5. DOMAIN fs' = DOMAIN fs \cup {to} /\ \A q \in DOMAIN fs : q # to => fs'[q] = fs[q]
    BY <2>4, LinksIs
  <2> QED
    BY <1>1, <2>3, <2>4, <2>5
<1>7. CASE ClaimUnlink(x)
  <2> DEFINE p == <<"inbox", w[x].src[2]>>
  <2>1. fs' = Without(fs, p)
    BY <1>7 DEF ClaimUnlink
  <2> HIDE DEF p
  <2>2. DOMAIN fs' = DOMAIN fs \ {p} /\ \A q \in DOMAIN fs \ {p} : fs'[q] = fs[q]
    BY <2>1, WithoutIs
  <2> QED
    BY <1>1, <1>7, <2>2 DEF p
<1> QED
  BY <1>2, <1>3, <1>4, <1>5, <1>6, <1>7

LEMMA ClaimLinkIs ==
    ASSUME Shape, NEW x \in Worker, ClaimLink(x), w'[x].pc = "linked"
    PROVE  \E n \in Name :
              /\ w'[x].src = <<"running", n>>
              /\ <<"inbox", n>> \in DOMAIN fs /\ <<"running", n>> \notin DOMAIN fs
              /\ DOMAIN fs' = DOMAIN fs \cup {<<"running", n>>}
              /\ fs'[<<"running", n>>] = fs[<<"inbox", n>>]
              /\ \A q \in DOMAIN fs : fs'[q] = fs[q]
<1>0. Entries /\ w[x] \in Local /\ w \in [Worker -> Local]
  BY DEF Shape, Locals
<1>1. PICK n \in w[x].todo :
         \/ /\ Linkable(n) /\ fs' = Links(<<"inbox", n>>, <<"running", n>>)
            /\ Becomes(x, [w[x] EXCEPT !.pc = "linked", !.src = <<"running", n>>, !.todo = {}])
         \/ Becomes(x, [w[x] EXCEPT !.todo = @ \ {n}])
  BY DEF ClaimLink
<1>2. ~Becomes(x, [w[x] EXCEPT !.todo = @ \ {n}])
  <2>1. Becomes(x, [w[x] EXCEPT !.todo = @ \ {n}]) => w'[x] = [w[x] EXCEPT !.todo = @ \ {n}]
    BY <1>0 DEF Becomes
  <2>2. [w[x] EXCEPT !.todo = @ \ {n}].pc = w[x].pc
    BY <1>0 DEF Local
  <2> QED
    BY <2>1, <2>2 DEF ClaimLink, At
<1>3. w'[x].src = <<"running", n>>
  <2>1. w'[x] = [w[x] EXCEPT !.pc = "linked", !.src = <<"running", n>>, !.todo = {}]
    BY <1>0, <1>1, <1>2 DEF Becomes
  <2> QED
    BY <1>0, <2>1 DEF Local
<1>4. n \in In("inbox") /\ n \notin In("running")
  BY <1>1, <1>2 DEF Linkable
<1>5. n \in Name /\ <<"inbox", n>> \in DOMAIN fs /\ <<"running", n>> \notin DOMAIN fs
  BY <1>0, <1>4, InIsName
<1> DEFINE from == <<"inbox", n>>
           to == <<"running", n>>
<1>6. from \in DOMAIN fs /\ to \notin DOMAIN fs /\ fs' = Links(from, to)
  BY <1>1, <1>2, <1>5
<1>7. /\ DOMAIN fs' = DOMAIN fs \cup {to} /\ fs'[to] = fs[from]
      /\ \A q \in DOMAIN fs : fs'[q] = fs[q]
  <2> HIDE DEF from, to
  <2> QED
    BY <1>6, LinksIs
<1> QED
  BY <1>3, <1>5, <1>7

-----------------------------------------------------------------------------
(* Ownership: os.link into running is the claim, and it succeeds once.     *)

\* What a worker in the middle of an entry may rely on.
Owns(l) ==
    /\ l.pc \in Held => l.src \in DOMAIN fs
    /\ l.pc \in Held \ {"link", "unlink"} => l.src[1] = "running"
    /\ l.pc \in {"link", "unlink"} => l.src[1] = "running" \/ (l.src[1] = "inbox" /\ Alone)
    /\ l.pc = "linked" => <<"inbox", l.src[2]>> \in DOMAIN fs

\* Only a worker without others recovers, scans, and parks what it did not dispatch.
Works(l) ==
    /\ l.pc = "recover" /\ l.todo # {} => Alone
    /\ l.pc \in {"scan", "scan_inbox", "deadlocked"} => Alone
    /\ l.pc \in {"link", "unlink", "unclaim"} /\ l.after # "loop" => Alone

\* Parking what the scan found.
GivesUp(l) == l.pc = "deadlocked" \/ (l.pc \in {"link", "unlink", "unclaim"} /\ l.after = "deadlocked")

\* The deadlocked entries that are still to be parked are in inbox.
Listed(l) ==
    GivesUp(l) => /\ \A n \in l.todo : <<"inbox", n>> \in DOMAIN fs
                  /\ l.pc \in {"link", "unlink"} => l.src[2] \notin l.todo

Apart == \A x, y \in Worker : Holds(x) /\ Holds(y) /\ w[x].src = w[y].src => x = y

Owned == Apart /\ \A x \in Worker : Owns(w[x]) /\ Works(w[x]) /\ Listed(w[x])

LEMMA OwnedComes ==
    ASSUME Owned, NEW p, NEW i, NEW gone, Comes(p, i, gone), UNCHANGED w
    PROVE  Owned'
<1> SUFFICES ASSUME NEW x \in Worker PROVE (Owns(w[x]) /\ Works(w[x]) /\ Listed(w[x]))'
  BY DEF Owned, Apart, Holds
<1> DEFINE l == w[x]
<1>1. w'[x] = l /\ Owns(l) /\ Works(l) /\ Listed(l)
  BY DEF Owned
<1>2. \A q \in DOMAIN fs : q[1] \in {"inbox", "running"} => q \in DOMAIN fs'
  BY DEF Comes
<1> HIDE DEF l
<1>3. l.pc \in Held => l.src \in DOMAIN fs'
  BY <1>1, <1>2 DEF Owns
<1>4. \A n : <<"inbox", n>>[1] = "inbox"
  OBVIOUS
<1>5. l.pc = "linked" => <<"inbox", l.src[2]>> \in DOMAIN fs'
  BY <1>1, <1>2, <1>4 DEF Owns
<1>6. GivesUp(l) => \A n \in l.todo : <<"inbox", n>> \in DOMAIN fs'
  BY <1>1, <1>2, <1>4 DEF Listed
<1> QED
  BY <1>1, <1>3, <1>5, <1>6 DEF Owns, Works, Listed, GivesUp, Held

\* Scanning is of no use when nothing waits for anything.
LEMMA NothingWaits ==
    ASSUME Separate, Shape
    PROVE  Waiting = {}
<1>1. \A n \in In("inbox") : files[fs[<<"inbox", n>>]] \in Task
  <2>1. ASSUME NEW n \in In("inbox") PROVE files[fs[<<"inbox", n>>]] \in Task
    <3>1. <<"inbox", n>> \in DOMAIN fs
      BY <2>1, InIsName DEF Shape
    <3>2. fs[<<"inbox", n>>] \in 1 .. Len(files) /\ files \in Seq(Task)
      BY <3>1 DEF Shape, Entries, Files, Inode
    <3> QED
      BY <3>2, ElementOfSeq
  <2> QED
    BY <2>1
<1> QED
  BY <1>1 DEF Separate, Waiting, missing_deps, Needs

\* An entry is a directory and a name.
LEMMA SrcIsEntry ==
    ASSUME NEW l \in Local, l.src # <<>>
    PROVE  l.src = <<l.src[1], l.src[2]>> /\ l.src[1] \in Place /\ l.src[2] \in Name
<1>1. l.src \in Place \X Name
  BY DEF Local
<1> QED
  BY <1>1

\* A worker's step leaves the others what they own.
LEMMA OthersKeep ==
    ASSUME Shape, Owned, NEW x \in Worker, Acts(x), NEW y \in Worker, y # x
    PROVE  /\ (Owns(w[y]) /\ Works(w[y]) /\ Listed(w[y]))'
           /\ Holds(y) => w[y].src \in DOMAIN fs' /\ fs'[w[y].src] = fs[w[y].src]
           /\ w[y].pc = "linked" =>
                 fs'[<<"inbox", w[y].src[2]>>] = fs[<<"inbox", w[y].src[2]>>]
<1> DEFINE l == w[y]
<1>0. w'[y] = l /\ Owns(l) /\ Works(l) /\ Listed(l) /\ w[y] \in Local /\ Fits(l)
      /\ Owns(w[x]) /\ Fits(w[x]) /\ w[x] \in Local /\ ~Alone
  BY WorkerReaches DEF Owned, Shape, Locals, Alone
<1>1. ClaimUnlink(x) => w[x].pc = "linked"
  BY DEF ClaimUnlink, At
<1>2. Departs(x) => w[x].pc = "unlink"
  BY DEF Departs, ParkUnlink, At
<1>3. Apart
  BY DEF Owned
<1>4. \A n, m : <<"inbox", n>>[1] = "inbox" /\ <<"inbox", n>>[2] = n
  OBVIOUS
<1>5. l.pc \in Held => l.src \in DOMAIN fs' /\ fs'[l.src] = fs[l.src]
  <2> SUFFICES ASSUME l.pc \in Held PROVE l.src \in DOMAIN fs' /\ fs'[l.src] = fs[l.src]
    OBVIOUS
  <2>1. l.src \in DOMAIN fs /\ l.src[1] = "running"
    BY <1>0 DEF Owns
  <2>2. ~(Departs(x) /\ l.src = w[x].src)
    BY <1>2, <1>3 DEF Apart, Holds, Held
  <2> QED
    BY <1>4, <2>1, <2>2, WorkerMoves
<1>6. l.pc = "linked" => /\ <<"inbox", l.src[2]>> \in DOMAIN fs'
                         /\ fs'[<<"inbox", l.src[2]>>] = fs[<<"inbox", l.src[2]>>]
  <2> SUFFICES ASSUME l.pc = "linked"
               PROVE  /\ <<"inbox", l.src[2]>> \in DOMAIN fs'
                      /\ fs'[<<"inbox", l.src[2]>>] = fs[<<"inbox", l.src[2]>>]
    OBVIOUS
  <2>1. <<"inbox", l.src[2]>> \in DOMAIN fs /\ l.src[1] = "running" /\ l.src # <<>>
    BY <1>0 DEF Owns, Held, Fits
  <2>2. ~(Departs(x) /\ <<"inbox", l.src[2]>> = w[x].src)
    BY <1>0, <1>2, <1>4 DEF Owns
  <2>3. ClaimUnlink(x) => l.src[2] # w[x].src[2]
    <3> SUFFICES ASSUME w[x].pc = "linked", l.src[2] = w[x].src[2] PROVE FALSE
      BY <1>1
    <3>1. w[x].src[1] = "running" /\ w[x].src # <<>>
      BY <1>0 DEF Owns, Held, Fits
    <3>2. l.src = <<l.src[1], l.src[2]>> /\ w[x].src = <<w[x].src[1], w[x].src[2]>>
      BY <1>0, <2>1, <3>1, SrcIsEntry
    <3> QED
      BY <1>3, <2>1, <3>1, <3>2 DEF Apart, Holds, Held
  <2> QED
    BY <1>4, <2>1, <2>2, <2>3, WorkerMoves
<1>7. ~GivesUp(l)
  BY <1>0 DEF Works, GivesUp
<1>8. /\ Holds(y) => w[y].src \in DOMAIN fs' /\ fs'[w[y].src] = fs[w[y].src]
      /\ w[y].pc = "linked" =>
            fs'[<<"inbox", w[y].src[2]>>] = fs[<<"inbox", w[y].src[2]>>]
  BY <1>5, <1>6 DEF Holds
<1> HIDE DEF l
<1> QED
  BY <1>0, <1>5, <1>6, <1>7, <1>8 DEF Owns, Works, Listed, GivesUp, Held

\* And it has what it needs where it gets to.
LEMMA WorkerKeeps ==
    ASSUME Alone \/ Separate, Shape, Shape', Owned, NEW x \in Worker, Acts(x)
    PROVE  (Owns(w[x]) /\ Works(w[x]) /\ Listed(w[x]))'
<1> DEFINE a == w[x]
           b == w'[x]
<1>0. /\ Owns(a) /\ Works(a) /\ Listed(a) /\ a \in Local /\ Fits(a)
      /\ b \in Local /\ Fits(b) /\ (b = a \/ Reached(x, a, b)) /\ Entries
  BY WorkerReaches DEF Owned, Shape, Locals, Fits
<1>1. /\ ClaimUnlink(x) => a.pc = "linked" /\ b.pc = "unlinked"
      /\ Departs(x) => a.pc = "unlink" /\ b.pc = "unclaim"
  <2>1. ClaimUnlink(x) => w[x].pc = "linked" /\ w'[x] = [w[x] EXCEPT !.pc = "unlinked"]
    BY DEF ClaimUnlink, At, Goto, Becomes, Shape, Locals
  <2>2. [w[x] EXCEPT !.pc = "unlinked"].pc = "unlinked"
    BY <1>0 DEF Local
  <2> QED
    BY <2>1, <2>2 DEF Departs, ParkUnlink, At
<1>2. \A n : <<"inbox", n>>[1] = "inbox" /\ <<"running", n>>[1] = "running"
             /\ <<"inbox", n>>[2] = n /\ <<"running", n>>[2] = n
  OBVIOUS
<1>3. \A p \in DOMAIN fs : p[1] \in {"inbox", "running"} =>
         \/ p \in DOMAIN fs' /\ fs'[p] = fs[p]
         \/ ClaimUnlink(x) /\ p = <<"inbox", a.src[2]>>
         \/ Departs(x) /\ p = a.src
  BY WorkerMoves
<1>4. a.pc \in Held /\ ~Departs(x) => a.src \in DOMAIN fs' /\ a.src[1] \in {"inbox", "running"}
  <2>1. a.pc \in Held => a.src \in DOMAIN fs /\ a.src[1] \in {"inbox", "running"}
    BY <1>0 DEF Owns, Held
  <2>2. ClaimUnlink(x) => a.src[1] = "running"
    BY <1>0, <1>1 DEF Owns, Held
  <2> QED
    BY <1>2, <1>3, <2>1, <2>2
<1>5. b.pc = "linked" => a = b \/ \E n \in Name :
              /\ b.src = <<"running", n>>
              /\ <<"inbox", n>> \in DOMAIN fs
              /\ DOMAIN fs' = DOMAIN fs \cup {<<"running", n>>}
              /\ fs'[<<"running", n>>] = fs[<<"inbox", n>>]
              /\ \A q \in DOMAIN fs : fs'[q] = fs[q]
  BY <1>0, ClaimLinkIs DEF Reached
<1>6. /\ b.pc = "unlinked" => b = a \/ a.pc = "linked"
      /\ b.pc = "claimed" => b = a \/ a.pc = "unlinked"
      /\ b.pc = "working" => b = a \/ a.pc = "claimed"
      /\ b.pc = "unlink" => b = a \/ a.pc = "link"
  BY <1>0 DEF Reached, ClaimUnlink, ClaimWrite, Dispatch, ParkLink, At
<1>7. \A n \in In("running") : <<"running", n>> \in DOMAIN fs
  BY <1>0, InIsName
<1>8. \A n \in In("inbox") : <<"inbox", n>> \in DOMAIN fs
  BY <1>0, InIsName
<1>9. Separate => Waiting = {}
  BY NothingWaits
<1>10. w'[x] = b
  OBVIOUS
<1> HIDE DEF a, b
<1>11. b.pc \in Held => b.src \in DOMAIN fs'
  <2>1. CASE b = a \/ b.pc \in {"unlinked", "claimed", "working", "unlink"}
    <3>1. b.pc \in Held => a.pc \in Held /\ b.src = a.src /\ ~Departs(x)
      BY <1>0, <1>1, <1>6, <2>1 DEF Reached, Held
    <3> QED
      BY <1>4, <3>1
  <2>2. CASE b # a /\ b.pc = "linked"
    BY <1>5, <2>2
  <2>3. CASE b # a /\ b.pc = "link"
    <3>1. ~Departs(x) /\ ~ClaimUnlink(x)
      BY <1>1, <2>3
    <3>2. CASE a.pc = "working" /\ b.src = a.src
      BY <1>4, <3>1, <3>2 DEF Held
    <3>3. CASE \E n \in a.todo : n \in In("running") /\ b.src = <<"running", n>>
      BY <1>2, <1>3, <1>7, <3>1, <3>3
    <3>4. CASE a.pc = "deadlocked" /\ \E n \in a.todo : b.src = <<"inbox", n>>
      <4>1. PICK n \in a.todo : b.src = <<"inbox", n>>
        BY <3>4
      <4>2. <<"inbox", n>> \in DOMAIN fs
        BY <1>0, <3>4, <4>1 DEF Listed, GivesUp
      <4> QED
        BY <1>2, <1>3, <3>1, <4>1, <4>2
    <3> QED
      BY <1>0, <2>3, <3>2, <3>3, <3>4 DEF Reached
  <2> QED
    BY <2>1, <2>2, <2>3 DEF Held
<1>12. b.pc \in Held \ {"link", "unlink"} => b.src[1] = "running"
  <2>1. CASE b = a
    BY <1>0, <2>1 DEF Owns
  <2>2. CASE b # a /\ b.pc = "linked"
    BY <1>2, <1>5, <2>2
  <2>3. CASE b # a /\ b.pc \in {"unlinked", "claimed", "working"}
    BY <1>0, <1>6, <2>3 DEF Owns, Reached, Held
  <2> QED
    BY <2>1, <2>2, <2>3 DEF Held
<1>13. Works(b)
  <2>1. CASE b = a
    BY <1>0, <2>1
  <2>2. CASE Reached(x, a, b) /\ b.pc = "recover"
    BY <1>0, <2>2 DEF Reached, Works, Separate
  <2>3. CASE Reached(x, a, b) /\ b.pc \in {"scan", "scan_inbox", "deadlocked"}
    BY <1>0, <1>9, <2>3 DEF Reached, Works
  <2>4. CASE Reached(x, a, b) /\ b.pc \in {"link", "unlink", "unclaim"}
    BY <1>0, <1>6, <2>4 DEF Reached, Works
  <2> QED
    BY <1>0, <2>1, <2>2, <2>3, <2>4 DEF Works
<1>14. b.pc \in {"link", "unlink"} => b.src[1] = "running" \/ (b.src[1] = "inbox" /\ Alone)
  <2>1. CASE b = a \/ b.pc = "unlink"
    BY <1>0, <1>6, <2>1 DEF Owns, Reached
  <2>2. CASE Reached(x, a, b) /\ b.pc = "link"
    BY <1>0, <1>2, <2>2 DEF Owns, Reached, Works, Held
  <2> QED
    BY <1>0, <2>1, <2>2
<1>15. b.pc = "linked" => <<"inbox", b.src[2]>> \in DOMAIN fs'
  <2>1. CASE b = a
    <3>1. ~ClaimUnlink(x) /\ ~Departs(x)
      BY <1>1, <2>1
    <3> QED
      BY <1>0, <1>2, <1>3, <2>1, <3>1 DEF Owns, Held
  <2>2. CASE b # a /\ b.pc = "linked"
    BY <1>2, <1>5, <2>2
  <2> QED
    BY <2>1, <2>2
<1>16. GivesUp(b) => /\ \A n \in b.todo : <<"inbox", n>> \in DOMAIN fs'
                     /\ b.pc \in {"link", "unlink"} => b.src[2] \notin b.todo
  <2> SUFFICES ASSUME GivesUp(b)
               PROVE  /\ \A n \in b.todo : <<"inbox", n>> \in DOMAIN fs'
                      /\ b.pc \in {"link", "unlink"} => b.src[2] \notin b.todo
    OBVIOUS
  <2>1. ~ClaimUnlink(x)
    BY <1>1 DEF GivesUp
  <2>2. /\ \A n \in b.todo : <<"inbox", n>> \in DOMAIN fs
        /\ b.pc \in {"link", "unlink"} => b.src[2] \notin b.todo
    <3>1. CASE b = a
      BY <1>0, <3>1 DEF Listed
    <3>2. CASE Reached(x, a, b) /\ b.pc = "deadlocked"
      BY <1>0, <1>8, <3>2 DEF Reached, Listed, GivesUp
    <3>3. CASE Reached(x, a, b) /\ b.pc = "link"
      BY <1>0, <1>2, <3>3 DEF Reached, Listed, GivesUp
    <3>4. CASE Reached(x, a, b) /\ b.pc \in {"unlink", "unclaim"}
      BY <1>0, <1>6, <3>4 DEF Reached, Listed, GivesUp
    <3> QED
      BY <1>0, <3>1, <3>2, <3>3, <3>4 DEF GivesUp
  <2>3. Departs(x) => a.pc = "unlink" /\ b.todo = a.todo /\ a.src[2] \notin a.todo
    BY <1>0, <1>1 DEF Reached, Listed, GivesUp
  <2> QED
    BY <1>2, <1>3, <2>1, <2>2, <2>3
<1> QED
  BY <1>10, <1>11, <1>12, <1>13, <1>14, <1>15, <1>16 DEF Owns, Works, Listed, GivesUp, Held

LEMMA OwnedStep ==
    ASSUME Alone \/ Separate
    PROVE  Shape /\ Owned /\ [Next]_vars => Owned'
<1> SUFFICES ASSUME Shape, Owned, [Next]_vars PROVE Owned'
  OBVIOUS
<1>0. Shape'
  BY ShapeStep
<1>1. ASSUME NEW p \in puts, Put(p) PROVE Owned'
  <2>1. PICK i \in Inode, gone \in SUBSET DOMAIN fs : Lands(p, i, gone)
    BY <1>1, PutIs DEF Shape
  <2> QED
    BY <2>1, OwnedComes DEF Lands
<1>2. CASE \/ \E t \in Task : Add(t)
           \/ \E d \in {"needs_human", "blocked"} : \E n \in In(d) : Revive(d, n)
           \/ \E p \in puts : GiveUp(p)
           \/ Time \/ UNCHANGED vars
  <2>1. UNCHANGED <<fs, w>>
    BY <1>2 DEF Add, Revive, GiveUp, disk, Time, GrowOld, vars
  <2> QED
    BY <2>1 DEF Owned, Owns, Works, Listed, GivesUp, Apart, Holds
<1>4. ASSUME NEW x \in Worker, Acts(x) PROVE Owned'
  <2>1. \A y \in Worker : (Owns(w[y]) /\ Works(w[y]) /\ Listed(w[y]))'
    BY <1>0, <1>4, OthersKeep, WorkerKeeps
  <2>2. /\ \A y \in Worker \ {x} : w'[y] = w[y]
        /\ w'[x] = w[x] \/ Reached(x, w[x], w'[x])
    BY <1>4, WorkerReaches
  <2>3. ASSUME NEW y \in Worker, y # x, Holds(y), Holds(x)', w'[x].src = w[y].src PROVE FALSE
    <3>1. w[y].src \in DOMAIN fs /\ Works(w[x]) /\ ~Alone
      BY <2>3 DEF Owned, Owns, Holds, Alone
    <3>2. ~(Holds(x) /\ w'[x].src = w[x].src)
      BY <2>3 DEF Owned, Apart
    <3>3. CASE w'[x].pc = "linked"
      <4>1. ClaimLink(x)
        BY <2>2, <3>2, <3>3 DEF Reached, Holds, Held
      <4> QED
        BY <2>3, <3>1, <3>3, <4>1, ClaimLinkIs
    <3>4. CASE w'[x].pc \in Held \ {"linked"}
      BY <2>2, <3>1, <3>2, <3>4 DEF Reached, Holds, Held, Works, ClaimUnlink, ClaimWrite, Dispatch,
         ParkLink, At
    <3> QED
      BY <2>3, <3>3, <3>4 DEF Holds
  <2>4. ASSUME NEW y \in Worker, NEW z \in Worker, Holds(y)', Holds(z)', w'[y].src = w'[z].src
        PROVE  y = z
    <3>1. CASE y # x /\ z # x
      BY <2>2, <2>4, <3>1 DEF Owned, Apart, Holds
    <3>2. CASE y = x /\ z # x
      BY <2>2, <2>3, <2>4, <3>2 DEF Holds
    <3>3. CASE y # x /\ z = x
      BY <2>2, <2>3, <2>4, <3>3 DEF Holds
    <3> QED
      BY <3>1, <3>2, <3>3
  <2> QED
    BY <2>1, <2>4 DEF Owned, Apart
<1> QED
  BY <1>1, <1>2, <1>4 DEF Next, People, Acts

LEMMA OwnedInit == Init => Owned
<1> SUFFICES ASSUME Init PROVE Owned
  OBVIOUS
<1>1. \A x \in Worker : w[x] = Off
  BY DEF Init
<1>2. Off.pc = "off"
  BY DEF Off
<1> QED
  BY <1>1, <1>2 DEF Owned, Owns, Works, Listed, GivesUp, Apart, Holds, Held

LEMMA AlwaysOwned ==
    ASSUME Alone \/ Separate
    PROVE  Spec => [](Shape /\ Owned)
<1>1. Init => Shape /\ Owned
  BY ShapeInit, OwnedInit
<1>2. Shape /\ Owned /\ [Next]_vars => (Shape /\ Owned)'
  BY ShapeStep, OwnedStep
<1> QED
  BY <1>1, <1>2, PTL DEF Spec

-----------------------------------------------------------------------------
(* Requests and dispatches: what was asked for and not begun is in inbox   *)
(* or in the hands of a worker that will dispatch it, be it that another   *)
(* file has taken its name in inbox since it was linked.                   *)

InboxOf(i) == {p \in DOMAIN fs : p[1] = "inbox" /\ fs[p] = i}
Taken(x)   == \/ w[x].pc \in {"unlinked", "claimed"}
              \/ w[x].pc = "linked" /\ fs[<<"inbox", w[x].src[2]>>] # fs[w[x].src]
HandOf(i)  == {x \in Worker : Taken(x) /\ fs[w[x].src] = i}

Covers(i) ==
    /\ IsFiniteSet(InboxOf(i)) /\ IsFiniteSet(HandOf(i))
    /\ begun[i] + Cardinality(InboxOf(i)) + Cardinality(HandOf(i)) <= asked[i]

Granted == \A i \in Inode : Covers(i)

LEMMA CountsAreNat ==
    ASSUME Shape, NEW i \in Inode
    PROVE  asked[i] \in Nat /\ begun[i] \in Nat
BY ElementOfSeq DEF Shape, Files, Inode

\* Fewer entries to dispatch, and no more dispatches than before.
LEMMA FewerCovered ==
    ASSUME NEW i, Covers(i), begun[i] \in Nat, asked[i] \in Nat,
           InboxOf(i)' \subseteq InboxOf(i), HandOf(i)' \subseteq HandOf(i),
           begun'[i] = begun[i], asked'[i] = asked[i]
    PROVE  Covers(i)'
<1>1. /\ IsFiniteSet(InboxOf(i)') /\ Cardinality(InboxOf(i)') <= Cardinality(InboxOf(i))
      /\ IsFiniteSet(HandOf(i)') /\ Cardinality(HandOf(i)') <= Cardinality(HandOf(i))
      /\ Cardinality(InboxOf(i)) \in Nat /\ Cardinality(HandOf(i)) \in Nat
      /\ Cardinality(InboxOf(i)') \in Nat /\ Cardinality(HandOf(i)') \in Nat
  BY FS_Subset, FS_CardinalityType DEF Covers
<1> QED
  BY <1>1 DEF Covers

LEMMA OneMore ==
    ASSUME NEW S, IsFiniteSet(S), NEW e
    PROVE  /\ IsFiniteSet(S \cup {e}) /\ Cardinality(S) \in Nat
           /\ Cardinality(S \cup {e}) \in Nat
           /\ Cardinality(S \cup {e}) <= Cardinality(S) + 1
<1>1. /\ IsFiniteSet(S \cup {e})
      /\ Cardinality(S \cup {e}) = Cardinality(S) \/ Cardinality(S \cup {e}) = Cardinality(S) + 1
  BY FS_AddElement
<1>2. Cardinality(S) \in Nat
  BY FS_CardinalityType
<1> QED
  BY <1>1, <1>2

\* One more entry in inbox for one more request.
LEMMA OneMoreAsked ==
    ASSUME NEW i, Covers(i), begun[i] \in Nat, asked[i] \in Nat, NEW p,
           InboxOf(i)' \subseteq InboxOf(i) \cup {p}, HandOf(i)' \subseteq HandOf(i),
           begun'[i] = begun[i], asked'[i] = asked[i] + 1
    PROVE  Covers(i)'
<1> DEFINE S == InboxOf(i) \cup {p}
<1>1. IsFiniteSet(S) /\ Cardinality(S) <= Cardinality(InboxOf(i)) + 1
      /\ Cardinality(S) \in Nat /\ Cardinality(InboxOf(i)) \in Nat
  BY OneMore DEF Covers
<1>2. /\ IsFiniteSet(InboxOf(i)') /\ Cardinality(InboxOf(i)') <= Cardinality(S)
      /\ IsFiniteSet(HandOf(i)') /\ Cardinality(HandOf(i)') <= Cardinality(HandOf(i))
      /\ Cardinality(HandOf(i)) \in Nat
      /\ Cardinality(InboxOf(i)') \in Nat /\ Cardinality(HandOf(i)') \in Nat
  BY <1>1, FS_Subset, FS_CardinalityType DEF Covers
<1> HIDE DEF S
<1> QED
  BY <1>1, <1>2 DEF Covers

\* An entry leaves inbox into the hands of a worker.
LEMMA TakenCovered ==
    ASSUME NEW i, Covers(i), begun[i] \in Nat, asked[i] \in Nat, NEW p \in InboxOf(i), NEW x,
           InboxOf(i)' \subseteq InboxOf(i) \ {p}, HandOf(i)' \subseteq HandOf(i) \cup {x},
           begun'[i] = begun[i], asked'[i] = asked[i]
    PROVE  Covers(i)'
<1> DEFINE S == InboxOf(i) \ {p}
           T == HandOf(i) \cup {x}
<1>1. /\ IsFiniteSet(S) /\ Cardinality(S) = Cardinality(InboxOf(i)) - 1 /\ Cardinality(S) \in Nat
      /\ IsFiniteSet(T) /\ Cardinality(T) <= Cardinality(HandOf(i)) + 1 /\ Cardinality(T) \in Nat
      /\ Cardinality(InboxOf(i)) \in Nat /\ Cardinality(HandOf(i)) \in Nat
  <2>1. IsFiniteSet(S) /\ Cardinality(S) = Cardinality(InboxOf(i)) - 1
    BY FS_RemoveElement DEF Covers
  <2>2. /\ IsFiniteSet(T) /\ Cardinality(T) <= Cardinality(HandOf(i)) + 1 /\ Cardinality(T) \in Nat
        /\ Cardinality(HandOf(i)) \in Nat
    BY OneMore DEF Covers
  <2>3. Cardinality(S) \in Nat /\ Cardinality(InboxOf(i)) \in Nat
    BY <2>1, FS_CardinalityType DEF Covers
  <2> QED
    BY <2>1, <2>2, <2>3
<1>2. /\ IsFiniteSet(InboxOf(i)') /\ Cardinality(InboxOf(i)') <= Cardinality(S)
      /\ IsFiniteSet(HandOf(i)') /\ Cardinality(HandOf(i)') <= Cardinality(T)
      /\ Cardinality(InboxOf(i)') \in Nat /\ Cardinality(HandOf(i)') \in Nat
  BY <1>1, FS_Subset, FS_CardinalityType
<1> HIDE DEF S, T
<1> QED
  BY <1>1, <1>2 DEF Covers

\* The worker that has it dispatches it.
LEMMA BegunCovered ==
    ASSUME NEW i, Covers(i), begun[i] \in Nat, asked[i] \in Nat, NEW x \in HandOf(i),
           InboxOf(i)' \subseteq InboxOf(i), HandOf(i)' \subseteq HandOf(i) \ {x},
           begun'[i] = begun[i] + 1, asked'[i] = asked[i]
    PROVE  Covers(i)'
<1> DEFINE T == HandOf(i) \ {x}
<1>1. /\ IsFiniteSet(T) /\ Cardinality(T) = Cardinality(HandOf(i)) - 1 /\ Cardinality(T) \in Nat
      /\ Cardinality(InboxOf(i)) \in Nat /\ Cardinality(HandOf(i)) \in Nat
  BY FS_RemoveElement, FS_CardinalityType DEF Covers
<1>2. /\ IsFiniteSet(InboxOf(i)') /\ Cardinality(InboxOf(i)') <= Cardinality(InboxOf(i))
      /\ IsFiniteSet(HandOf(i)') /\ Cardinality(HandOf(i)') <= Cardinality(T)
      /\ Cardinality(InboxOf(i)') \in Nat /\ Cardinality(HandOf(i)') \in Nat
  BY <1>1, FS_Subset, FS_CardinalityType DEF Covers
<1> HIDE DEF T
<1> QED
  BY <1>1, <1>2 DEF Covers

\* A person's step gives a worker at most the entry whose name it takes.
LEMMA HandsComes ==
    ASSUME Shape, Owned, NEW n, NEW i, NEW gone, Comes(<<"inbox", n>>, i, gone), UNCHANGED w, NEW j
    PROVE  /\ i = j => /\ HandOf(j)' \subseteq HandOf(j)
                       /\ InboxOf(j)' \subseteq InboxOf(j) \cup {<<"inbox", n>>}
           /\ i # j => /\ InboxOf(j)' \subseteq InboxOf(j) \ {<<"inbox", n>>}
                       /\ \/ HandOf(j)' \subseteq HandOf(j)
                          \/ /\ <<"inbox", n>> \in InboxOf(j)
                             /\ \E x : HandOf(j)' \subseteq HandOf(j) \cup {x}
<1> DEFINE to == <<"inbox", n>>
<1>0. to[1] = "inbox" /\ to[2] = n /\ \A m : <<"inbox", m>>[1] = "inbox" /\ (m # n => <<"inbox", m>> # to)
  OBVIOUS
<1>1. /\ \A q \in DOMAIN fs : q[1] \in {"inbox", "running"} /\ q # to => q \in DOMAIN fs' /\ fs'[q] = fs[q]
      /\ fs'[to] = i /\ \A q \in DOMAIN fs' : q # to => q \in DOMAIN fs /\ fs'[q] = fs[q]
  BY DEF Comes
<1>2. ASSUME NEW x \in Worker, w[x].pc \in {"linked", "unlinked", "claimed"}
      PROVE  /\ w'[x] = w[x] /\ fs'[w[x].src] = fs[w[x].src]
             /\ w[x].pc = "linked" => <<"inbox", w[x].src[2]>> \in DOMAIN fs
  <2>1. Owns(w[x]) /\ w[x].pc \in Held
    BY <1>2 DEF Owned, Held
  <2>2. w[x].src \in DOMAIN fs /\ w[x].src[1] = "running"
    BY <1>2, <2>1 DEF Owns
  <2>3. w[x].src # to
    BY <1>0, <2>2
  <2> QED
    BY <1>1, <1>2, <2>1, <2>2, <2>3 DEF Owns
<1>3. ASSUME NEW x \in Worker, x \in HandOf(j)', x \notin HandOf(j)
      PROVE  /\ w[x].pc = "linked" /\ w[x].src[2] = n /\ fs[w[x].src] = j
             /\ to \in DOMAIN fs /\ fs[to] = j /\ i # j
  <2>1. /\ w'[x].pc \in {"linked", "unlinked", "claimed"} /\ fs'[w'[x].src] = j
        /\ w'[x].pc = "linked" => fs'[<<"inbox", w'[x].src[2]>>] # j
    BY <1>3 DEF HandOf, Taken
  <2>2. w[x].pc \in {"linked", "unlinked", "claimed"}
    BY <2>1
  <2>3. /\ w'[x] = w[x] /\ fs[w[x].src] = j
        /\ w[x].pc = "linked" => <<"inbox", w[x].src[2]>> \in DOMAIN fs
    BY <1>2, <2>1, <2>2
  <2>4. w[x].pc = "linked" /\ fs[<<"inbox", w[x].src[2]>>] = j
    BY <1>3, <2>2, <2>3 DEF HandOf, Taken
  <2>5. w[x].src[2] = n
    BY <1>0, <1>1, <2>1, <2>3, <2>4
  <2> QED
    BY <1>1, <2>1, <2>3, <2>4, <2>5
<1>4. \A x, y \in Worker : (/\ x \in HandOf(j)' /\ x \notin HandOf(j)
                            /\ y \in HandOf(j)' /\ y \notin HandOf(j)) => x = y
  <2> SUFFICES ASSUME NEW x \in Worker, NEW y \in Worker,
                      x \in HandOf(j)', x \notin HandOf(j), y \in HandOf(j)', y \notin HandOf(j)
               PROVE  x = y
    OBVIOUS
  <2>1. /\ w[x].pc = "linked" /\ w[x].src[2] = n /\ w[y].pc = "linked" /\ w[y].src[2] = n
    BY <1>3
  <2>2. /\ w[x].src[1] = "running" /\ w[y].src[1] = "running"
        /\ w[x].src # <<>> /\ w[y].src # <<>> /\ w[x] \in Local /\ w[y] \in Local
    BY <2>1 DEF Owned, Owns, Held, Shape, Locals, Fits
  <2>3. w[x].src = w[y].src
    BY <2>1, <2>2, SrcIsEntry
  <2> QED
    BY <2>1, <2>3 DEF Owned, Apart, Holds, Held
<1>5. HandOf(j)' \subseteq Worker
  BY DEF HandOf
<1> HIDE DEF to
<1>6. /\ InboxOf(j)' \subseteq InboxOf(j) \cup {to}
      /\ i # j => InboxOf(j)' \subseteq InboxOf(j) \ {to}
  BY <1>1 DEF InboxOf
<1>7. CASE HandOf(j)' \subseteq HandOf(j)
  BY <1>6, <1>7 DEF to
<1>8. CASE ~(HandOf(j)' \subseteq HandOf(j))
  <2>1. PICK x \in Worker : x \in HandOf(j)' /\ x \notin HandOf(j)
    BY <1>5, <1>8
  <2>2. HandOf(j)' \subseteq HandOf(j) \cup {x}
    BY <1>4, <1>5, <2>1
  <2>3. to \in InboxOf(j) /\ i # j
    BY <1>0, <1>3, <2>1 DEF InboxOf
  <2> QED
    BY <1>6, <2>2, <2>3 DEF to
<1> QED
  BY <1>7, <1>8

LEMMA GrantedWorker ==
    ASSUME Alone \/ Separate, Shape, Owned, Granted, NEW x \in Worker, Acts(x)
    PROVE  Granted'
<1> SUFFICES ASSUME NEW i \in Inode' PROVE Covers(i)'
  BY DEF Granted
<1>1. UNCHANGED <<files, asked>>
  BY WorkerMoves
<1>2. i \in Inode /\ Covers(i) /\ asked'[i] = asked[i] /\ asked[i] \in Nat /\ begun[i] \in Nat
  BY <1>1, CountsAreNat DEF Inode, Granted
<1>3. InboxOf(i)' \subseteq InboxOf(i)
  BY WorkerMoves DEF InboxOf
<1>4. HandOf(i)' \subseteq HandOf(i) \cup {x}
  <2>1. \A y \in Worker \ {x} :
           /\ w'[y] = w[y] /\ (Holds(y) => fs'[w[y].src] = fs[w[y].src])
           /\ w[y].pc = "linked" => fs'[<<"inbox", w[y].src[2]>>] = fs[<<"inbox", w[y].src[2]>>]
    BY WorkerReaches, OthersKeep
  <2> QED
    BY <2>1 DEF HandOf, Taken, Holds, Held
<1>5. /\ w[x] \in Local /\ Fits(w[x]) /\ Owns(w[x])
      /\ w'[x] = w[x] \/ Reached(x, w[x], w'[x])
  BY WorkerReaches DEF Shape, Locals, Owned
<1>6. ClaimUnlink(x) => /\ w[x].pc = "linked" /\ w'[x].pc = "unlinked"
                        /\ fs' = Without(fs, <<"inbox", w[x].src[2]>>)
  <2>1. ClaimUnlink(x) => w[x].pc = "linked" /\ w'[x] = [w[x] EXCEPT !.pc = "unlinked"]
                          /\ fs' = Without(fs, <<"inbox", w[x].src[2]>>)
    BY DEF ClaimUnlink, At, Goto, Becomes, Shape, Locals
  <2>2. [w[x] EXCEPT !.pc = "unlinked"].pc = "unlinked"
    BY <1>5 DEF Local
  <2> QED
    BY <2>1, <2>2
<1>7. begun' # begun => Dispatch(x)
  BY DEF Acts, Start, Stop, Crash, Loop, Recovering, Parking, Claiming, Working, Scanning,
     RecoverOne, RecoverDone, ParkLink, ParkUnlink, ParkUnclaim, Look, ClaimLink, ClaimUnlink,
     ClaimWrite, Heartbeat, Ends, DispatchEnds, NothingToClaim, ScanRunning, ScanInbox,
     ParkDeadlocked, DeadlocksParked, disk
<1>8. CASE ClaimUnlink(x)
  <2> DEFINE p == <<"inbox", w[x].src[2]>>
             s == w[x].src
  <2>1. /\ p \in DOMAIN fs /\ s \in DOMAIN fs /\ s[1] = "running" /\ p[1] = "inbox"
        /\ fs' = Without(fs, p)
    BY <1>5, <1>6, <1>8 DEF Owns, Held
  <2>2. w'[x].src = s
    <3>1. w'[x] = [w[x] EXCEPT !.pc = "unlinked"]
      BY <1>8 DEF ClaimUnlink, Goto, Becomes, Shape, Locals
    <3> QED
      BY <1>5, <3>1 DEF Local
  <2>3. begun' = begun
    BY <1>8 DEF ClaimUnlink
  <2>7. w[x].pc = "linked" /\ (fs[p] # fs[s] => Taken(x))
    BY <1>6, <1>8 DEF Taken
  <2> HIDE DEF p, s
  <2>4. p \notin DOMAIN fs' /\ fs'[s] = fs[s]
    <3>0. fs' = Without(fs, p)
      BY <2>1
    <3>1. DOMAIN fs' = DOMAIN fs \ {p} /\ \A q \in DOMAIN fs \ {p} : fs'[q] = fs[q]
      BY <3>0, WithoutIs
    <3>2. s # p
      BY <2>1
    <3> QED
      BY <2>1, <3>1, <3>2
  <2>5. CASE fs[s] = i /\ fs[p] = i
    <3>1. p \in InboxOf(i) /\ InboxOf(i)' \subseteq InboxOf(i) \ {p}
      BY <1>3, <2>1, <2>4, <2>5 DEF InboxOf
    <3> QED
      BY <1>2, <1>4, <2>3, <3>1, TakenCovered
  <2>6. CASE fs[s] # i
    <3>1. x \notin HandOf(i)'
      BY <2>2, <2>4, <2>6 DEF HandOf
    <3>2. HandOf(i)' \subseteq HandOf(i)
      BY <1>4, <3>1
    <3> QED
      BY <1>2, <1>3, <2>3, <3>2, FewerCovered
  <2>8. CASE fs[s] = i /\ fs[p] # i
    <3>1. x \in HandOf(i)
      BY <2>7, <2>8 DEF HandOf, s
    <3>2. HandOf(i)' \subseteq HandOf(i)
      BY <1>4, <3>1
    <3> QED
      BY <1>2, <1>3, <2>3, <3>2, FewerCovered
  <2> QED
    BY <2>5, <2>6, <2>8
<1>9. CASE Dispatch(x)
  <2> DEFINE s == w[x].src
  <2>1. w[x].pc = "claimed" /\ s \in DOMAIN fs /\ begun' = [begun EXCEPT ![fs[s]] = @ + 1]
        /\ UNCHANGED fs
    BY <1>5, <1>9 DEF Dispatch, At, Owns, Held
  <2>2. w'[x].pc = "working"
    <3>1. w'[x] = [w[x] EXCEPT !.pc = "working"]
      BY <1>9 DEF Dispatch, Goto, Becomes, Shape, Locals
    <3> QED
      BY <1>5, <3>1 DEF Local
  <2>3. HandOf(i)' \subseteq HandOf(i) \ {x}
    BY <1>4, <2>2 DEF HandOf, Taken
  <2>4. begun \in Seq(Nat) /\ fs[s] \in 1 .. Len(begun) /\ i \in 1 .. Len(begun)
    BY <1>2, <2>1 DEF Shape, Files, Entries, Inode
  <2>5. /\ begun'[fs[s]] = begun[fs[s]] + 1
        /\ i # fs[s] => begun'[i] = begun[i]
    <3> HIDE DEF s
    <3> QED
      BY <2>1, <2>4, CountedOnce
  <2>6. CASE fs[s] = i
    <3>1. x \in HandOf(i)
      BY <2>1, <2>6 DEF HandOf, Taken
    <3> QED
      BY <1>2, <1>3, <2>3, <2>5, <2>6, <3>1, BegunCovered
  <2>7. CASE fs[s] # i
    BY <1>2, <1>3, <2>3, <2>5, <2>7, FewerCovered
  <2> QED
    BY <2>6, <2>7
<1>10. CASE ~ClaimUnlink(x) /\ ~Dispatch(x)
  <2>1. begun' = begun
    BY <1>7, <1>10
  <2>2. x \in HandOf(i)' => x \in HandOf(i)
    <3> SUFFICES ASSUME x \in HandOf(i)' PROVE x \in HandOf(i)
      OBVIOUS
    <3>1. Taken(x)' /\ fs'[w'[x].src] = i
      BY DEF HandOf
    <3>2. CASE w'[x].pc \in {"unlinked", "claimed"}
      <4>1. w[x].pc \in {"unlinked", "claimed"} /\ w'[x].src = w[x].src
        BY <1>5, <1>10, <3>2 DEF Reached, ClaimWrite, At
      <4>2. w[x].src \in DOMAIN fs /\ w[x].src[1] = "running" /\ ~Departs(x)
        BY <1>5, <4>1 DEF Owns, Held, Departs, ParkUnlink, At
      <4>3. fs'[w[x].src] = fs[w[x].src]
        BY <1>10, <4>2, WorkerMoves
      <4> QED
        BY <3>1, <4>1, <4>3 DEF HandOf, Taken
    <3>3. CASE w'[x].pc = "linked" /\ w'[x] = w[x]
      <4> DEFINE p == <<"inbox", w[x].src[2]>>
      <4>1. /\ w[x].src \in DOMAIN fs /\ w[x].src[1] = "running" /\ ~Departs(x)
            /\ p \in DOMAIN fs /\ p[1] = "inbox"
        BY <1>5, <3>3 DEF Owns, Held, Departs, ParkUnlink, At
      <4>2. fs'[w[x].src] = fs[w[x].src] /\ fs'[p] = fs[p]
        BY <1>10, <4>1, WorkerMoves
      <4> QED
        BY <3>1, <3>3, <4>2 DEF HandOf, Taken
    <3>4. CASE w'[x].pc = "linked" /\ w'[x] # w[x]
      <4>1. PICK n \in Name : /\ w'[x].src = <<"running", n>>
                              /\ <<"inbox", n>> \in DOMAIN fs
                              /\ fs'[<<"running", n>>] = fs[<<"inbox", n>>]
                              /\ \A q \in DOMAIN fs : fs'[q] = fs[q]
        BY <1>5, <3>4, ClaimLinkIs DEF Reached
      <4>2. w'[x].src[2] = n /\ fs'[<<"inbox", n>>] = fs'[w'[x].src]
        BY <4>1
      <4> QED
        BY <3>1, <3>4, <4>2 DEF Taken
    <3> QED
      BY <3>1, <3>2, <3>3, <3>4 DEF Taken
  <2>3. HandOf(i)' \subseteq HandOf(i)
    BY <1>4, <2>2
  <2> QED
    BY <1>2, <1>3, <2>1, <2>3, FewerCovered
<1> QED
  BY <1>8, <1>9, <1>10

LEMMA GrantedStep ==
    ASSUME Alone \/ Separate
    PROVE  Shape /\ Owned /\ Granted /\ [Next]_vars => Granted'
<1> SUFFICES ASSUME Shape, Owned, Granted, [Next]_vars PROVE Granted'
  OBVIOUS
<1>0. \A i \in Inode : Covers(i) /\ asked[i] \in Nat /\ begun[i] \in Nat
  BY CountsAreNat DEF Granted
<1>1. ASSUME NEW t \in Task, Add(t), NEW i \in Inode' PROVE Covers(i)'
  <2> DEFINE new == Len(files) + 1
  <2>1. /\ UNCHANGED <<fs, w>> /\ Inode' = Inode \cup {new} /\ new \notin Inode
        /\ asked'[new] = 0 /\ begun'[new] = 0
        /\ \A k \in Inode : asked'[k] = asked[k] /\ begun'[k] = begun[k]
    BY <1>1, AddIs DEF Shape
  <2>2. InboxOf(i)' = InboxOf(i) /\ HandOf(i)' = HandOf(i)
    BY <2>1 DEF InboxOf, HandOf, Taken
  <2>3. CASE i \in Inode
    BY <1>0, <2>1, <2>2, <2>3, FewerCovered
  <2>4. CASE i \notin Inode
    <3>1. \A q \in DOMAIN fs : fs[q] # i
      BY <2>4 DEF Shape, Entries
    <3>2. InboxOf(i) = {} /\ HandOf(i) = {}
      <4>1. \A x \in Worker : Taken(x) => w[x].src \in DOMAIN fs
        BY DEF Owned, Owns, Held, Taken
      <4> QED
        BY <3>1, <4>1 DEF InboxOf, HandOf
    <3>3. i = new
      BY <2>1, <2>4
    <3> QED
      BY <2>1, <2>2, <3>2, <3>3, FS_EmptySet DEF Covers
  <2> QED
    BY <2>3, <2>4
<1>2. ASSUME NEW p \in puts, Put(p), NEW j \in Inode' PROVE Covers(j)'
  <2>0. PICK i \in Inode, gone \in SUBSET DOMAIN fs : Lands(p, i, gone)
    BY <1>2, PutIs DEF Shape
  <2>1. /\ Comes(<<"inbox", p.name>>, i, gone)
        /\ asked' = [asked EXCEPT ![i] = @ + 1]
        /\ UNCHANGED <<files, begun, w>>
    BY <2>0 DEF Lands
  <2>2. /\ i = j => /\ HandOf(j)' \subseteq HandOf(j)
                    /\ InboxOf(j)' \subseteq InboxOf(j) \cup {<<"inbox", p.name>>}
        /\ i # j => /\ InboxOf(j)' \subseteq InboxOf(j) \ {<<"inbox", p.name>>}
                    /\ \/ HandOf(j)' \subseteq HandOf(j)
                       \/ /\ <<"inbox", p.name>> \in InboxOf(j)
                          /\ \E x : HandOf(j)' \subseteq HandOf(j) \cup {x}
    BY <2>1, HandsComes
  <2>3. j \in Inode /\ begun'[j] = begun[j]
    BY <2>1 DEF Inode
  <2>4. asked'[j] = IF j = i THEN asked[j] + 1 ELSE asked[j]
    <3>1. i \in 1 .. Len(asked) /\ asked \in Seq(Nat) /\ j \in 1 .. Len(asked)
      BY <2>3 DEF Shape, Files, Inode
    <3> QED
      BY <2>1, <3>1, CountedOnce
  <2>5. CASE i = j
    BY <1>0, <2>2, <2>3, <2>4, <2>5, OneMoreAsked
  <2>6. CASE i # j /\ HandOf(j)' \subseteq HandOf(j)
    BY <1>0, <2>2, <2>3, <2>4, <2>6, FewerCovered
  <2>7. CASE i # j /\ ~(HandOf(j)' \subseteq HandOf(j))
    <3>1. PICK x : HandOf(j)' \subseteq HandOf(j) \cup {x}
      BY <2>2, <2>7
    <3> QED
      BY <1>0, <2>2, <2>3, <2>4, <2>7, <3>1, TakenCovered
  <2> QED
    BY <2>5, <2>6, <2>7
<1>3. CASE \/ \E d \in {"needs_human", "blocked"} : \E n \in In(d) : Revive(d, n)
           \/ \E p \in puts : GiveUp(p)
           \/ Time \/ UNCHANGED vars
  <2>1. UNCHANGED <<fs, w, begun, asked, files>>
    BY <1>3 DEF Revive, GiveUp, disk, Time, GrowOld, vars
  <2> QED
    BY <2>1 DEF Granted, Covers, InboxOf, HandOf, Taken, Inode
<1>4. ASSUME NEW x \in Worker, Acts(x) PROVE Granted'
  BY <1>4, GrantedWorker
<1>5. ASSUME \A i \in Inode' : Covers(i)' PROVE Granted'
  BY <1>5 DEF Granted
<1> QED
  BY <1>1, <1>2, <1>3, <1>4, <1>5 DEF Next, People, Acts

\* A file is dispatched at most once for every time a person asked for it, however often
\* workers are interrupted and whoever else puts a file under its name: recover never puts
\* an entry back to inbox, and the link into running (claim) gives it to one worker.
THEOREM OnceRequested ==
    ASSUME Alone \/ Separate
    PROVE  Spec => []DispatchedOncePerRequest
<1>1. Init => Granted
  BY DEF Init, Granted, Inode
<1>2. Shape /\ Owned /\ Granted => DispatchedOncePerRequest
  <2> SUFFICES ASSUME Shape, Granted, NEW i \in Inode PROVE begun[i] <= asked[i]
    BY DEF DispatchedOncePerRequest
  <2>1. asked[i] \in Nat /\ begun[i] \in Nat
    BY CountsAreNat
  <2>2. Cardinality(InboxOf(i)) \in Nat /\ Cardinality(HandOf(i)) \in Nat
    BY FS_CardinalityType DEF Granted, Covers
  <2> QED
    BY <2>1, <2>2 DEF Granted, Covers
<1>3. Shape /\ Owned /\ Granted /\ [Next]_vars => Granted'
  BY GrantedStep
<1> QED
  BY <1>1, <1>2, <1>3, AlwaysOwned, PTL DEF Spec

-----------------------------------------------------------------------------
(* No file is lost: every name that goes away leaves another one.          *)

\* Where an entry is being parked there is no other file.
Reserved(l) ==
    l.pc = "unlink" => /\ l.target \in DOMAIN fs => fs[l.target] = fs[l.src]
                       /\ Alone \/ l.target \in DOMAIN fs

\* What a worker has just linked still has its name in inbox.
Paired(l) == l.pc = "linked" => fs[<<"inbox", l.src[2]>>] = fs[l.src]

\* Nobody else puts the name there that a person has found free.
OneEach == \A p, q \in puts : p.name = q.name => p = q
Unused  == \A p \in puts : <<"inbox", p.name>> \notin DOMAIN fs

Kept == /\ NothingLost /\ Unused
        /\ \A x \in Worker : Reserved(w[x]) /\ Paired(w[x])

\* What a step of a worker does to the names of the files.
Renames(x) ==
    \/ UNCHANGED fs
    \/ /\ w'[x].pc \in {"unlink", "linked"} /\ w'[x].pc # w[x].pc
       /\ \A q \in DOMAIN fs : q \in DOMAIN fs' /\ fs'[q] = fs[q]
    \/ /\ w[x].pc = "linked" /\ w'[x].pc = "unlinked"
       /\ DOMAIN fs' = DOMAIN fs \ {<<"inbox", w[x].src[2]>>}
       /\ \A q \in DOMAIN fs' : fs'[q] = fs[q]
    \/ /\ w[x].pc = "unlink" /\ w'[x].pc = "unclaim"
       /\ w[x].target \in DOMAIN fs
       /\ DOMAIN fs' = DOMAIN fs \ {w[x].src}
       /\ \A q \in DOMAIN fs' : fs'[q] = IF q = w[x].target THEN fs[w[x].src] ELSE fs[q]

LEMMA WorkerRenames ==
    ASSUME Shape, NEW x \in Worker, Acts(x)
    PROVE  Renames(x)
<1>0. Entries /\ w[x] \in Local /\ w \in [Worker -> Local]
      /\ (w'[x] = w[x] \/ Reached(x, w[x], w'[x]))
  BY WorkerReaches DEF Shape, Locals
<1>1. UNCHANGED fs \/ ParkLink(x) \/ ParkUnlink(x) \/ ClaimLink(x) \/ ClaimUnlink(x)
  BY DEF Acts, Start, Stop, Crash, Loop, Recovering, Parking, Claiming, Working, Scanning,
     RecoverOne, RecoverDone, ParkUnclaim, Look,
     ClaimWrite, Dispatch, Heartbeat, Ends, DispatchEnds, NothingToClaim, ScanRunning, ScanInbox,
     ParkDeadlocked, DeadlocksParked, disk
<1>2. CASE ParkLink(x) /\ fs' # fs
  <2>1. w[x].pc = "link" /\ w[x].src \in DOMAIN fs /\ \E to : Becomes(x, [w[x] EXCEPT !.pc = "unlink", !.target = to])
    BY <1>2 DEF ParkLink, ParkFails, At
  <2>2. w'[x].pc = "unlink"
    <3>1. PICK to : w'[x] = [w[x] EXCEPT !.pc = "unlink", !.target = to]
      BY <1>0, <2>1 DEF Becomes
    <3> QED
      BY <1>0, <3>1 DEF Local
  <2>3. fs' = Links(w[x].src, w'[x].target) /\ w'[x].target \notin DOMAIN fs
    BY <1>0, <2>1, <2>2 DEF Reached
  <2> DEFINE from == w[x].src
             to == w'[x].target
  <2>4. from \in DOMAIN fs /\ fs' = Links(from, to) /\ to \notin DOMAIN fs
    BY <2>1, <2>3
  <2> HIDE DEF from, to
  <2>5. \A q \in DOMAIN fs : q \in DOMAIN fs' /\ fs'[q] = fs[q]
    BY <2>4, LinksIs
  <2> QED
    BY <2>1, <2>2, <2>5 DEF Renames
<1>3. CASE ParkUnlink(x) /\ fs' # fs
  BY <1>3, ParkUnlinkIs DEF Renames, Departs
<1>4. CASE ClaimLink(x) /\ fs' # fs
  <2>1. w[x].pc = "claim"
    BY <1>4 DEF ClaimLink, At
  <2>2. w'[x].pc = "linked"
    <3>1. PICK n : Becomes(x, [w[x] EXCEPT !.pc = "linked", !.src = <<"running", n>>, !.todo = {}])
      BY <1>4 DEF ClaimLink
    <3>2. w'[x] = [w[x] EXCEPT !.pc = "linked", !.src = <<"running", n>>, !.todo = {}]
      BY <1>0, <3>1 DEF Becomes
    <3> QED
      BY <1>0, <3>2 DEF Local
  <2>3. \A q \in DOMAIN fs : q \in DOMAIN fs' /\ fs'[q] = fs[q]
    BY <1>4, <2>2, ClaimLinkIs
  <2> QED
    BY <2>1, <2>2, <2>3 DEF Renames
<1>5. CASE ClaimUnlink(x)
  <2> DEFINE p == <<"inbox", w[x].src[2]>>
  <2>1. fs' = Without(fs, p) /\ w[x].pc = "linked" /\ w'[x] = [w[x] EXCEPT !.pc = "unlinked"]
    BY <1>0, <1>5 DEF ClaimUnlink, At, Goto, Becomes
  <2>2. w'[x].pc = "unlinked"
    BY <1>0, <2>1 DEF Local
  <2>3. fs' = Without(fs, p)
    BY <2>1
  <2> HIDE DEF p
  <2>4. DOMAIN fs' = DOMAIN fs \ {p} /\ \A q \in DOMAIN fs \ {p} : fs'[q] = fs[q]
    BY <2>3, WithoutIs
  <2> QED
    BY <2>1, <2>2, <2>4 DEF Renames, p
<1> QED
  BY <1>1, <1>2, <1>3, <1>4, <1>5 DEF Renames

LEMMA KeptWorker ==
    ASSUME Alone \/ Separate, Shape, Owned, Kept, NEW x \in Worker, Acts(x)
    PROVE  Kept'
<1>0. /\ w[x] \in Local /\ Fits(w[x]) /\ Owns(w[x]) /\ Reserved(w[x]) /\ Paired(w[x])
      /\ w'[x] = w[x] \/ Reached(x, w[x], w'[x])
      /\ \A y \in Worker \ {x} : w'[y] = w[y]
      /\ Renames(x) /\ UNCHANGED files
  BY WorkerReaches, WorkerRenames, WorkerMoves DEF Shape, Locals, Owned, Kept
<1>1. \A l \in Local : l.target # <<>> => l.target[1] \in Parked
  BY DEF Local
<1>2. \A n : <<"inbox", n>>[1] = "inbox"
  OBVIOUS
<1>3. NothingLost'
  <2> SUFFICES ASSUME NEW q \in DOMAIN fs PROVE \E r \in DOMAIN fs' : fs'[r] = fs[q]
    BY <1>0, WorkerMoves DEF NothingLost, Inode, Kept
  <2>1. CASE q \in DOMAIN fs' /\ fs'[q] = fs[q]
    BY <2>1
  <2>2. CASE /\ w[x].pc = "linked"
             /\ DOMAIN fs' = DOMAIN fs \ {<<"inbox", w[x].src[2]>>}
             /\ \A r \in DOMAIN fs' : fs'[r] = fs[r]
    <3>1. /\ w[x].src \in DOMAIN fs /\ w[x].src[1] = "running"
          /\ fs[<<"inbox", w[x].src[2]>>] = fs[w[x].src]
      BY <1>0, <2>2 DEF Owns, Held, Paired
    <3>2. w[x].src \in DOMAIN fs'
      BY <1>2, <2>2, <3>1
    <3> QED
      BY <2>2, <3>1, <3>2
  <2>3. CASE /\ w[x].pc = "unlink" /\ w[x].target \in DOMAIN fs
             /\ DOMAIN fs' = DOMAIN fs \ {w[x].src}
             /\ \A r \in DOMAIN fs' : fs'[r] = IF r = w[x].target THEN fs[w[x].src] ELSE fs[r]
    <3>1. w[x].src[1] \in {"inbox", "running"} /\ w[x].target[1] \in Parked
      BY <1>0, <1>1, <2>3 DEF Owns, Fits
    <3>2. w[x].target # w[x].src
      BY <3>1 DEF Parked
    <3>3. fs[w[x].target] = fs[w[x].src]
      BY <1>0, <2>3 DEF Reserved
    <3> QED
      BY <2>3, <3>2, <3>3
  <2> QED
    BY <1>0, <2>1, <2>2, <2>3 DEF Renames
<1>4. ASSUME NEW y \in Worker, y # x PROVE Reserved(w[y])'
  <2> SUFFICES ASSUME w[y].pc = "unlink"
               PROVE  w[y].target \in DOMAIN fs' /\ fs'[w[y].target] = fs'[w[y].src]
    BY <1>0, <1>4 DEF Reserved
  <2> DEFINE t == w[y].target
  <2>1. t \in DOMAIN fs /\ fs[t] = fs[w[y].src]
    BY <1>4 DEF Kept, Reserved, Alone
  <2>2. t[1] \in Parked
    BY <1>1 DEF Shape, Locals, Fits
  <2>3. fs'[w[y].src] = fs[w[y].src]
    BY <1>4, OthersKeep DEF Holds, Held
  <2> HIDE DEF t
  <2>4. t \in DOMAIN fs' /\ fs'[t] = fs[t]
    <3>1. CASE UNCHANGED fs \/ \A q \in DOMAIN fs : q \in DOMAIN fs' /\ fs'[q] = fs[q]
      BY <2>1, <3>1
    <3>2. CASE /\ DOMAIN fs' = DOMAIN fs \ {<<"inbox", w[x].src[2]>>}
               /\ \A q \in DOMAIN fs' : fs'[q] = fs[q]
      BY <1>2, <2>1, <2>2, <3>2 DEF Parked
    <3>3. CASE /\ w[x].pc = "unlink" /\ w[x].target \in DOMAIN fs
               /\ DOMAIN fs' = DOMAIN fs \ {w[x].src}
               /\ \A q \in DOMAIN fs' : fs'[q] = IF q = w[x].target THEN fs[w[x].src] ELSE fs[q]
      <4>1. w[x].src[1] \in {"inbox", "running"}
        BY <1>0, <3>3 DEF Owns
      <4>2. t # w[x].src
        BY <2>2, <4>1 DEF Parked
      <4>3. fs[w[x].target] = fs[w[x].src]
        BY <1>0, <3>3 DEF Reserved
      <4> QED
        BY <2>1, <3>3, <4>2, <4>3
    <3> QED
      BY <1>0, <3>1, <3>2, <3>3 DEF Renames
  <2> QED
    BY <2>1, <2>3, <2>4 DEF t
<1>5. Reserved(w[x])'
  <2> SUFFICES ASSUME w'[x].pc = "unlink"
               PROVE  /\ w'[x].target \in DOMAIN fs' => fs'[w'[x].target] = fs'[w'[x].src]
                      /\ Alone \/ w'[x].target \in DOMAIN fs'
    BY DEF Reserved
  <2>1. CASE w'[x] = w[x]
    BY <1>0, <2>1 DEF Renames, Reserved
  <2>2. CASE w'[x] # w[x]
    <3> DEFINE src == w[x].src
               to == w'[x].target
    <3>1. src \in DOMAIN fs /\ to \notin DOMAIN fs /\ fs' = Links(src, to) /\ w'[x].src = src
      BY <1>0, <2>2 DEF Reached
    <3> HIDE DEF src, to
    <3>2. to \in DOMAIN fs' /\ fs'[to] = fs[src] /\ fs'[src] = fs[src]
      BY <3>1, LinksIs
    <3> QED
      BY <3>1, <3>2 DEF to
  <2> QED
    BY <2>1, <2>2
<1>6. ASSUME NEW y \in Worker, y # x PROVE Paired(w[y])'
  BY <1>0, <1>6, OthersKeep DEF Kept, Paired, Holds, Held
<1>7. Paired(w[x])'
  <2> SUFFICES ASSUME w'[x].pc = "linked"
               PROVE  fs'[<<"inbox", w'[x].src[2]>>] = fs'[w'[x].src]
    BY DEF Paired
  <2>1. CASE w'[x] = w[x]
    <3>1. /\ w[x].src \in DOMAIN fs /\ w[x].src[1] = "running" /\ <<"inbox", w[x].src[2]>> \in DOMAIN fs
          /\ fs[<<"inbox", w[x].src[2]>>] = fs[w[x].src]
      BY <1>0, <2>1 DEF Owns, Paired, Held
    <3>2. UNCHANGED fs
      BY <1>0, <2>1 DEF Renames
    <3> QED
      BY <2>1, <3>1, <3>2
  <2>2. CASE w'[x] # w[x]
    <3>1. PICK n \in Name : /\ w'[x].src = <<"running", n>> /\ <<"inbox", n>> \in DOMAIN fs
                            /\ fs'[<<"running", n>>] = fs[<<"inbox", n>>]
                            /\ \A q \in DOMAIN fs : fs'[q] = fs[q]
      BY <1>0, <2>2, ClaimLinkIs DEF Reached
    <3>2. w'[x].src[2] = n
      BY <3>1
    <3> QED
      BY <3>1, <3>2
  <2> QED
    BY <2>1, <2>2
<1>8. Unused'
  <2>1. UNCHANGED puts
    BY DEF Acts, Start, Stop, Crash, Loop, Recovering, Parking, Claiming, Working, Scanning,
       RecoverOne, RecoverDone, ParkLink, ParkUnlink, ParkUnclaim, Look, ClaimLink, ClaimUnlink,
       ClaimWrite, Dispatch, Heartbeat, Ends, DispatchEnds, NothingToClaim, ScanRunning, ScanInbox,
       ParkDeadlocked, DeadlocksParked, disk, Quiet
  <2>2. \A p \in DOMAIN fs' : p[1] = "inbox" => p \in DOMAIN fs
    BY WorkerMoves
  <2> QED
    BY <1>2, <2>1, <2>2 DEF Kept, Unused
<1>9. \A y \in Worker : Reserved(w[y])' /\ Paired(w[y])'
  BY <1>4, <1>5, <1>6, <1>7
<1> QED
  BY <1>3, <1>8, <1>9 DEF Kept

LEMMA KeptStep ==
    ASSUME Alone \/ (Separate /\ MaxRevives = 0)
    PROVE  Shape /\ Owned /\ Kept /\ OneEach /\ [Next]_vars => Kept'
<1> SUFFICES ASSUME Shape, Owned, Kept, OneEach, [Next]_vars PROVE Kept'
  OBVIOUS
<1>1. ASSUME NEW t \in Task, Add(t) PROVE Kept'
  <2>1. /\ UNCHANGED <<fs, w>> /\ Inode' = Inode \cup {Len(files) + 1}
        /\ asked'[Len(files) + 1] = 0 /\ \A i \in Inode : asked'[i] = asked[i]
    BY <1>1, AddIs DEF Shape
  <2>2. NothingLost'
    BY <2>1 DEF Kept, NothingLost
  <2>3. \A p \in puts' \ puts : <<"inbox", p.name>> \notin DOMAIN fs
    <3>1. <<t>> \notin In("inbox")
      BY <1>1 DEF Add
    <3>2. <<"inbox", <<t>>>> \notin DOMAIN fs
      BY <3>1, InIsName DEF Shape
    <3>3. \A p \in puts' \ puts : p.name = <<t>>
      BY <1>1 DEF Add
    <3> QED
      BY <3>2, <3>3
  <2> QED
    BY <2>1, <2>2, <2>3 DEF Kept, Unused, Reserved, Paired
<1>2. ASSUME NEW d \in {"needs_human", "blocked"}, NEW n \in In(d), Revive(d, n) PROVE Kept'
  <2>1. UNCHANGED <<fs, w, files, asked>>
    BY <1>2 DEF Revive
  <2>2. \A p \in puts' \ puts : <<"inbox", p.name>> \notin DOMAIN fs
    <3>1. n \notin In("inbox")
      BY <1>2 DEF Revive
    <3>2. <<"inbox", n>> \notin DOMAIN fs
      BY <3>1, InIsName DEF Shape
    <3>3. \A p \in puts' \ puts : p.name = n
      BY <1>2 DEF Revive
    <3> QED
      BY <3>2, <3>3
  <2> QED
    BY <2>1, <2>2 DEF Kept, NothingLost, Inode, Unused, Reserved, Paired
<1>3. ASSUME NEW p \in puts, Put(p) PROVE Kept'
  <2> DEFINE to == <<"inbox", p.name>>
  <2>0. PICK i \in Inode, gone \in SUBSET DOMAIN fs : Lands(p, i, gone)
    BY <1>3, PutIs DEF Shape
  <2>1. /\ Comes(to, i, gone) /\ asked' = [asked EXCEPT ![i] = @ + 1]
        /\ gone # {} => MaxRevives # 0
        /\ puts' = puts \ {p} /\ UNCHANGED <<files, w>>
    BY <2>0 DEF Lands
  <2>2. to \notin DOMAIN fs /\ to[1] = "inbox" /\ to[2] = p.name
    BY DEF Kept, Unused
  <2>3. \A q \in puts' : <<"inbox", q.name>> # to
    <3> SUFFICES ASSUME NEW q \in puts' PROVE q.name # p.name
      OBVIOUS
    <3> QED
      BY <2>1 DEF OneEach
  <2>4. \A q \in puts' : <<"inbox", q.name>> \notin DOMAIN fs
    BY <2>1 DEF Kept, Unused
  <2> HIDE DEF to
  <2>5. /\ DOMAIN fs' = (DOMAIN fs \ gone) \cup {to} /\ fs'[to] = i
        /\ \A q \in DOMAIN fs \ gone : fs'[q] = fs[q]
        /\ \A q \in gone : q[1] \in {"needs_human", "blocked"} /\ fs[q] = i
    BY <2>1, <2>2 DEF Comes
  <2>6. Unused'
    BY <2>3, <2>4, <2>5 DEF Unused
  <2>7. NothingLost'
    <3> SUFFICES ASSUME NEW j \in Inode, j # i, asked[j] > 0 PROVE \E q \in DOMAIN fs' : fs'[q] = j
      <4>1. \A j \in Inode : j # i => asked'[j] = asked[j]
        BY <2>1
      <4> QED
        BY <2>1, <2>5, <4>1 DEF NothingLost, Inode
    <3>1. PICK q \in DOMAIN fs : fs[q] = j
      BY DEF Kept, NothingLost
    <3> QED
      BY <2>5, <3>1
  <2>8. ASSUME NEW x \in Worker PROVE Reserved(w[x])' /\ Paired(w[x])'
    <3>1. /\ Reserved(w[x]) /\ Paired(w[x]) /\ Owns(w[x]) /\ w[x] \in Local /\ Fits(w[x])
          /\ w'[x] = w[x]
      BY <2>1 DEF Kept, Owned, Shape, Locals
    <3>2. w[x].pc \in Held => w[x].src \in DOMAIN fs \ gone
      BY <2>5, <3>1 DEF Owns, Held
    <3>3. w[x].pc = "unlink" => w[x].target[1] \in Parked /\ w[x].target # to
      BY <2>2, <3>1 DEF Fits, Local, Parked
    <3>4. w[x].pc = "unlink" => fs'[w[x].src] = fs[w[x].src]
      BY <2>5, <3>2 DEF Held
    <3>5. Alone \/ gone = {}
      BY <2>1
    <3>6. Reserved(w[x])'
      BY <2>5, <3>1, <3>3, <3>4, <3>5 DEF Reserved
    <3>7. w[x].pc = "linked" =>
             /\ fs'[w[x].src] = fs[w[x].src]
             /\ fs'[<<"inbox", w[x].src[2]>>] = fs[<<"inbox", w[x].src[2]>>]
      <4>1. <<"inbox", w[x].src[2]>>[1] = "inbox"
        OBVIOUS
      <4>2. w[x].pc = "linked" => <<"inbox", w[x].src[2]>> \in DOMAIN fs \ gone
        BY <2>5, <3>1, <4>1 DEF Owns
      <4> QED
        BY <2>5, <3>2, <4>2 DEF Held
    <3> QED
      BY <3>1, <3>6, <3>7 DEF Paired
  <2> QED
    BY <2>6, <2>7, <2>8 DEF Kept
<1>4. CASE Time \/ UNCHANGED vars \/ \E p \in puts : GiveUp(p)
  <2>1. UNCHANGED <<fs, w, files, asked>> /\ puts' \subseteq puts
    BY <1>4 DEF Time, GrowOld, GiveUp, vars, disk, Quiet
  <2> QED
    BY <2>1 DEF Kept, NothingLost, Unused, Reserved, Paired, Inode
<1>5. ASSUME NEW x \in Worker, Acts(x) PROVE Kept'
  BY <1>5, KeptWorker
<1> QED
  BY <1>1, <1>2, <1>3, <1>4, <1>5 DEF Next, People, Acts

\* No file that was put into inbox leaves the directories, as long as no two people are
\* putting the same name there at once: each interruption of add, claim, _park and revive
\* leaves it a name, and what is parked overwrites nothing. (Two who put one name at once
\* may lose a file: see the README.)
THEOREM NothingIsLost ==
    ASSUME Alone \/ (Separate /\ MaxRevives = 0)
    PROVE  Spec /\ []OneEach => []NothingLost
<1>1. Init => Kept
  <2>1. Off.pc = "off"
    BY DEF Off
  <2> QED
    BY <2>1 DEF Init, Kept, NothingLost, Unused, Reserved, Paired, Inode
<1>2. Shape /\ Owned /\ Kept /\ OneEach /\ [Next]_vars => Kept'
  BY KeptStep
<1>3. Spec => [](Shape /\ Owned)
  BY AlwaysOwned
<1>4. Kept => NothingLost
  BY DEF Kept
<1> QED
  BY <1>1, <1>2, <1>3, <1>4, PTL DEF Spec

\* A person who has the backlog to themselves loses nothing.
COROLLARY OnePersonLosesNothing ==
    ASSUME Alone \/ (Separate /\ MaxRevives = 0), MaxProducers <= 1
    PROVE  Spec => []NothingLost
<1>1. Shape => OneEach
  <2> SUFFICES ASSUME Shape, NEW p \in puts, NEW q \in puts, p # q PROVE FALSE
    BY DEF OneEach
  <2>1. IsFiniteSet(puts) /\ Cardinality(puts) <= 1 /\ Cardinality(puts) \in Nat
    BY FS_CardinalityType, BacklogAssumption DEF Shape, Producers
  <2>2. IsFiniteSet({p}) /\ Cardinality({p}) = 1 /\ q \notin {p}
    BY FS_Singleton
  <2>3. IsFiniteSet({p} \cup {q}) /\ Cardinality({p} \cup {q}) = 2
    BY <2>2, FS_AddElement
  <2>4. Cardinality({p} \cup {q}) <= Cardinality(puts)
    BY <2>1, FS_Subset
  <2> QED
    BY <2>1, <2>3, <2>4
<1> QED
  BY <1>1, AlwaysShape, NothingIsLost, PTL
=============================================================================
