------------------------- MODULE FdInheritanceProofs -------------------------
(* For any number of processes, threads and descriptors: no end of a channel *)
(* reaches a process it was not given to.                                    *)
EXTENDS FdInheritance, TLAPS

\* Ends are not None, and know their process.
LEMMA EndFacts ==
    ASSUME NEW c \in Procs, NEW k \in {"local", "child", "ours", "theirs"}
    PROVE  <<c, k>> \in Ends /\ <<c, k>> # None /\ <<c, k>>[1] = c
BY FdAssumption DEF Ends

\* The child's end in particular.
LEMMA ChildEnd ==
    ASSUME NEW c \in Procs
    PROVE  <<c, "child">> # None
BY FdAssumption DEF Ends

\* A descriptor that names an end names one of a process.
LEMMA TableFacts ==
    ASSUME TypeOK, NEW p \in Procs, NEW f \in Fds
    PROVE  /\ table[p][f] \in Ends \cup {None}
           /\ table[p][f] # None => table[p][f][1] \in Procs
BY DEF TypeOK, Ends

\* The two new descriptors of a socket pair, and all others.
LEMMA PairFacts ==
    ASSUME TypeOK, NEW p \in Procs, NEW x \in Fds, NEW y \in Fds, NEW e1 \in Ends,
           NEW e2 \in Ends, Socketpair(p, x, y, e1, e2)
    PROVE  /\ x # y /\ table[p][x] = None /\ table[p][y] = None
           /\ table' \in [Procs -> [Fds -> Ends \cup {None}]]
           /\ cloexec' \in [Procs -> SUBSET Fds]
           /\ \A q \in Procs, f \in Fds :
                /\ table'[q][f] = IF q = p /\ f = y THEN e2
                                  ELSE IF q = p /\ f = x THEN e1 ELSE table[q][f]
                /\ f \in cloexec'[q] <=> f \in cloexec[q] \/ (q = p /\ f \in {x, y})
<1>1. x # y /\ table[p][x] = None /\ table[p][y] = None
  BY DEF Socketpair, Lowest, Open
<1>2. \A q \in Procs, f \in Fds :
         table'[q][f] = IF q = p /\ f = y THEN e2
                        ELSE IF q = p /\ f = x THEN e1 ELSE table[q][f]
  BY DEF Socketpair, TypeOK
<1>3. \A q \in Procs, f \in Fds :
         f \in cloexec'[q] <=> f \in cloexec[q] \/ (q = p /\ f \in {x, y})
  BY DEF Socketpair, TypeOK
<1>4. /\ table' \in [Procs -> [Fds -> Ends \cup {None}]]
      /\ cloexec' \in [Procs -> SUBSET Fds]
  BY DEF Socketpair, TypeOK
<1> QED
  BY <1>1, <1>2, <1>3, <1>4

\* Closing only removes.
LEMMA CloseFacts ==
    ASSUME TypeOK, NEW p \in Procs, NEW gone, Close(p, gone)
    PROVE  /\ table' \in [Procs -> [Fds -> Ends \cup {None}]]
           /\ \A q \in Procs, f \in Fds :
                table'[q][f] = IF q = p /\ table[q][f] \in gone THEN None ELSE table[q][f]
<1>1. table' = [table EXCEPT ![p] = [f \in Fds |->
                    IF table[p][f] \in gone THEN None ELSE table[p][f]]]
  BY DEF Close, TypeOK
<1> QED
  BY <1>1 DEF TypeOK

\* Where a thread is, after one thread has moved.
LEMMA GotoFacts ==
    ASSUME TypeOK, NEW p \in Procs, NEW t \in Threads, NEW place \in Places, Goto(p, t, place)
    PROVE  /\ at' \in [Procs -> [Threads -> Places]]
           /\ \A q \in Procs, u \in Threads :
                at'[q][u] = IF q = p /\ u = t THEN place ELSE at[q][u]
BY DEF Goto, TypeOK

\* A thread that closes ends of its own child keeps the invariant.
LEMMA CloseStep ==
    ASSUME IInv, NEW p \in Procs, NEW t \in Threads, NEW gone,
           life[p] = "running", at[p][t] # "idle",
           gone \subseteq {<<job[p][t], k>> : k \in {"local", "child", "ours", "theirs"}},
           Close(p, gone), UNCHANGED <<cloexec, parent, argv>>,
           entry' \in [Procs -> {"none", "sent", "read"}],
           \/ life' = life
           \/ at[p][t] = "paired" /\ life' = [life EXCEPT ![job[p][t]] = "dead"],
           \/ job' = job /\ \E place \in Places \ {"idle", "channel", "paired"} : Goto(p, t, place)
           \/ job' = [job EXCEPT ![p][t] = None] /\ Goto(p, t, "idle")
    PROVE  IInv'
<1> DEFINE c == job[p][t]
<1>1. c \in Procs /\ c # p /\ parent[c] = p
  BY FdAssumption DEF IInv, TypeOK, Jobs, JobRight
<1>2. /\ table' \in [Procs -> [Fds -> Ends \cup {None}]]
      /\ \A q \in Procs, f \in Fds :
           table'[q][f] = IF q = p /\ table[q][f] \in gone THEN None ELSE table[q][f]
  BY CloseFacts DEF IInv
<1>3. /\ life' \in [Procs -> Lives]
      /\ \A q \in Procs : life'[q] = life[q] \/ (q = c /\ at[p][t] = "paired" /\ life'[q] = "dead")
  BY <1>1 DEF IInv, TypeOK, Lives
<1>4. /\ at' \in [Procs -> [Threads -> Places]] /\ job' \in [Procs -> [Threads -> Procs \cup {None}]]
      /\ at'[p][t] \notin {"channel", "paired"}
      /\ \A q \in Procs, u \in Threads :
           \/ at'[q][u] = at[q][u] /\ job'[q][u] = job[q][u] /\ <<q, u>> # <<p, t>>
           \/ q = p /\ u = t /\ at'[q][u] \notin {"idle", "channel", "paired"} /\ job'[q][u] = job[q][u]
           \/ q = p /\ u = t /\ at'[q][u] = "idle" /\ job'[q][u] = None
  <2>1. CASE job' = job /\ \E place \in Places \ {"idle", "channel", "paired"} : Goto(p, t, place)
    <3>1. PICK place \in Places \ {"idle", "channel", "paired"} : Goto(p, t, place)
      BY <2>1
    <3>2. /\ at' \in [Procs -> [Threads -> Places]]
          /\ \A q \in Procs, u \in Threads :
                at'[q][u] = IF q = p /\ u = t THEN place ELSE at[q][u]
      BY <3>1, GotoFacts DEF IInv
    <3> QED
      BY <2>1, <3>2 DEF IInv, TypeOK
  <2>2. CASE job' = [job EXCEPT ![p][t] = None] /\ Goto(p, t, "idle")
    <3>1. /\ at' \in [Procs -> [Threads -> Places]]
          /\ \A q \in Procs, u \in Threads :
                at'[q][u] = IF q = p /\ u = t THEN "idle" ELSE at[q][u]
      BY <2>2, GotoFacts DEF IInv, Places
    <3>2. /\ job' \in [Procs -> [Threads -> Procs \cup {None}]]
          /\ \A q \in Procs, u \in Threads :
                job'[q][u] = IF q = p /\ u = t THEN None ELSE job[q][u]
      BY <2>2 DEF IInv, TypeOK
    <3> QED
      BY <3>1, <3>2
  <2> QED
    BY <2>1, <2>2
<1>5. TypeOK'
  BY <1>2, <1>3, <1>4 DEF IInv, TypeOK
<1>6. c # None /\ (at[p][t] = "paired" => life[c] = "unborn")
  BY <1>1, FdAssumption DEF IInv, Jobs, JobRight
<1>7. Rightly'
  BY <1>2, <1>3, <1>6 DEF IInv, Rightly, Rightful
<1>8. Marked'
  BY <1>2, <1>3, <1>6 DEF IInv, Marked
<1>9. Numbered'
  <2> SUFFICES ASSUME NEW q \in Procs, life'[q] \notin {"unborn", "dead"}, argv[q] # None
               PROVE  table'[q][argv[q]] = <<q, "child">>
    BY <1>3 DEF IInv, Numbered
  <2>1. argv[q] \in Fds /\ table[q][argv[q]] = <<q, "child">>
    BY <1>3 DEF IInv, TypeOK, Numbered
  <2>2. q = p => <<q, "child">> \notin gone
    BY <1>1
  <2> QED
    BY <1>2, <2>1, <2>2
<1>10. Jobs'
  <2> SUFFICES ASSUME NEW q \in Procs, NEW u \in Threads
               PROVE  JobRight(q, u)'
    BY DEF Jobs, IInv
  <2>1. \A v \in Threads : job'[q][v] = job[q][v] \/ job'[q][v] = None
    BY <1>4
  <2>2. JobRight(q, u)
    BY DEF IInv, Jobs
  <2>3. CASE q = p /\ u = t
    BY <1>3, <1>4, <2>1, <2>2, <2>3 DEF JobRight
  <2>4. CASE ~(q = p /\ u = t)
    <3>1. at'[q][u] = at[q][u] /\ job'[q][u] = job[q][u]
      BY <1>4, <2>4
    <3>2. job[q][u] # None => job[q][u] # c
      BY <2>2, <2>4, <1>1 DEF JobRight, IInv, Jobs
    <3>3. at[q][u] \in {"channel", "paired"} => life'[job[q][u]] = "unborn"
      BY <1>3, <2>2, <3>2 DEF IInv, TypeOK, JobRight
    <3>4. at[q][u] = "paired" /\ life'[q] = "running"
             => argv[job[q][u]] # None /\ table'[q][argv[job[q][u]]] = <<job[q][u], "child">>
      <4> SUFFICES ASSUME at[q][u] = "paired", life'[q] = "running"
                   PROVE argv[job[q][u]] # None /\ table'[q][argv[job[q][u]]] = <<job[q][u], "child">>
        OBVIOUS
      <4>1. life[q] = "running" /\ job[q][u] # None
        BY <1>3, <2>2 DEF JobRight
      <4>2. argv[job[q][u]] # None /\ table[q][argv[job[q][u]]] = <<job[q][u], "child">>
        BY <4>1, <2>2 DEF JobRight
      <4>3. argv[job[q][u]] \in Fds
        BY <4>1, <4>2 DEF IInv, TypeOK
      <4>4. <<job[q][u], "child">> \notin gone
        BY <3>2, <4>1
      <4> QED
        BY <1>2, <4>2, <4>3, <4>4
    <3> QED
      BY <1>3, <2>1, <2>2, <3>1, <3>3, <3>4 DEF JobRight
  <2> QED
    BY <2>3, <2>4
<1> QED
  BY <1>5, <1>7, <1>8, <1>9, <1>10 DEF IInv

\* What happens to a process outside of its threads does not disturb them.
LEMMA JobsStep ==
    ASSUME IInv, NEW c \in Procs, NEW l \in Lives \ {"unborn"}, life[c] # "unborn",
           life' = [life EXCEPT ![c] = l], l = "dead" \/ life[c] \notin {"running", "dead"},
           \A q \in Procs \ {c} : table'[q] = table[q],
           UNCHANGED <<parent, argv, at, job>>
    PROVE  Jobs'
<1>1. \A q \in Procs : life'[q] = IF q = c THEN l ELSE life[q]
  BY DEF IInv, TypeOK
<1> SUFFICES ASSUME NEW q \in Procs, NEW u \in Threads
             PROVE  JobRight(q, u)'
  BY DEF IInv, Jobs
<1>2. JobRight(q, u) /\ job[q][u] \in Procs \cup {None}
  BY DEF IInv, Jobs, TypeOK
<1>3. CASE at[q][u] = "idle"
  BY <1>2, <1>3 DEF JobRight
<1>4. CASE at[q][u] # "idle"
  <2>1. q = c => life'[q] = "dead"
    BY <1>1, <1>2, <1>4 DEF JobRight
  <2>2. job[q][u] \in Procs
    BY <1>2, <1>4 DEF JobRight
  <2>3. at[q][u] \in {"channel", "paired"} => life'[job[q][u]] = "unborn"
    BY <1>1, <1>2, <2>2 DEF JobRight
  <2> QED
    BY <1>1, <1>2, <2>1, <2>3 DEF JobRight
<1> QED
  BY <1>3, <1>4

\* The thread of a step has no other thread's child.
LEMMA OtherJobs ==
    ASSUME IInv, NEW p \in Procs, NEW t \in Threads, job[p][t] # None,
           NEW q \in Procs, NEW u \in Threads, q # p \/ u # t
    PROVE  job[q][u] # job[p][t]
BY DEF IInv, Jobs, JobRight

\* A socket pair for a child to come is rightful, marked and no number of others.
LEMMA PairStep ==
    ASSUME IInv, NEW p \in Procs, NEW c \in Procs, NEW x \in Fds, NEW y \in Fds,
           NEW e1 \in Ends, NEW e2 \in Ends, e1[1] = c, e2[1] = c,
           Socketpair(p, x, y, e1, e2),
           life[c] = "unborn", life[p] = "running", life' = life,
           \A q \in Procs : parent'[q] = IF q = c THEN p ELSE parent[q],
           parent[c] \in {None, p},
           \A q \in Procs \ {c} : argv'[q] = argv[q]
    PROVE  Rightly' /\ Marked' /\ Numbered'
<1>1. /\ x # y /\ table[p][x] = None /\ table[p][y] = None
      /\ \A q \in Procs, f \in Fds :
           /\ table'[q][f] = IF q = p /\ f = y THEN e2
                             ELSE IF q = p /\ f = x THEN e1 ELSE table[q][f]
           /\ f \in cloexec'[q] <=> f \in cloexec[q] \/ (q = p /\ f \in {x, y})
  BY PairFacts DEF IInv
<1>2. Rightly'
  <2> SUFFICES ASSUME NEW q \in Procs, NEW f \in Fds, table'[q][f] # None
               PROVE  \/ table'[q][f] \in Rightful(q)'
                      \/ life'[q] \in {"forked", "prepared"} /\ f \in cloexec'[q]
    BY DEF Rightly
  <2>1. CASE table'[q][f] \in {e1, e2} /\ q = p
    BY <2>1 DEF Rightful
  <2>2. CASE table'[q][f] = table[q][f] /\ (f \in cloexec[q] => f \in cloexec'[q])
    <3>1. \/ table[q][f] \in Rightful(q)
          \/ life[q] \in {"forked", "prepared"} /\ f \in cloexec[q]
      BY <2>2 DEF IInv, Rightly
    <3>2. table[q][f][1] \in Procs /\ q # None
      BY <2>2, TableFacts, FdAssumption DEF IInv
    <3> QED
      BY <2>2, <3>1, <3>2 DEF Rightful
  <2> QED
    BY <1>1, <2>1, <2>2
<1>3. Marked'
  <2> SUFFICES ASSUME NEW q \in Procs, NEW f \in Fds, table'[q][f] # None
               PROVE  \/ f \in cloexec'[q]
                      \/ life'[q] \in {"prepared", "execed"} /\ f = argv'[q]
    BY DEF Marked
  <2> QED
    BY <1>1 DEF IInv, Marked
<1>4. Numbered'
  <2> SUFFICES ASSUME NEW q \in Procs, life[q] \notin {"unborn", "dead"}, argv'[q] # None
               PROVE  /\ table'[q][argv'[q]] = <<q, "child">>
                      /\ life[q] = "prepared" => argv'[q] \notin cloexec'[q]
    BY DEF Numbered
  <2>1. argv'[q] = argv[q]
    OBVIOUS
  <2>2. argv[q] \in Fds /\ table[q][argv[q]] = <<q, "child">> /\ <<q, "child">> # None
    BY <2>1, ChildEnd DEF IInv, TypeOK, Numbered
  <2>3. table'[q][argv[q]] = table[q][argv[q]]
    BY <1>1, <2>2
  <2> QED
    BY <1>1, <2>1, <2>2, <2>3 DEF IInv, Numbered
<1> QED
  BY <1>2, <1>3, <1>4

\* The program makes a channel for a child to come.
LEMMA ChannelStep ==
    ASSUME IInv, NEW p \in Procs, NEW t \in Threads, NEW c \in Procs,
           NEW x \in Fds, NEW y \in Fds, Channel(p, t, c, x, y)
    PROVE  IInv'
<1> DEFINE e1 == <<c, "ours">>
           e2 == <<c, "theirs">>
<1>1. /\ e1 \in Ends /\ e2 \in Ends /\ e1 # None /\ e2 # None /\ e1[1] = c /\ e2[1] = c
      /\ e1 # <<p, "child">> /\ c # None /\ p # None
  BY EndFacts, FdAssumption
<1> HIDE DEF e1, e2
<1>2. /\ x # y /\ table[p][x] = None /\ table[p][y] = None
      /\ table' \in [Procs -> [Fds -> Ends \cup {None}]]
      /\ cloexec' \in [Procs -> SUBSET Fds]
      /\ \A q \in Procs, f \in Fds :
           /\ table'[q][f] = IF q = p /\ f = y THEN e2
                             ELSE IF q = p /\ f = x THEN e1 ELSE table[q][f]
           /\ f \in cloexec'[q] <=> f \in cloexec[q] \/ (q = p /\ f \in {x, y})
  <2>1. Socketpair(p, x, y, e1, e2) /\ TypeOK
    BY DEF Channel, IInv, e1, e2
  <2> QED
    BY <1>1, <2>1, PairFacts
<1>3. /\ life[p] = "running" /\ at[p][t] = "idle" /\ life[c] = "unborn" /\ parent[c] = None
      /\ c # p /\ UNCHANGED <<life, argv, entry>>
  BY DEF Channel
<1>4. /\ parent' \in [Procs -> Procs \cup {None}]
      /\ \A q \in Procs : parent'[q] = IF q = c THEN p ELSE parent[q]
  BY DEF Channel, IInv, TypeOK
<1>5. /\ job' \in [Procs -> [Threads -> Procs \cup {None}]]
      /\ \A q \in Procs, u \in Threads :
            job'[q][u] = IF q = p /\ u = t THEN c ELSE job[q][u]
  BY DEF Channel, IInv, TypeOK
<1>6. /\ at' \in [Procs -> [Threads -> Places]]
      /\ \A q \in Procs, u \in Threads :
            at'[q][u] = IF q = p /\ u = t THEN "channel" ELSE at[q][u]
  BY GotoFacts DEF Channel, IInv, Places
<1>7. TypeOK'
  BY <1>2, <1>3, <1>4, <1>5, <1>6 DEF IInv, TypeOK
<1>8. Rightly' /\ Marked' /\ Numbered'
  <2>1. Socketpair(p, x, y, e1, e2)
    BY DEF Channel, e1, e2
  <2> QED
    BY <1>1, <1>3, <1>4, <2>1, PairStep
<1>9. Jobs'
  <2>1. \A q \in Procs : parent'[q] = None => argv'[q] = None
    BY <1>1, <1>3, <1>4 DEF IInv, Jobs
  <2> SUFFICES ASSUME NEW q \in Procs, NEW u \in Threads
               PROVE  JobRight(q, u)'
    BY <2>1 DEF Jobs
  <2>2. JobRight(q, u) /\ job[q][u] \in Procs \cup {None} /\ job[q][u] # c
    BY <1>1, <1>3, FdAssumption DEF IInv, Jobs, TypeOK, JobRight
  <2>3. CASE q = p /\ u = t
    <3>1. \A v \in Threads : job'[p][v] = c => v = t
      BY <1>1, <1>3, <1>5, FdAssumption DEF IInv, Jobs, JobRight
    <3> QED
      BY <1>1, <1>3, <1>4, <1>5, <1>6, <2>3, <3>1 DEF JobRight
  <2>4. CASE ~(q = p /\ u = t)
    <3> DEFINE d == job[q][u]
    <3>1. at'[q][u] = at[q][u] /\ job'[q][u] = d
      BY <1>5, <1>6, <2>4
    <3>2. d # None => parent'[d] = q /\ \A v \in Threads : job'[q][v] = d => v = u
      BY <1>4, <1>5, <2>2 DEF JobRight
    <3>3. at[q][u] = "paired" /\ life[q] = "running"
             => argv[d] # None /\ table'[q][argv[d]] = <<d, "child">>
      <4> SUFFICES ASSUME at[q][u] = "paired", life[q] = "running"
                   PROVE  argv[d] # None /\ table'[q][argv[d]] = <<d, "child">>
        OBVIOUS
      <4>1. d \in Procs /\ argv[d] # None /\ table[q][argv[d]] = <<d, "child">>
        BY <2>2 DEF JobRight
      <4>2. argv[d] \in Fds /\ <<d, "child">> # None
        BY <4>1, ChildEnd DEF IInv, TypeOK
      <4> QED
        BY <1>2, <4>1, <4>2
    <3> QED
      BY <1>3, <2>2, <3>1, <3>2, <3>3 DEF JobRight
  <2> QED
    BY <2>3, <2>4
<1> QED
  BY <1>7, <1>8, <1>9 DEF IInv

\* spawn makes its own channel.
LEMMA DuplexStep ==
    ASSUME IInv, NEW p \in Procs, NEW t \in Threads, NEW x \in Fds, NEW y \in Fds,
           Duplex(p, t, x, y)
    PROVE  IInv'
<1> DEFINE c  == job[p][t]
           e1 == <<c, "local">>
           e2 == <<c, "child">>
<1>1. /\ life[p] = "running" /\ at[p][t] = "channel" /\ UNCHANGED <<life, parent, entry, job>>
      /\ c \in Procs /\ c # p /\ c # None /\ life[c] = "unborn" /\ parent[c] = p
  BY FdAssumption DEF Duplex, IInv, TypeOK, Jobs, JobRight
<1> HIDE DEF c
<1>2. e1 \in Ends /\ e2 \in Ends /\ e1 # None /\ e2 # None /\ e1[1] = c /\ e2[1] = c
  BY <1>1, EndFacts, FdAssumption
<1>3. e2 = <<c, "child">>
  OBVIOUS
<1> HIDE DEF e1, e2
<1>4. Socketpair(p, x, y, e1, e2)
  BY DEF Duplex, c, e1, e2
<1>5. /\ x # y /\ table[p][x] = None /\ table[p][y] = None
      /\ table' \in [Procs -> [Fds -> Ends \cup {None}]]
      /\ cloexec' \in [Procs -> SUBSET Fds]
      /\ \A q \in Procs, f \in Fds :
           table'[q][f] = IF q = p /\ f = y THEN e2
                          ELSE IF q = p /\ f = x THEN e1 ELSE table[q][f]
  BY <1>2, <1>4, PairFacts DEF IInv
<1>6. /\ argv' \in [Procs -> Fds \cup {None}]
      /\ \A q \in Procs : argv'[q] = IF q = c THEN y ELSE argv[q]
  BY DEF Duplex, IInv, TypeOK, c
<1>7. /\ at' \in [Procs -> [Threads -> Places]]
      /\ \A q \in Procs, u \in Threads :
            at'[q][u] = IF q = p /\ u = t THEN "paired" ELSE at[q][u]
  BY GotoFacts DEF Duplex, IInv, Places
<1>8. TypeOK'
  BY <1>1, <1>5, <1>6, <1>7 DEF IInv, TypeOK
<1>9. Rightly' /\ Marked' /\ Numbered'
  BY <1>1, <1>2, <1>4, <1>6, PairStep
<1>10. Jobs'
  <2>1. \A q \in Procs : parent'[q] = None => argv'[q] = None
    BY <1>1, <1>6, FdAssumption DEF IInv, Jobs
  <2> SUFFICES ASSUME NEW q \in Procs, NEW u \in Threads
               PROVE  JobRight(q, u)'
    BY <2>1 DEF Jobs
  <2> DEFINE d == job[q][u]
  <2>2. JobRight(q, u) /\ d \in Procs \cup {None}
    BY DEF IInv, Jobs, TypeOK
  <2>3. CASE q = p /\ u = t
    <3>1. d = c
      BY <2>3 DEF c
    <3>2. argv'[c] # None /\ table'[p][argv'[c]] = <<c, "child">>
      BY <1>1, <1>3, <1>5, <1>6, FdAssumption
    <3> QED
      BY <1>1, <1>7, <2>2, <2>3, <3>1, <3>2 DEF JobRight
  <2>4. CASE ~(q = p /\ u = t)
    <3>1. at'[q][u] = at[q][u] /\ d # c
      BY <1>1, <1>7, <2>4, OtherJobs DEF c
    <3>2. at[q][u] = "paired" /\ life[q] = "running"
             => argv'[d] # None /\ table'[q][argv'[d]] = <<d, "child">>
      <4> SUFFICES ASSUME at[q][u] = "paired", life[q] = "running"
                   PROVE  argv'[d] # None /\ table'[q][argv'[d]] = <<d, "child">>
        OBVIOUS
      <4>1. d \in Procs /\ argv[d] # None /\ table[q][argv[d]] = <<d, "child">>
        BY <2>2 DEF JobRight
      <4>2. argv'[d] = argv[d] /\ argv[d] \in Fds /\ <<d, "child">> # None
        BY <1>6, <3>1, <4>1, ChildEnd DEF IInv, TypeOK
      <4> QED
        BY <1>5, <4>1, <4>2
    <3> QED
      BY <1>1, <2>2, <3>1, <3>2 DEF JobRight
  <2> QED
    BY <2>3, <2>4
<1> QED
  BY <1>8, <1>9, <1>10 DEF IInv

\* A new process, with the descriptors of its parent.
LEMMA CopyFacts ==
    ASSUME TypeOK, NEW p \in Procs, NEW c \in Procs, CopyTable(p, c)
    PROVE  /\ table' \in [Procs -> [Fds -> Ends \cup {None}]]
           /\ cloexec' \in [Procs -> SUBSET Fds] /\ life' \in [Procs -> Lives]
           /\ table'[c] = table[p] /\ cloexec'[c] = cloexec[p] /\ life'[c] = "forked"
           /\ \A q \in Procs \ {c} : /\ table'[q] = table[q] /\ cloexec'[q] = cloexec[q]
                                      /\ life'[q] = life[q]
BY DEF TypeOK, CopyTable, Lives

\* What a running process passes on is marked.
LEMMA CopyStep ==
    ASSUME IInv, NEW p \in Procs, NEW c \in Procs, CopyTable(p, c), life[p] = "running",
           life[c] = "unborn", argv' = argv,
           \A q \in Procs : parent'[q] = IF q = c THEN p ELSE parent[q],
           parent[c] \in {None, p}, argv[c] # None => table[p][argv[c]] = <<c, "child">>
    PROVE  Rightly' /\ Marked' /\ Numbered'
<1>1. /\ table'[c] = table[p] /\ cloexec'[c] = cloexec[p] /\ life'[c] = "forked"
      /\ \A q \in Procs \ {c} : /\ table'[q] = table[q] /\ cloexec'[q] = cloexec[q]
                                 /\ life'[q] = life[q]
  BY CopyFacts DEF IInv
<1>2. \A f \in Fds : table[p][f] # None => f \in cloexec[p]
  BY DEF IInv, Marked
<1>3. Rightly'
  <2> SUFFICES ASSUME NEW q \in Procs, NEW f \in Fds, table'[q][f] # None
               PROVE  \/ table'[q][f] \in Rightful(q)'
                      \/ life'[q] \in {"forked", "prepared"} /\ f \in cloexec'[q]
    BY DEF Rightly
  <2>1. CASE q = c
    BY <1>1, <1>2, <2>1
  <2>2. CASE q # c
    <3>1. \/ table[q][f] \in Rightful(q)
          \/ life[q] \in {"forked", "prepared"} /\ f \in cloexec[q]
      BY <1>1, <2>2 DEF IInv, Rightly
    <3>2. table[q][f][1] \in Procs /\ q # None
      BY <1>1, <2>2, TableFacts, FdAssumption DEF IInv
    <3> QED
      BY <1>1, <2>2, <3>1, <3>2 DEF Rightful
  <2> QED
    BY <2>1, <2>2
<1>4. Marked'
  BY <1>1, <1>2 DEF IInv, Marked
<1>5. Numbered'
  BY <1>1 DEF IInv, Numbered
<1> QED
  BY <1>3, <1>4, <1>5

\* posix_spawn forks.
LEMMA SpawnStep ==
    ASSUME IInv, NEW p \in Procs, NEW t \in Threads, Spawn(p, t)
    PROVE  IInv'
<1> DEFINE c == job[p][t]
<1>1. /\ life[p] = "running" /\ at[p][t] = "paired" /\ UNCHANGED <<parent, argv, entry, job>>
      /\ c \in Procs /\ c # p /\ c # None /\ life[c] = "unborn" /\ parent[c] = p
      /\ argv[c] # None /\ table[p][argv[c]] = <<c, "child">> /\ CopyTable(p, c)
  BY FdAssumption DEF Spawn, IInv, TypeOK, Jobs, JobRight
<1>2. /\ table' \in [Procs -> [Fds -> Ends \cup {None}]]
      /\ cloexec' \in [Procs -> SUBSET Fds] /\ life' \in [Procs -> Lives]
      /\ life'[c] = "forked"
      /\ \A q \in Procs \ {c} : table'[q] = table[q] /\ life'[q] = life[q]
  BY <1>1, CopyFacts DEF IInv
<1>3. /\ at' \in [Procs -> [Threads -> Places]]
      /\ \A q \in Procs, u \in Threads :
            at'[q][u] = IF q = p /\ u = t THEN "spawning" ELSE at[q][u]
  BY GotoFacts DEF Spawn, IInv, Places
<1>4. TypeOK'
  BY <1>1, <1>2, <1>3 DEF IInv, TypeOK
<1>5. Rightly' /\ Marked' /\ Numbered'
  BY <1>1, CopyStep
<1>6. Jobs'
  <2> SUFFICES ASSUME NEW q \in Procs, NEW u \in Threads
               PROVE  JobRight(q, u)'
    BY <1>1 DEF IInv, Jobs
  <2>1. JobRight(q, u) /\ job[q][u] \in Procs \cup {None}
    BY DEF IInv, Jobs, TypeOK
  <2>2. CASE q = p /\ u = t
    <3>1. at'[p][t] = "spawning" /\ life'[p] = "running" /\ job'[p][t] = c
      BY <1>1, <1>2, <1>3
    <3>2. parent'[c] = p /\ \A v \in Threads : job'[p][v] = c => v = t
      BY <1>1, <2>1, <2>2 DEF JobRight
    <3> QED
      BY <1>1, <2>2, <3>1, <3>2 DEF JobRight
  <2>3. CASE ~(q = p /\ u = t)
    <3>1. at'[q][u] = at[q][u] /\ job[q][u] # c
      <4>1. job[p][t] # None
        BY <1>1, Zenon
      <4> QED
        BY <1>3, <2>3, <4>1, OtherJobs
    <3>2. q = c => at[q][u] = "idle"
      BY <1>1, <2>1, Zenon DEF JobRight
    <3> QED
      BY <1>1, <1>2, <2>1, <3>1, <3>2 DEF JobRight
  <2> QED
    BY <2>2, <2>3
<1> QED
  BY <1>4, <1>5, <1>6 DEF IInv

\* Another program is started.
LEMMA CommandStep ==
    ASSUME IInv, NEW p \in Procs, NEW c \in Procs, Command(p, c)
    PROVE  IInv'
<1>1. /\ life[p] = "running" /\ UNCHANGED <<argv, entry, at, job>> /\ c # p
      /\ life[c] = "unborn" /\ parent[c] = None /\ CopyTable(p, c) /\ argv[c] = None
  BY DEF Command, IInv, Jobs
<1>2. /\ table' \in [Procs -> [Fds -> Ends \cup {None}]]
      /\ cloexec' \in [Procs -> SUBSET Fds] /\ life' \in [Procs -> Lives]
      /\ life'[c] = "forked"
      /\ \A q \in Procs \ {c} : table'[q] = table[q] /\ life'[q] = life[q]
  BY <1>1, CopyFacts DEF IInv
<1>3. /\ parent' \in [Procs -> Procs \cup {None}]
      /\ \A q \in Procs : parent'[q] = IF q = c THEN p ELSE parent[q]
  BY DEF Command, IInv, TypeOK
<1>4. TypeOK'
  BY <1>1, <1>2, <1>3 DEF IInv, TypeOK
<1>5. Rightly' /\ Marked' /\ Numbered'
  BY <1>1, <1>3, CopyStep
<1>6. Jobs'
  <2>1. \A q \in Procs : parent'[q] = None => argv'[q] = None
    BY <1>1, <1>3 DEF IInv, Jobs
  <2> SUFFICES ASSUME NEW q \in Procs, NEW u \in Threads
               PROVE  JobRight(q, u)'
    BY <2>1 DEF Jobs
  <2>2. JobRight(q, u) /\ job[q][u] \in Procs \cup {None} /\ q # None
    BY FdAssumption DEF IInv, Jobs, TypeOK
  <2>3. job[q][u] # None => job[q][u] # c
    BY <1>1, <2>2 DEF JobRight
  <2>4. q = c => at[q][u] = "idle"
    BY <1>1, <2>2 DEF JobRight
  <2> QED
    BY <1>1, <1>2, <1>3, <2>2, <2>3, <2>4 DEF JobRight
<1> QED
  BY <1>4, <1>5, <1>6 DEF IInv

\* The file action takes the mark from the child's own end, in the child.
LEMMA FileActionStep ==
    ASSUME IInv, NEW c \in Procs, FileAction(c)
    PROVE  IInv'
<1>1. /\ life[c] = "forked" /\ argv[c] # None /\ argv[c] \in Fds
      /\ UNCHANGED <<table, parent, argv, entry, at, job>>
      /\ life' = [life EXCEPT ![c] = "prepared"]
  BY DEF FileAction, IInv, TypeOK
<1>2. /\ cloexec' \in [Procs -> SUBSET Fds]
      /\ \A q \in Procs, f \in Fds :
           f \in cloexec'[q] <=> f \in cloexec[q] /\ ~(q = c /\ f = argv[c])
  BY DEF FileAction, IInv, TypeOK
<1>3. /\ life' \in [Procs -> Lives]
      /\ \A q \in Procs : life'[q] = IF q = c THEN "prepared" ELSE life[q]
  BY <1>1 DEF IInv, TypeOK, Lives
<1>4. TypeOK'
  BY <1>1, <1>2, <1>3 DEF IInv, TypeOK
<1>5. Rightly'
  <2> SUFFICES ASSUME NEW q \in Procs, NEW f \in Fds, table[q][f] # None
               PROVE  \/ table[q][f] \in Rightful(q)
                      \/ life'[q] \in {"forked", "prepared"} /\ f \in cloexec'[q]
    BY <1>1 DEF Rightly, Rightful
  <2>1. CASE q = c /\ f = argv[c]
    <3>1. table[q][f] = <<c, "child">> /\ <<c, "child">> \in Ends
      BY <1>1, <2>1, EndFacts DEF IInv, Numbered
    <3> QED
      BY <2>1, <3>1 DEF Rightful
  <2>2. CASE ~(q = c /\ f = argv[c])
    BY <1>1, <1>2, <1>3, <2>2 DEF IInv, Rightly
  <2> QED
    BY <2>1, <2>2
<1>6. Marked'
  BY <1>1, <1>2, <1>3 DEF IInv, Marked
<1>7. Numbered'
  BY <1>1, <1>2, <1>3 DEF IInv, Numbered
<1>8. Jobs'
  BY <1>1, JobsStep DEF Lives
<1> QED
  BY <1>4, <1>5, <1>6, <1>7, <1>8 DEF IInv

\* exec closes what is marked, and that is all but the child's own end.
LEMMA ExecStep ==
    ASSUME IInv, NEW c \in Procs, Exec(c)
    PROVE  IInv'
<1>1. /\ life[c] = (IF argv[c] = None THEN "forked" ELSE "prepared")
      /\ UNCHANGED <<cloexec, parent, argv, entry, at, job>>
      /\ life' = [life EXCEPT ![c] = "execed"]
  BY DEF Exec
<1>2. /\ table' \in [Procs -> [Fds -> Ends \cup {None}]]
      /\ \A q \in Procs \ {c} : table'[q] = table[q]
      /\ \A f \in Fds : table'[c][f] = IF f \in cloexec[c] THEN None ELSE table[c][f]
  <2>1. table' = [table EXCEPT ![c] =
                     [f \in Fds |-> IF f \in cloexec[c] THEN None ELSE table[c][f]]]
    BY DEF Exec, IInv, TypeOK
  <2> QED
    BY <2>1 DEF IInv, TypeOK
<1>3. /\ life' \in [Procs -> Lives]
      /\ \A q \in Procs : life'[q] = IF q = c THEN "execed" ELSE life[q]
  BY <1>1 DEF IInv, TypeOK, Lives
<1>4. TypeOK'
  BY <1>1, <1>2, <1>3 DEF IInv, TypeOK
<1>5. Rightly'
  <2> SUFFICES ASSUME NEW q \in Procs, NEW f \in Fds, table'[q][f] # None
               PROVE  \/ table'[q][f] \in Rightful(q)
                      \/ life'[q] \in {"forked", "prepared"} /\ f \in cloexec[q]
    BY <1>1 DEF Rightly, Rightful
  <2> QED
    BY <1>2, <1>3 DEF IInv, Rightly
<1>6. Marked'
  BY <1>1, <1>2, <1>3 DEF IInv, Marked
<1>7. Numbered'
  <2> SUFFICES ASSUME argv[c] # None
               PROVE  table'[c][argv[c]] = <<c, "child">>
    BY <1>1, <1>2, <1>3 DEF IInv, Numbered
  <2>1. life[c] = "prepared" /\ argv[c] \in Fds /\ table[c][argv[c]] = <<c, "child">>
    BY <1>1 DEF IInv, TypeOK, Numbered
  <2>2. argv[c] \notin cloexec[c]
    BY <2>1 DEF IInv, Numbered
  <2> QED
    BY <1>2, <2>1, <2>2
<1>8. Jobs'
  BY <1>1, <1>2, JobsStep DEF Lives
<1> QED
  BY <1>4, <1>5, <1>6, <1>7, <1>8 DEF IInv

\* crossmist_main marks the child's end again.
LEMMA EnterStep ==
    ASSUME IInv, NEW c \in Procs, Enter(c)
    PROVE  IInv'
<1>1. /\ life[c] = "execed" /\ argv[c] # None /\ argv[c] \in Fds
      /\ UNCHANGED <<table, parent, argv, entry, at, job>>
      /\ life' = [life EXCEPT ![c] = "entered"]
  BY DEF Enter, IInv, TypeOK
<1>2. /\ cloexec' \in [Procs -> SUBSET Fds]
      /\ \A q \in Procs, f \in Fds :
           f \in cloexec'[q] <=> f \in cloexec[q] \/ (q = c /\ f = argv[c])
  BY DEF Enter, IInv, TypeOK
<1>3. /\ life' \in [Procs -> Lives]
      /\ \A q \in Procs : life'[q] = IF q = c THEN "entered" ELSE life[q]
  BY <1>1 DEF IInv, TypeOK, Lives
<1>4. TypeOK'
  BY <1>1, <1>2, <1>3 DEF IInv, TypeOK
<1>5. Rightly'
  BY <1>1, <1>2, <1>3 DEF IInv, Rightly, Rightful
<1>6. Marked'
  BY <1>1, <1>2, <1>3 DEF IInv, Marked
<1>7. Numbered'
  <2> SUFFICES ASSUME NEW q \in Procs, life'[q] \notin {"unborn", "dead"}, argv[q] # None
               PROVE  /\ table[q][argv[q]] = <<q, "child">>
                      /\ life'[q] = "prepared" => argv[q] \notin cloexec'[q]
    BY <1>1 DEF Numbered
  <2>1. argv[q] \in Fds
    BY DEF IInv, TypeOK
  <2> QED
    BY <1>1, <1>2, <1>3, <2>1 DEF IInv, Numbered
<1>8. Jobs'
  BY <1>1, JobsStep DEF Lives
<1> QED
  BY <1>4, <1>5, <1>6, <1>7, <1>8 DEF IInv

\* What the child receives is marked as well.
LEMMA RecvStep ==
    ASSUME IInv, NEW c \in Procs, NEW f \in Fds, RecvEntry(c, f)
    PROVE  IInv'
<1> DEFINE e == <<c, "theirs">>
<1>1. e \in Ends /\ e # None /\ e[1] = c /\ e \in Rightful(c)
  BY EndFacts DEF Rightful
<1> HIDE DEF e
<1>2. /\ life[c] = "entered" /\ table[c][f] = None
      /\ UNCHANGED <<parent, argv, at, job>>
      /\ life' = [life EXCEPT ![c] = "running"] /\ entry' = [entry EXCEPT ![c] = "read"]
  BY DEF RecvEntry, Lowest, Open
<1>3. /\ cloexec' \in [Procs -> SUBSET Fds] /\ table' \in [Procs -> [Fds -> Ends \cup {None}]]
      /\ \A q \in Procs \ {c} : table'[q] = table[q] /\ cloexec'[q] = cloexec[q]
      /\ \A g \in Fds : /\ table'[c][g] = IF g = f THEN e ELSE table[c][g]
                        /\ g \in cloexec'[c] <=> g \in cloexec[c] \/ g = f
  BY <1>1 DEF RecvEntry, Install, IInv, TypeOK, e
<1>4. /\ life' \in [Procs -> Lives] /\ entry' \in [Procs -> {"none", "sent", "read"}]
      /\ \A q \in Procs : life'[q] = IF q = c THEN "running" ELSE life[q]
  BY <1>2 DEF IInv, TypeOK, Lives
<1>5. TypeOK'
  BY <1>2, <1>3, <1>4 DEF IInv, TypeOK
<1>6. Rightly'
  <2> SUFFICES ASSUME NEW q \in Procs, NEW g \in Fds, table'[q][g] # None
               PROVE  \/ table'[q][g] \in Rightful(q)
                      \/ life'[q] \in {"forked", "prepared"} /\ g \in cloexec'[q]
    BY <1>2 DEF Rightly, Rightful
  <2> QED
    BY <1>1, <1>2, <1>3, <1>4 DEF IInv, Rightly
<1>7. Marked'
  BY <1>2, <1>3, <1>4 DEF IInv, Marked
<1>8. Numbered'
  <2> SUFFICES ASSUME NEW q \in Procs, life'[q] \notin {"unborn", "dead"}, argv[q] # None
               PROVE  /\ table'[q][argv[q]] = <<q, "child">>
                      /\ life'[q] = "prepared" => argv[q] \notin cloexec'[q]
    BY <1>2 DEF Numbered
  <2>1. argv[q] \in Fds /\ table[q][argv[q]] = <<q, "child">> /\ <<q, "child">> # None
    BY <1>2, <1>4, ChildEnd DEF IInv, TypeOK, Numbered
  <2> QED
    BY <1>2, <1>3, <1>4, <2>1 DEF IInv, Numbered
<1>9. Jobs'
  BY <1>2, <1>3, JobsStep DEF Lives
<1> QED
  BY <1>5, <1>6, <1>7, <1>8, <1>9 DEF IInv

\* The end of a process closes what it had.
LEMMA DieStep ==
    ASSUME IInv, NEW c \in Procs, Die(c)
    PROVE  IInv'
<1>1. /\ life[c] \notin {"unborn", "dead"} /\ UNCHANGED <<cloexec, parent, argv, entry, at, job>>
      /\ life' = [life EXCEPT ![c] = "dead"]
  BY DEF Die
<1>2. /\ table' \in [Procs -> [Fds -> Ends \cup {None}]]
      /\ \A q \in Procs \ {c} : table'[q] = table[q]
      /\ \A f \in Fds : table'[c][f] = None
  BY DEF Die, IInv, TypeOK
<1>3. /\ life' \in [Procs -> Lives]
      /\ \A q \in Procs : life'[q] = IF q = c THEN "dead" ELSE life[q]
  BY <1>1 DEF IInv, TypeOK, Lives
<1>4. TypeOK'
  BY <1>1, <1>2, <1>3 DEF IInv, TypeOK
<1>5. Rightly'
  BY <1>1, <1>2, <1>3 DEF IInv, Rightly, Rightful
<1>6. Marked' /\ Numbered'
  <2>1. Marked'
    BY <1>1, <1>2, <1>3 DEF IInv, Marked
  <2>2. Numbered'
    BY <1>1, <1>2, <1>3 DEF IInv, Numbered
  <2> QED
    BY <2>1, <2>2
<1>7. Jobs'
  BY <1>1, <1>2, JobsStep DEF Lives
<1> QED
  BY <1>4, <1>5, <1>6, <1>7 DEF IInv

\* The calls of a thread.
LEMMA CallStep ==
    ASSUME IInv, NEW p \in Procs, NEW t \in Threads, Call(p, t)
    PROVE  IInv'
<1> DEFINE c == job[p][t]
<1>1. CASE \E x, y \in Fds : Duplex(p, t, x, y) \/ \E d \in Procs : Channel(p, t, d, x, y)
  BY <1>1, DuplexStep, ChannelStep
<1>2. CASE Spawn(p, t)
  BY <1>2, SpawnStep
<1>3. CASE SpawnFails(p, t)
  <2>1. \E place \in Places \ {"idle", "channel", "paired"} : Goto(p, t, place)
    BY <1>3 DEF SpawnFails, Places
  <2> QED
    BY <1>3, <2>1, CloseStep DEF SpawnFails, IInv, TypeOK
<1>4. CASE SendEntry(p, t)
  <2>1. \E place \in Places \ {"idle", "channel", "paired"} : Goto(p, t, place)
    BY <1>4 DEF SendEntry, Places
  <2>2. entry' \in [Procs -> {"none", "sent", "read"}]
    BY <1>4 DEF SendEntry, IInv, TypeOK
  <2> QED
    BY <1>4, <2>1, <2>2, CloseStep DEF SendEntry
<1>5. CASE SendFails(p, t)
  <2>1. \E place \in Places \ {"idle", "channel", "paired"} : Goto(p, t, place)
    BY <1>5 DEF SendFails, Places
  <2> QED
    BY <1>5, <2>1, CloseStep DEF SendFails, IInv, TypeOK
<1>6. CASE SpawnReturns(p, t)
  <2>1. \E place \in Places \ {"idle", "channel", "paired"} : Goto(p, t, place)
    BY <1>6 DEF SpawnReturns, Places
  <2> QED
    BY <1>6, <2>1, CloseStep DEF SpawnReturns, IInv, TypeOK
<1>7. CASE DropChild(p, t)
  <2>1. \E place \in Places \ {"idle", "channel", "paired"} : Goto(p, t, place)
    BY <1>7 DEF DropChild, Places
  <2> QED
    BY <1>7, <2>1, CloseStep DEF DropChild, IInv, TypeOK
<1>8. CASE DropOurs(p, t)
  BY <1>8, CloseStep DEF DropOurs, IInv, TypeOK
<1> QED
  BY <1>1, <1>2, <1>3, <1>4, <1>5, <1>6, <1>7, <1>8 DEF Call

\* However spawns and commands interleave, the tables are as IInv says.
THEOREM Invariance == Spec => []IInv
<1>1. Init => IInv
  <2> SUFFICES ASSUME Init
               PROVE  IInv
    OBVIOUS
  <2>1. TypeOK
    BY FdAssumption DEF Init, TypeOK, Lives, Places
  <2>2. Rightly /\ Marked /\ Numbered
    BY DEF Init, Rightly, Marked, Numbered
  <2>3. Jobs
    BY DEF Init, Jobs, JobRight
  <2> QED
    BY <2>1, <2>2, <2>3 DEF IInv
<1>2. IInv /\ [Next]_vars => IInv'
  <2> SUFFICES ASSUME IInv, [Next]_vars
               PROVE  IInv'
    OBVIOUS
  <2>1. CASE Next
    BY <2>1, CallStep, FileActionStep, ExecStep, EnterStep, DieStep, RecvStep, CommandStep
       DEF Next
  <2>2. CASE UNCHANGED vars
    BY <2>2 DEF vars, IInv, TypeOK, Rightly, Rightful, Marked, Numbered, Jobs, JobRight
  <2> QED
    BY <2>1, <2>2
<1> QED
  BY <1>1, <1>2, PTL DEF Spec

\* No process starts, or goes on, with an end it was not given.
THEOREM NoStrays == Spec => []NoStrayEnds
<1>1. IInv => NoStrayEnds
  BY DEF IInv, Rightly, NoStrayEnds
<1> QED
  BY <1>1, Invariance, PTL

\* A child finds its own end at the number it was told.
THEOREM Numbers == Spec => []RightEnd
<1>1. IInv => RightEnd
  BY DEF IInv, Numbered, RightEnd
<1> QED
  BY <1>1, Invariance, PTL
=============================================================================
