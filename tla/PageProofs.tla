------------------------------ MODULE PageProofs ------------------------------
(***************************************************************************)
(* Proofs about the page, for any number of clicks, calls, jobs, events,   *)
(* requests under way and losses.                                          *)
(*                                                                         *)
(* First its benchmark tab (UiPolling): however calls overlap, no event    *)
(* before the position of a job is missing from its log, and a page that   *)
(* no longer polls shows nothing as running; one call at a time logs each  *)
(* event once and goes on as long as a job it has started runs.            *)
(*                                                                         *)
(* Then the page with its election tabs (UiElections): when answers come   *)
(* in order, only the user changes the selection, and the page never asks  *)
(* for an election that does not exist.                                    *)
(***************************************************************************)
EXTENDS MCPage, FiniteSetTheorems, SequenceTheorems, TLAPS

-----------------------------------------------------------------------------
(* The inductive invariant *)

Seqs == [Jobs -> Nat \union {None}]
Logs == [Jobs -> Seq(Nat) \union {None}]

Asking(c) == Awaits(c, "events") \/ Awaits(c, "events answer")

\* Has an answer with the list of jobs.
Listed(c) == Awaits(c, "list answer") \/ Asking(c)

JobOf(c) == call[c].data[call[c].at].job

TypeOK ==
    /\ scenario \in Scenarios
    /\ created \in Nat
    /\ emitted \in [Jobs -> Nat]
    /\ ended \in [Jobs -> BOOLEAN]
    /\ benchEventSeq \in Seqs
    /\ benchEventLog \in Logs
    /\ benchTimer \in BOOLEAN
    /\ rows \in JobLists
    /\ call \in [Calls -> CallStates \union {None}]
    /\ \A c \in Calls : Asking(c) => call[c].at \in DOMAIN call[c].data
    /\ \A c \in Calls : Awaits(c, "events answer") => call[c].upto \in Nat

\* Whoever is creating a job has been let to.
Posting == {c \in Calls : Awaits(c, "POST")}

Room == created + Cardinality(Posting) =< scenario.jobs

LoggedIn(log, j, s) == log[j] # None /\ \E i \in DOMAIN log[j] : log[j][i] = s

\* A job has a position and a log together, and the events before n are in its log.
Before(log, j, n) == log[j] # None /\ \A s \in 0..(n - 1) : LoggedIn(log, j, s)

Complete(seq, log) ==
    \A j \in Jobs : /\ seq[j] = None <=> log[j] = None
                    /\ seq[j] # None => Before(log, j, seq[j])

Asked(c) == Asking(c) => Before(benchEventLog, JobOf(c), call[c].since)

\* A list is true of what has been created, and of what has ended.
Fresh(c) ==
    Listed(c) => \A i \in DOMAIN call[c].data :
        LET row == call[c].data[i] IN row.job =< created /\ (row.running \/ ended[row.job])

OfCall(c) ==
    /\ call[c] # None => c \in scenario.calls
    /\ Awaits(c, "POST answer") => call[c].job =< created
    /\ Asked(c)
    /\ Fresh(c)

KnownExist == \A j \in Jobs : benchEventSeq[j] # None => j =< created

\* One call at a time: the log of a job holds the events before its position, in order ...
UpTo(n) == [k \in 1..n |-> k - 1]

Exact(seq, log) == \A j \in Jobs : log[j] # None => log[j] = UpTo(seq[j])

Exactly ==
    Undisturbed => /\ Exact(benchEventSeq, benchEventLog)
                   /\ \A c \in Calls : Asking(c) => call[c].since = benchEventSeq[JobOf(c)]

\* ... and its list shows every job that is known and runs.
Shows(items, seq) ==
    \A j \in Jobs : seq[j] # None /\ ~ended[j] => \E i \in DOMAIN items : items[i].job = j /\ items[i].running

Watching == Undisturbed => \A c \in Calls : Listed(c) => Shows(call[c].data, benchEventSeq)

IInv ==
    /\ TypeOK
    /\ Room
    /\ Complete(benchEventSeq, benchEventLog)
    /\ KnownExist
    /\ \A c \in Calls : OfCall(c)
    /\ IdleShowsNothingRunning
    /\ Exactly
    /\ Watching
    /\ UndisturbedWatch

-----------------------------------------------------------------------------
(* Lists, logs and the states of a call *)

LEMMA NoneApart ==
    /\ None \notin Nat
    /\ None \notin Seq(Nat)
    /\ None \notin CallStates
    /\ <<>> \in Seq(Nat)
    /\ None # 0 /\ None # <<>>
<1>1. <<>> \in Seq(Nat)
  BY EmptySeq
<1>2. 0 \in Nat
  OBVIOUS
<1>. QED  BY <1>1, <1>2, NoneAssumption, Zenon

LEMMA Transitive == \A k, m, n \in Nat : k =< m /\ m =< n => k =< n
OBVIOUS

LEMMA JobsAreNumbers == Jobs \subseteq Nat
BY BoundsAssumption DEF Jobs

LEMMA ScenarioFacts ==
    ASSUME TypeOK
    PROVE  /\ scenario.calls \subseteq Calls
           /\ scenario.jobs \in Nat /\ scenario.jobs =< MaxJobs
           /\ scenario.lossy \in BOOLEAN
<1>1. scenario \in [calls : SUBSET Calls, jobs : 0..MaxJobs, events : 0..MaxEvents, lossy : BOOLEAN]
  BY ScenariosAssumption DEF TypeOK
<1>. QED  BY <1>1, BoundsAssumption

LEMMA CallFacts ==
    ASSUME TypeOK, NEW c \in Calls
    PROVE  /\ Awaits(c, "POST answer") => call[c].job \in Jobs
           /\ Listed(c) => /\ call[c].data \in JobLists
                           /\ DOMAIN call[c].data = 1..Len(call[c].data)
                           /\ Len(call[c].data) \in Nat
                           /\ \A i \in DOMAIN call[c].data : call[c].data[i].job \in Jobs
           /\ Asking(c) => /\ call[c].at \in DOMAIN call[c].data
                           /\ JobOf(c) \in Jobs
                           /\ call[c].since \in Nat
           /\ Awaits(c, "events answer") => call[c].upto \in Nat
<1>1. call[c] # None => call[c] \in CallStates
  BY DEF TypeOK
<1>2. Awaits(c, "POST answer") => call[c].job \in Jobs
  BY <1>1 DEF Awaits, CallStates
<1>3. Listed(c) => call[c].data \in JobLists
  BY <1>1 DEF Awaits, Listed, Asking, CallStates
<1>4. Asking(c) => call[c].since \in Nat /\ call[c].at \in DOMAIN call[c].data
  BY <1>1 DEF Awaits, Asking, CallStates, TypeOK
<1>5. ASSUME NEW items \in JobLists
      PROVE  /\ DOMAIN items = 1..Len(items) /\ Len(items) \in Nat
             /\ \A i \in DOMAIN items : items[i].job \in Jobs
  <2>1. DOMAIN items = 1..Len(items) /\ Len(items) \in Nat
    BY LenProperties DEF JobLists
  <2>2. \A i \in 1..Len(items) : items[i] \in [job : Jobs, running : BOOLEAN]
    BY ElementOfSeq DEF JobLists
  <2>. QED  BY <2>1, <2>2
<1>6. Asking(c) => Listed(c)
  BY DEF Listed
<1>. QED  BY <1>2, <1>3, <1>4, <1>5, <1>6 DEF JobOf, TypeOK

\* A call moves on to x, the others stay as they are.
Moves(c, x) == call' = [call EXCEPT ![c] = x]

LEMMA Moved ==
    ASSUME TypeOK, NEW c \in Calls, NEW x, Moves(c, x)
    PROVE  /\ call'[c] = x
           /\ \A w : Awaits(c, w)' <=> x # None /\ x.await = w
           /\ \A d \in Calls : d # c =>
                 /\ call'[d] = call[d]
                 /\ \A w : Awaits(d, w)' <=> Awaits(d, w)
                 /\ Asking(d)' <=> Asking(d)
                 /\ Listed(d)' <=> Listed(d)
                 /\ JobOf(d)' = JobOf(d)
<1>1. call'[c] = x /\ \A d \in Calls : d # c => call'[d] = call[d]
  BY DEF TypeOK, Moves
<1>. QED  BY <1>1 DEF Awaits, Asking, Listed, JobOf

\* The events pulled are put behind those in the log.
Pulled(since, upto) == [k \in 1..(upto - since) |-> since + k - 1]

LEMMA Longer ==
    ASSUME NEW s \in Seq(Nat), NEW since \in Nat, NEW upto \in Nat
    PROVE  LET got == Pulled(since, upto) IN
           /\ s \o got \in Seq(Nat)
           /\ \A i \in DOMAIN s : i \in DOMAIN (s \o got) /\ (s \o got)[i] = s[i]
           /\ \A e \in since..(upto - 1) : \E i \in DOMAIN (s \o got) : (s \o got)[i] = e
           /\ got = <<>> => s \o got = s
           /\ got # <<>> => upto > since
           /\ got # <<>> /\ s = UpTo(since) => s \o got = UpTo(upto)
<1>. DEFINE got == Pulled(since, upto)
            n == IF upto > since THEN upto - since ELSE 0
<1>1. n \in Nat /\ 1..(upto - since) = 1..n /\ \A k \in 1..n : since + k - 1 \in Nat
  OBVIOUS
<1>2. got \in Seq(Nat) /\ Len(got) = n /\ DOMAIN got = 1..n
      /\ \A k \in 1..n : got[k] = since + k - 1
  <2>1. got = [k \in 1..n |-> since + k - 1]
    BY <1>1 DEF Pulled
  <2>2. got \in [1..n -> Nat]
    BY <1>1, <2>1
  <2>3. got \in Seq(Nat)
    BY <1>1, <2>2, SeqDef
  <2>4. DOMAIN got = 1..n /\ DOMAIN got = 1..Len(got) /\ Len(got) \in Nat
    BY <2>1, <2>3, LenProperties
  <2>. HIDE DEF got, n
  <2>5. Len(got) = n
    BY <1>1, <2>4
  <2>. QED  BY <2>1, <2>3, <2>4, <2>5
<1>3. got # <<>> => upto > since
  <2>1. CASE upto > since
    BY <2>1
  <2>2. CASE ~(upto > since)
    BY <1>2, <2>2
  <2>. QED  BY <2>1, <2>2
<1>4. Len(s) \in Nat /\ DOMAIN s = 1..Len(s)
  BY LenProperties
<1>. HIDE DEF got
<1>5. /\ s \o got \in Seq(Nat) /\ Len(s \o got) = Len(s) + n
      /\ DOMAIN (s \o got) = 1..(Len(s) + n)
      /\ \A i \in 1..(Len(s) + n) :
            (s \o got)[i] = IF i =< Len(s) THEN s[i] ELSE got[i - Len(s)]
  <2>1. /\ s \o got \in Seq(Nat)
        /\ Len(s \o got) = Len(s) + Len(got)
        /\ \A i \in 1..(Len(s) + Len(got)) :
              (s \o got)[i] = IF i =< Len(s) THEN s[i] ELSE got[i - Len(s)]
    BY <1>2, ConcatProperties
  <2>2. DOMAIN (s \o got) = 1..Len(s \o got)
    BY <2>1, LenProperties
  <2>. QED  BY <1>2, <2>1, <2>2
<1>6. \A i \in DOMAIN s : i \in DOMAIN (s \o got) /\ (s \o got)[i] = s[i]
  BY <1>1, <1>4, <1>5
<1>7. ASSUME NEW e \in since..(upto - 1)
      PROVE  \E i \in DOMAIN (s \o got) : (s \o got)[i] = e
  <2>1. e - since + 1 \in 1..n /\ got[e - since + 1] = e
    BY <1>2
  <2>2. Len(s) + (e - since + 1) \in DOMAIN (s \o got)
    BY <1>1, <1>4, <1>5, <2>1
  <2>3. (s \o got)[Len(s) + (e - since + 1)] = e
    BY <1>1, <1>4, <1>5, <2>1, <2>2
  <2>. QED  BY <2>2, <2>3
<1>8. got = <<>> => s \o got = s
  BY ConcatEmptySeq
<1>9. ASSUME got # <<>>, s = UpTo(since)
      PROVE  s \o got = UpTo(upto)
  <2>1. /\ UpTo(upto) \in Seq(Nat) /\ Len(UpTo(upto)) = upto
        /\ \A i \in 1..upto : UpTo(upto)[i] = i - 1
    BY DEF UpTo
  <2>2. Len(s) = since /\ \A i \in 1..since : s[i] = i - 1
    BY <1>9 DEF UpTo
  <2>3. upto = since + n
    BY <1>3, <1>9
  <2>4. Len(s \o got) = upto
    BY <1>5, <2>2, <2>3
  <2>5. ASSUME NEW i \in 1..upto
        PROVE  (s \o got)[i] = i - 1
    <3>1. CASE i =< since
      BY <1>5, <2>2, <2>3, <3>1
    <3>2. CASE ~(i =< since)
      <4>1. i - since \in 1..n
        BY <2>3, <3>2
      <4>2. i \in 1..(Len(s) + n) /\ ~(i =< Len(s))
        BY <2>2, <2>3, <3>2
      <4>3. (s \o got)[i] = got[i - since]
        BY <1>5, <2>2, <4>2
      <4>4. got[i - since] = since + (i - since) - 1
        BY <1>2, <4>1
      <4>. QED  BY <4>3, <4>4
    <3>. QED  BY <3>1, <3>2
  <2>. QED  BY <1>5, <2>1, <2>4, <2>5, SeqEqual
<1>. QED  BY <1>3, <1>5, <1>6, <1>7, <1>8, <1>9 DEF got

-----------------------------------------------------------------------------
(* What every step owes *)

\* Nothing gets lost from a log.
Grows(log) ==
    \A j \in Jobs : benchEventLog[j] # None =>
        log[j] # None /\ \A s : LoggedIn(benchEventLog, j, s) => LoggedIn(log, j, s)

SameKnown(seq) == \A j \in Jobs : seq[j] = None <=> benchEventSeq[j] = None

LEMMA StepIInv ==
    ASSUME IInv, NEW c \in scenario.calls, NEW x, Moves(c, x), TypeOK', Room',
           Complete(benchEventSeq, benchEventLog)', KnownExist', Grows(benchEventLog'),
           created =< created', UNCHANGED <<scenario, ended>>,
           OfCall(c)',
           Undisturbed =>
              /\ Exact(benchEventSeq', benchEventLog')
              /\ Asking(c)' => call'[c].since = benchEventSeq'[JobOf(c)']
              /\ Listed(c)' => Shows(call'[c].data, benchEventSeq'),
           x # None \/ (IdleShowsNothingRunning' /\ UndisturbedWatch')
    PROVE  IInv'
<1>0. TypeOK /\ c \in Calls /\ created \in Nat /\ created' \in Nat
  BY ScenarioFacts DEF IInv, TypeOK
<1>1. /\ call'[c] = x
      /\ \A d \in Calls : d # c =>
            /\ call'[d] = call[d]
            /\ \A w : Awaits(d, w)' <=> Awaits(d, w)
            /\ Asking(d)' <=> Asking(d)
            /\ Listed(d)' <=> Listed(d)
            /\ JobOf(d)' = JobOf(d)
  BY <1>0, Moved
<1>2. Undisturbed' <=> Undisturbed
  BY DEF Undisturbed
<1>3. Undisturbed => \A d \in Calls : d # c => ~Asking(d)' /\ ~Listed(d)'
  <2>1. SUFFICES ASSUME Undisturbed, NEW d \in Calls, d # c
                 PROVE  call[d] = None
    BY <1>1 DEF Asking, Listed, Awaits
  <2>2. IsFiniteSet(scenario.calls) /\ Cardinality(scenario.calls) = 1
    <3>1. scenario.calls \in SUBSET Calls
      BY <1>0, ScenarioFacts
    <3>. QED  BY <2>1, <3>1, BoundsAssumption, FS_Subset DEF Undisturbed
  <2>3. PICK e : scenario.calls = {e}
    BY <2>2, FS_Singleton
  <2>4. d \notin scenario.calls
    BY <2>1, <2>3
  <2>. QED  BY <2>1, <2>4 DEF IInv, OfCall
<1>4. ASSUME NEW d \in Calls, d # c
      PROVE  OfCall(d)'
  <2>1. OfCall(d) /\ call'[d] = call[d]
    BY <1>1, <1>4 DEF IInv
  <2>2. Awaits(d, "POST answer")' => call'[d].job =< created'
    <3>1. Awaits(d, "POST answer") => call[d].job \in Nat /\ call[d].job =< created
      BY <1>0, <2>1, CallFacts, JobsAreNumbers DEF OfCall
    <3>2. Awaits(d, "POST answer")' <=> Awaits(d, "POST answer")
      BY <1>1, <1>4
    <3>3. ASSUME Awaits(d, "POST answer")
          PROVE  call[d].job =< created'
      <4>1. created \in Nat /\ created' \in Nat /\ created =< created'
        BY <1>0
      <4>2. call[d].job \in Nat /\ call[d].job =< created
        BY <3>1, <3>3
      <4>. QED  BY <4>1, <4>2
    <3>. QED  BY <2>1, <3>2, <3>3
  <2>3. Asked(d)'
    <3>1. Asking(d) => JobOf(d) \in Jobs /\ Before(benchEventLog, JobOf(d), call[d].since)
      BY <1>0, <2>1, CallFacts DEF OfCall, Asked
    <3>2. Asking(d) => Before(benchEventLog', JobOf(d), call[d].since)
      BY <3>1 DEF Before, Grows
    <3>. QED  BY <1>1, <1>4, <2>1, <3>2 DEF Asked
  <2>4. Fresh(d)'
    <3>1. Listed(d) => \A i \in DOMAIN call[d].data :
             /\ call[d].data[i].job \in Nat
             /\ call[d].data[i].job =< created
             /\ call[d].data[i].running \/ ended[call[d].data[i].job]
      BY <1>0, <2>1, CallFacts, JobsAreNumbers DEF OfCall, Fresh
    <3>. QED  BY <1>0, <1>1, <1>4, <2>1, <3>1 DEF Fresh
  <2>. QED  BY <2>1, <2>2, <2>3, <2>4 DEF OfCall
<1>5. \A d \in Calls : OfCall(d)'
  BY <1>4
<1>6. Exactly'
  BY <1>0, <1>2, <1>3 DEF Exactly
<1>7. Watching'
  <2>1. ASSUME Undisturbed, NEW d \in Calls, Listed(d)'
        PROVE  Shows(call[d].data, benchEventSeq)'
    <3>1. d = c
      BY <1>3, <2>1
    <3>. QED  BY <2>1, <3>1 DEF Shows
  <2>. QED  BY <1>2, <2>1 DEF Watching
<1>8. CASE x # None
  <2>1. ~Idle'
    BY <1>0, <1>1, <1>8 DEF Idle
  <2>2. IdleShowsNothingRunning' /\ UndisturbedWatch'
    BY <2>1 DEF IdleShowsNothingRunning, UndisturbedWatch, StartedJobsAreWatched
  <2>. QED  BY <1>5, <1>6, <1>7, <2>2 DEF IInv
<1>9. CASE x = None
  BY <1>5, <1>6, <1>7, <1>9 DEF IInv
<1>. QED  BY <1>8, <1>9

\* Only a POST takes up room.
LEMMA RoomKept ==
    ASSUME TypeOK, Room, NEW c \in Calls, NEW x, Moves(c, x),
           x # None => x.await # "POST", UNCHANGED <<created, scenario>>
    PROVE  Room'
<1>1. Posting' \subseteq Posting
  <2>1. ~Awaits(c, "POST")' /\ \A d \in Calls : d # c => (Awaits(d, "POST")' <=> Awaits(d, "POST"))
    BY Moved
  <2>. QED  BY <2>1 DEF Posting
<1>2. IsFiniteSet(Posting) /\ Posting' \in SUBSET Posting
  <2>1. Posting \in SUBSET Calls
    BY DEF Posting
  <2>. QED  BY <1>1, <2>1, BoundsAssumption, FS_Subset
<1>3. Cardinality(Posting') =< Cardinality(Posting)
  BY <1>2, FS_Subset
<1>4. Cardinality(Posting) \in Nat /\ Cardinality(Posting') \in Nat
  BY <1>2, FS_Subset, FS_CardinalityType
<1>5. created \in Nat /\ scenario.jobs \in Nat
  BY ScenarioFacts DEF TypeOK
<1>. QED  BY <1>3, <1>4, <1>5 DEF Room

\* A job that is not known yet gets a position and a log.
LEMMA KnownFacts ==
    ASSUME NEW seq \in Seqs, NEW log \in Logs, Complete(seq, log), NEW j \in Jobs
    PROVE  LET seq2 == Known(seq, j, 0)
               log2 == Known(log, j, <<>>)
           IN  /\ seq2 \in Seqs /\ log2 \in Logs
               /\ Complete(seq2, log2)
               /\ seq2[j] \in Nat
               /\ \A i \in Jobs : seq2[i] # None <=> seq[i] # None \/ i = j
               /\ \A i \in Jobs : \A s : LoggedIn(log, i, s) => LoggedIn(log2, i, s)
               /\ \A i \in Jobs : log[i] # None => log2[i] = log[i]
               /\ Exact(seq, log) => Exact(seq2, log2)
<1>. USE NoneApart DEF Seqs, Logs
<1>1. CASE seq[j] = None
  <2>1. log[j] = None
    BY <1>1 DEF Complete
  <2>. DEFINE seq2 == [seq EXCEPT ![j] = 0]
              log2 == [log EXCEPT ![j] = <<>>]
  <2>2. Known(seq, j, 0) = seq2 /\ Known(log, j, <<>>) = log2
    BY <1>1, <2>1 DEF Known
  <2>3. seq2 \in Seqs /\ log2 \in Logs
    OBVIOUS
  <2>4. seq2[j] = 0 /\ log2[j] = <<>> /\ \A i \in Jobs : i # j => seq2[i] = seq[i] /\ log2[i] = log[i]
    OBVIOUS
  <2>. HIDE DEF seq2, log2
  <2>5. Complete(seq2, log2)
    <3>1. Before(log2, j, 0)
      <4>1. log2[j] # None
        BY <2>4
      <4>2. 0..(0 - 1) = {}
        OBVIOUS
      <4>. QED  BY <4>1, <4>2 DEF Before
    <3>2. \A i \in Jobs : i # j => (Before(log, i, seq[i]) <=> Before(log2, i, seq2[i]))
      BY <2>4 DEF Before, LoggedIn
    <3>3. \A i \in Jobs : i # j =>
             /\ seq2[i] = None <=> log2[i] = None
             /\ seq2[i] # None => Before(log2, i, seq2[i])
      BY <2>4, <3>2 DEF Complete
    <3>4. seq2[j] # None /\ log2[j] # None
      BY <2>4
    <3>. QED  BY <2>4, <3>1, <3>3, <3>4 DEF Complete
  <2>6. Exact(seq, log) => Exact(seq2, log2)
    <3>1. UpTo(0) = <<>>
      BY DEF UpTo
    <3>. QED  BY <2>4, <3>1 DEF Exact
  <2>7. \A i \in Jobs : \A s : LoggedIn(log, i, s) => LoggedIn(log2, i, s)
    BY <2>1, <2>4 DEF LoggedIn
  <2>. QED  BY <2>1, <2>2, <2>3, <2>4, <2>5, <2>6, <2>7
<1>2. CASE seq[j] # None
  <2>1. log[j] # None
    BY <1>2 DEF Complete
  <2>. QED  BY <1>2, <2>1 DEF Known
<1>. QED  BY <1>1, <1>2

LEMMA TypesKept ==
    ASSUME TypeOK, NEW c \in Calls, NEW x \in CallStates \union {None}, Moves(c, x),
           x # None /\ x.await \in {"events", "events answer"} => x.at \in DOMAIN x.data,
           x # None /\ x.await = "events answer" => x.upto \in Nat,
           scenario' = scenario, created' \in Nat, UNCHANGED <<emitted, ended>>,
           benchEventSeq' \in Seqs, benchEventLog' \in Logs, benchTimer' \in BOOLEAN,
           rows' \in JobLists
    PROVE  TypeOK'
<1>1. call' \in [Calls -> CallStates \union {None}]
  BY DEF TypeOK, Moves
<1>2. /\ call'[c] = x
      /\ \A w : Awaits(c, w)' <=> x # None /\ x.await = w
      /\ \A d \in Calls : d # c =>
            /\ call'[d] = call[d]
            /\ \A w : Awaits(d, w)' <=> Awaits(d, w)
            /\ Asking(d)' <=> Asking(d)
  BY Moved
<1>3. \A d \in Calls : Asking(d)' => call'[d].at \in DOMAIN call'[d].data
  <2>1. Asking(c)' => call'[c].at \in DOMAIN call'[c].data
    BY <1>2 DEF Asking
  <2>2. ASSUME NEW d \in Calls, d # c, Asking(d)'
        PROVE  call'[d].at \in DOMAIN call'[d].data
    BY <1>2, <2>2 DEF TypeOK
  <2>. QED  BY <2>1, <2>2
<1>4. \A d \in Calls : Awaits(d, "events answer")' => call'[d].upto \in Nat
  <2>1. ASSUME NEW d \in Calls, d # c, Awaits(d, "events answer")'
        PROVE  call'[d].upto \in Nat
    BY <1>2, <2>1 DEF TypeOK
  <2>. QED  BY <1>2, <2>1
<1>5. scenario' \in Scenarios /\ emitted' \in [Jobs -> Nat] /\ ended' \in [Jobs -> BOOLEAN]
  BY DEF TypeOK
<1>. QED  BY <1>1, <1>3, <1>4, <1>5 DEF TypeOK

LEMMA Continues ==
    ASSUME IInv, NEW c \in scenario.calls, Listed(c), NEW i \in Nat, i >= 1,
           NEW seq \in Seqs, NEW log \in Logs, Complete(seq, log), Grows(log), SameKnown(seq),
           Undisturbed => Exact(seq, log),
           Continue(c, call[c].data, i, seq, log), UNCHANGED serverVars
    PROVE  IInv'
<1>. DEFINE items == call[c].data
            j == items[i].job
<1>0. /\ TypeOK /\ Room /\ KnownExist /\ OfCall(c) /\ c \in Calls /\ created \in Nat
      /\ UNCHANGED <<scenario, created, emitted, ended>>
  BY ScenarioFacts DEF IInv, TypeOK, serverVars
<1>1. /\ items \in JobLists /\ DOMAIN items = 1..Len(items) /\ Len(items) \in Nat
      /\ \A k \in DOMAIN items : items[k].job \in Jobs
  BY <1>0, CallFacts
<1>2. \A k \in DOMAIN items : items[k].job =< created /\ (items[k].running \/ ended[items[k].job])
  BY <1>0 DEF OfCall, Fresh
<1>3. Undisturbed => Shows(items, seq)
  <2>1. Undisturbed => Shows(items, benchEventSeq)
    BY <1>0 DEF IInv, Watching
  <2>. QED  BY <2>1 DEF Shows, SameKnown
<1>. HIDE DEF items
<1>4. CASE i =< Len(items)
  <2>. DEFINE seq2 == Known(seq, j, 0)
              log2 == Known(log, j, <<>>)
              x == [await |-> "events", data |-> items, at |-> i, since |-> seq2[j], upto |-> None]
  <2>1. i \in DOMAIN items /\ j \in Jobs
    BY <1>1, <1>4
  <2>2. /\ benchEventSeq' = seq2 /\ benchEventLog' = log2 /\ Moves(c, x)
        /\ UNCHANGED <<benchTimer, rows>>
    BY <1>4 DEF Continue, AskEvents, Moves, items
  <2>3. /\ seq2 \in Seqs /\ log2 \in Logs /\ Complete(seq2, log2) /\ seq2[j] \in Nat
        /\ \A k \in Jobs : seq2[k] # None <=> seq[k] # None \/ k = j
        /\ \A k \in Jobs : \A s : LoggedIn(log, k, s) => LoggedIn(log2, k, s)
        /\ \A k \in Jobs : log[k] # None => log2[k] = log[k]
        /\ Exact(seq, log) => Exact(seq2, log2)
    BY <2>1, KnownFacts
  <2>. HIDE DEF seq2, log2
  <2>4. x \in CallStates /\ x # None
    <3>1. x \in CallStates
      BY <1>1, <2>1, <2>3 DEF CallStates
    <3>. QED  BY <3>1, NoneApart
  <2>5. /\ x.await = "events" /\ x.data = items /\ x.at = i /\ x.since = seq2[j]
    OBVIOUS
  <2>. HIDE DEF x, j
  <2>6. TypeOK'
    <3>1. /\ created' \in Nat /\ scenario' = scenario /\ UNCHANGED <<emitted, ended>>
          /\ benchTimer' \in BOOLEAN /\ rows' \in JobLists
      BY <1>0, <2>2 DEF TypeOK
    <3>. QED  BY <1>0, <2>1, <2>2, <2>3, <2>4, <2>5, <3>1, TypesKept
  <2>7. Room'
    BY <1>0, <2>2, <2>5, RoomKept
  <2>8. Complete(benchEventSeq, benchEventLog)'
    BY <2>2, <2>3 DEF Complete, Before, LoggedIn
  <2>9. KnownExist'
    <3>1. j =< created
      BY <1>2, <2>1 DEF j
    <3>2. \A k \in Jobs : seq[k] # None => k =< created
      BY <1>0 DEF KnownExist, SameKnown
    <3>. QED  BY <1>0, <2>2, <2>3, <3>1, <3>2 DEF KnownExist
  <2>10. Grows(benchEventLog')
    BY <2>2, <2>3 DEF Grows
  <2>11. /\ call'[c] = x /\ Listed(c)' /\ JobOf(c)' = j
         /\ ~Awaits(c, "POST answer")'
    <3>1. call'[c] = x /\ \A w : Awaits(c, w)' <=> x # None /\ x.await = w
      BY <1>0, <2>2, Moved
    <3>2. Awaits(c, "events")'
      BY <2>4, <2>5, <3>1
    <3>3. ~Awaits(c, "POST answer")'
      BY <2>5, <3>1 DEF Awaits
    <3>. QED  BY <2>5, <3>1, <3>2, <3>3 DEF Listed, Asking, JobOf, j
  <2>12. OfCall(c)'
    <3>1. Asked(c)'
      <4>1. Before(log2, j, seq2[j])
        BY <2>1, <2>3, NoneApart DEF Complete
      <4>. QED  BY <2>2, <2>5, <2>11, <4>1 DEF Asked
    <3>2. Fresh(c)'
      BY <1>0, <1>2, <2>5, <2>11 DEF Fresh
    <3>. QED  BY <1>0, <2>11, <3>1, <3>2 DEF OfCall
  <2>13. Undisturbed => /\ Exact(benchEventSeq', benchEventLog')
                        /\ call'[c].since = benchEventSeq'[JobOf(c)']
                        /\ Shows(call'[c].data, benchEventSeq')
    <3>1. Undisturbed => Shows(items, seq2)
      <4>1. ~ended[j] => items[i].job = j /\ items[i].running
        BY <1>2, <2>1 DEF j
      <4>. QED  BY <1>3, <2>1, <2>3, <4>1 DEF Shows
    <3>. QED  BY <2>2, <2>3, <2>5, <2>11, <3>1
  <2>14. created =< created' /\ UNCHANGED <<scenario, ended>>
    BY <1>0
  <2>. QED
    BY <2>2, <2>4, <2>6, <2>7, <2>8, <2>9, <2>10, <2>12, <2>13, <2>14, StepIInv
<1>5. CASE ~(i =< Len(items))
  <2>1. /\ benchEventSeq' = seq /\ benchEventLog' = log /\ rows' = items /\ Moves(c, None)
        /\ benchTimer' = (\E k \in DOMAIN items : items[k].running)
    BY <1>5 DEF Continue, Render, Moves, items
  <2>2. TypeOK'
    <3>1. /\ created' \in Nat /\ scenario' = scenario /\ UNCHANGED <<emitted, ended>>
          /\ benchTimer' \in BOOLEAN
      BY <1>0, <2>1
    <3>. QED  BY <1>0, <1>1, <2>1, <3>1, TypesKept
  <2>3. Room'
    BY <1>0, <2>1, RoomKept
  <2>4. Complete(benchEventSeq, benchEventLog)'
    BY <2>1 DEF Complete, Before, LoggedIn
  <2>5. KnownExist'
    BY <1>0, <2>1 DEF KnownExist, SameKnown
  <2>6. call'[c] = None /\ \A w : ~Awaits(c, w)'
    BY <1>0, <2>1, Moved
  <2>7. OfCall(c)' /\ ~Asking(c)' /\ ~Listed(c)'
    BY <2>6 DEF OfCall, Asked, Fresh, Listed, Asking
  <2>8. IdleShowsNothingRunning'
    BY <2>1 DEF IdleShowsNothingRunning, Idle
  <2>9. UndisturbedWatch'
    <3>1. Undisturbed' <=> Undisturbed
      BY <1>0 DEF Undisturbed
    <3>2. ASSUME Undisturbed, NEW k \in Jobs, seq[k] # None, ~ended[k]
          PROVE  benchTimer'
      BY <1>3, <2>1, <3>2 DEF Shows
    <3>. QED  BY <1>0, <2>1, <3>1, <3>2 DEF UndisturbedWatch, StartedJobsAreWatched, Idle
  <2>10. created =< created' /\ UNCHANGED <<scenario, ended>>
    BY <1>0
  <2>. QED
    BY <2>1, <2>2, <2>3, <2>4, <2>5, <2>7, <2>8, <2>9, <2>10, StepIInv
<1>. QED  BY <1>4, <1>5

-----------------------------------------------------------------------------
(* Steps *)

\* What a call awaits when it moves to x, in the words of the invariant.
LEMMA MovedTo ==
    ASSUME TypeOK, NEW c \in Calls, NEW x, x # None, Moves(c, x)
    PROVE  /\ call'[c] = x
           /\ Awaits(c, "POST answer")' <=> x.await = "POST answer"
           /\ Asking(c)' <=> x.await \in {"events", "events answer"}
           /\ Listed(c)' <=> x.await \in {"list answer", "events", "events answer"}
           /\ JobOf(c)' = x.data[x.at].job
<1>1. call'[c] = x
  BY Moved
<1>. QED  BY <1>1 DEF Awaits, Asking, Listed, JobOf

\* A call that was asking for events has an answer.
LEMMA Answered ==
    ASSUME IInv, NEW c \in Calls, Asking(c), NEW n \in Nat
    PROVE  LET x == [call[c] EXCEPT !.await = "events answer", !.upto = n]
               j == x.data[x.at].job
           IN  /\ x \in CallStates
               /\ x.await = "events answer" /\ x.upto = n
               /\ \A i \in DOMAIN x.data :
                     x.data[i].job =< created /\ (x.data[i].running \/ ended[x.data[i].job])
               /\ Undisturbed => Shows(x.data, benchEventSeq)
               /\ x.at \in DOMAIN x.data
               /\ Before(benchEventLog, j, x.since)
               /\ Undisturbed => x.since = benchEventSeq[j]
<1>. DEFINE x == [call[c] EXCEPT !.await = "events answer", !.upto = n]
<1>1. call[c] \in CallStates /\ call[c].await \in {"events", "events answer"}
  BY DEF IInv, TypeOK, Asking, Awaits
<1>2. /\ x \in CallStates /\ x.await = "events answer" /\ x.upto = n
      /\ x.data = call[c].data /\ x.at = call[c].at /\ x.since = call[c].since
  BY <1>1 DEF CallStates
<1>3. /\ Listed(c) /\ OfCall(c) /\ Exactly /\ Watching
      /\ call[c].at \in DOMAIN call[c].data
  BY DEF IInv, TypeOK, Listed
<1>4. /\ \A i \in DOMAIN call[c].data :
            /\ call[c].data[i].job =< created
            /\ call[c].data[i].running \/ ended[call[c].data[i].job]
      /\ Undisturbed => Shows(call[c].data, benchEventSeq)
  BY <1>3 DEF OfCall, Fresh, Watching
<1>5. /\ Before(benchEventLog, JobOf(c), call[c].since)
      /\ Undisturbed => call[c].since = benchEventSeq[JobOf(c)]
  BY <1>3 DEF OfCall, Asked, Exactly
<1>. HIDE DEF x
<1>6. x.data[x.at].job = JobOf(c)
  BY <1>2 DEF JobOf
<1>. QED  BY <1>2, <1>3, <1>4, <1>5, <1>6 DEF x

\* What is left to show of a step of a call that leaves the logs alone and goes on.
LEMMA GoesOn ==
    ASSUME IInv, NEW c \in scenario.calls, NEW x \in CallStates, Moves(c, x), Room',
           created' \in Nat, created =< created', benchTimer' \in BOOLEAN,
           UNCHANGED <<scenario, emitted, ended, benchEventSeq, benchEventLog, rows>>,
           x.await = "POST answer" => x.job =< created',
           x.await \in {"list answer", "events", "events answer"} =>
              /\ \A i \in DOMAIN x.data :
                    x.data[i].job =< created' /\ (x.data[i].running \/ ended[x.data[i].job])
              /\ Undisturbed => Shows(x.data, benchEventSeq),
           x.await \in {"events", "events answer"} =>
              LET j == x.data[x.at].job IN
              /\ x.at \in DOMAIN x.data
              /\ Before(benchEventLog, j, x.since)
              /\ Undisturbed => x.since = benchEventSeq[j],
           x.await = "events answer" => x.upto \in Nat
    PROVE  IInv'
<1>0. /\ TypeOK /\ c \in Calls /\ x # None /\ created \in Nat
      /\ Complete(benchEventSeq, benchEventLog) /\ KnownExist
  BY ScenarioFacts, NoneApart DEF IInv, TypeOK
<1>1. TypeOK'
  <2>1. /\ benchEventSeq' \in Seqs /\ benchEventLog' \in Logs /\ rows' \in JobLists
    BY <1>0 DEF TypeOK
  <2>. QED  BY <1>0, <2>1, TypesKept
<1>2. /\ call'[c] = x
      /\ Awaits(c, "POST answer")' <=> x.await = "POST answer"
      /\ Asking(c)' <=> x.await \in {"events", "events answer"}
      /\ Listed(c)' <=> x.await \in {"list answer", "events", "events answer"}
      /\ JobOf(c)' = x.data[x.at].job
  BY <1>0, MovedTo
<1>00. benchEventSeq' = benchEventSeq /\ benchEventLog' = benchEventLog
  OBVIOUS
<1>3. Complete(benchEventSeq, benchEventLog)'
  <2>1. Complete(benchEventSeq', benchEventLog')
    BY <1>0, <1>00
  <2>. QED  BY <2>1 DEF Complete, Before, LoggedIn
<1>4. KnownExist'
  <2>1. ASSUME NEW j \in Jobs, j =< created
        PROVE  j =< created'
    <3>1. created \in Nat /\ created' \in Nat /\ created =< created'
      BY <1>0
    <3>2. j \in Nat
      BY JobsAreNumbers
    <3>. QED  BY <2>1, <3>1, <3>2, Transitive
  <2>. QED  BY <1>0, <2>1 DEF KnownExist
<1>5. Grows(benchEventLog')
  BY DEF Grows
<1>6. OfCall(c)'
  <2>1. Asked(c)'
    <3>1. Asking(c)' => Before(benchEventLog', JobOf(c)', call'[c].since)
      BY <1>00, <1>2
    <3>. QED  BY <3>1 DEF Asked, Before, LoggedIn
  <2>2. Fresh(c)'
    BY <1>2 DEF Fresh
  <2>. QED  BY <1>2, <2>1, <2>2 DEF OfCall
<1>7. Undisturbed => /\ Exact(benchEventSeq', benchEventLog')
                     /\ Asking(c)' => call'[c].since = benchEventSeq'[JobOf(c)']
                     /\ Listed(c)' => Shows(call'[c].data, benchEventSeq')
  BY <1>2 DEF IInv, Exactly
<1>. QED  BY <1>0, <1>1, <1>3, <1>4, <1>5, <1>6, <1>7, StepIInv

LEMMA ServerIInv ==
    ASSUME IInv, NEW j \in Jobs, push_event(j) \/ EndJob(j)
    PROVE  IInv'
<1>1. /\ UNCHANGED <<scenario, created, benchEventSeq, benchEventLog, benchTimer, rows, call>>
      /\ emitted' \in [Jobs -> Nat] /\ ended' \in [Jobs -> BOOLEAN]
      /\ \A i \in Jobs : ended[i] => ended'[i]
  <2>1. emitted \in [Jobs -> Nat] /\ ended \in [Jobs -> BOOLEAN]
    BY DEF IInv, TypeOK
  <2>2. CASE push_event(j)
    BY <2>1, <2>2 DEF push_event, logVars
  <2>3. CASE EndJob(j)
    BY <2>1, <2>3 DEF EndJob, logVars
  <2>. QED  BY <2>2, <2>3
<1>2. \A c \in Calls : /\ \A w : Awaits(c, w)' <=> Awaits(c, w)
                       /\ Asking(c)' <=> Asking(c)
                       /\ Listed(c)' <=> Listed(c)
                       /\ JobOf(c)' = JobOf(c)
  BY <1>1 DEF Awaits, Asking, Listed, JobOf
<1>3. TypeOK'
  BY <1>1, <1>2 DEF IInv, TypeOK
<1>4. Room'
  <2>1. Posting' = Posting
    BY <1>2 DEF Posting
  <2>. QED  BY <1>1, <2>1 DEF IInv, Room
<1>5. Complete(benchEventSeq, benchEventLog)' /\ KnownExist'
  BY <1>1 DEF IInv, Complete, Before, LoggedIn, KnownExist
<1>6. ASSUME NEW c \in Calls PROVE OfCall(c)'
  <2>1. TypeOK /\ OfCall(c)
    BY DEF IInv
  <2>2. Fresh(c)'
    <3>1. Listed(c) => \A i \in DOMAIN call[c].data : call[c].data[i].job \in Jobs
      BY <2>1, CallFacts
    <3>. QED  BY <1>1, <1>2, <2>1, <3>1 DEF OfCall, Fresh
  <2>3. Asked(c)'
    BY <1>1, <1>2, <2>1 DEF OfCall, Asked, Before, LoggedIn
  <2>. QED  BY <1>1, <1>2, <2>1, <2>2, <2>3 DEF OfCall
<1>7. (Undisturbed' <=> Undisturbed) /\ (Idle' <=> Idle)
  BY <1>1 DEF Undisturbed, Idle
<1>8. IdleShowsNothingRunning' /\ UndisturbedWatch'
  BY <1>1, <1>7 DEF IInv, IdleShowsNothingRunning, UndisturbedWatch, StartedJobsAreWatched
<1>9. Exactly' /\ Watching'
  BY <1>1, <1>2, <1>7 DEF IInv, Exactly, Exact, Watching, Shows
<1>. QED  BY <1>3, <1>4, <1>5, <1>6, <1>8, <1>9 DEF IInv

\* Who is posting, before and after a step of a call.
LEMMA PostingFacts ==
    ASSUME TypeOK, Room, NEW c \in Calls, NEW x, Moves(c, x)
    PROVE  /\ created \in Nat /\ scenario.jobs \in Nat /\ scenario.jobs =< MaxJobs
           /\ IsFiniteSet(Posting) /\ Cardinality(Posting) \in Nat
           /\ created + Cardinality(Posting) =< scenario.jobs
           /\ x # None /\ x.await = "POST" => Posting' = Posting \union {c}
           /\ ~(x # None /\ x.await = "POST") => Posting' = Posting \ {c}
<1>1. \A d \in Calls : Awaits(d, "POST")' <=> IF d = c THEN x # None /\ x.await = "POST"
                                                      ELSE Awaits(d, "POST")
  BY Moved
<1>2. Posting \in SUBSET Calls
  BY DEF Posting
<1>3. IsFiniteSet(Posting) /\ Cardinality(Posting) \in Nat
  BY <1>2, BoundsAssumption, FS_Subset, FS_CardinalityType
<1>4. created \in Nat /\ scenario.jobs \in Nat /\ scenario.jobs =< MaxJobs
  BY ScenarioFacts DEF TypeOK
<1>5. created + Cardinality(Posting) =< scenario.jobs
  BY DEF Room
<1>6. x # None /\ x.await = "POST" => Posting' = Posting \union {c}
  BY <1>1 DEF Posting
<1>7. ~(x # None /\ x.await = "POST") => Posting' = Posting \ {c}
  BY <1>1 DEF Posting
<1>. QED  BY <1>3, <1>4, <1>5, <1>6, <1>7

LEMMA ServedIInv ==
    ASSUME IInv, NEW c \in scenario.calls, Served(c)
    PROVE  IInv'
<1>0. TypeOK /\ Room /\ OfCall(c) /\ c \in Calls /\ created \in Nat
  BY ScenarioFacts DEF IInv, TypeOK
<1>1. CASE create_benchmark(c)
  <2>. DEFINE x == [await |-> "POST answer", job |-> created + 1]
  <2>1. /\ Moves(c, x) /\ created' = created + 1 /\ Awaits(c, "POST")
        /\ UNCHANGED <<scenario, emitted, ended, benchEventSeq, benchEventLog, benchTimer, rows>>
    BY <1>1 DEF create_benchmark, Moves, logVars
  <2>2. /\ scenario.jobs \in Nat /\ scenario.jobs =< MaxJobs
        /\ IsFiniteSet(Posting) /\ Cardinality(Posting) \in Nat
        /\ created + Cardinality(Posting) =< scenario.jobs
        /\ Posting' = Posting \ {c}
    <3>1. ~(x # None /\ x.await = "POST")
      OBVIOUS
    <3>. HIDE DEF x
    <3>. QED  BY <1>0, <2>1, <3>1, PostingFacts
  <2>3. c \in Posting
    BY <1>0, <2>1 DEF Posting
  <2>4. Cardinality(Posting') = Cardinality(Posting) - 1 /\ Cardinality(Posting') \in Nat
    BY <2>2, <2>3, FS_RemoveElement, FS_CardinalityType
  <2>5. created + 1 \in Jobs
    BY <1>0, <2>2, <2>4, BoundsAssumption DEF Jobs
  <2>6. Room'
    <3>1. scenario' = scenario /\ created' = created + 1
      BY <2>1
    <3>2. created + 1 + Cardinality(Posting') =< scenario.jobs
      BY <1>0, <2>2, <2>4
    <3>. QED  BY <3>1, <3>2 DEF Room
  <2>7. x \in CallStates /\ x.await = "POST answer" /\ x.job = created + 1
    BY <2>5 DEF CallStates
  <2>. HIDE DEF x
  <2>8. created' \in Nat /\ created =< created' /\ x.job =< created'
    <3>1. created + 1 \in Nat /\ created =< created + 1 /\ created + 1 =< created + 1
      BY <1>0
    <3>2. created' = created + 1
      BY <2>1
    <3>. QED  BY <2>7, <3>1, <3>2
  <2>9. benchTimer' \in BOOLEAN
    BY <1>0, <2>1 DEF TypeOK
  <2>. QED  BY <2>1, <2>6, <2>7, <2>8, <2>9, GoesOn
<1>2. CASE list_benchmarks(c)
  <2>. DEFINE row(j) == [job |-> j, running |-> ~ended[j]]
              items == [i \in 1..created |-> row(created + 1 - i)]
              x == [await |-> "list answer", data |-> items]
  <2>1. Moves(c, x) /\ UNCHANGED <<serverVars, logVars, benchTimer, rows>>
    BY <1>2 DEF list_benchmarks, Moves
  <2>2. /\ UNCHANGED <<scenario, created, emitted, ended, benchEventSeq, benchEventLog>>
        /\ UNCHANGED <<benchTimer, rows>>
    BY <2>1 DEF serverVars, logVars
  <2>3. x.await = "list answer" /\ x.data = items
    OBVIOUS
  <2>4. Room'
    <3>. HIDE DEF x
    <3>. QED  BY <1>0, <2>1, <2>2, <2>3, RoomKept
  <2>5. created =< MaxJobs
    <3>1. /\ scenario.jobs \in Nat /\ scenario.jobs =< MaxJobs /\ Cardinality(Posting) \in Nat
          /\ created + Cardinality(Posting) =< scenario.jobs
      BY <1>0, <2>1, PostingFacts
    <3>. QED  BY <1>0, <3>1, BoundsAssumption
  <2>6. \A i \in 1..created : /\ created + 1 - i \in 1..created
                              /\ created + 1 - i \in Jobs
    BY <1>0, <2>5, BoundsAssumption DEF Jobs
  <2>7. /\ DOMAIN items = 1..created
        /\ \A i \in 1..created : /\ items[i] \in [job : Jobs, running : BOOLEAN]
                                 /\ items[i].job = created + 1 - i
                                 /\ items[i].running = ~ended[created + 1 - i]
    BY <1>0, <2>6 DEF TypeOK
  <2>8. x \in CallStates
    <3>1. items \in JobLists
      <4>1. items \in [1..created -> [job : Jobs, running : BOOLEAN]]
        BY <2>6, <1>0 DEF TypeOK
      <4>. HIDE DEF items
      <4>2. created \in Nat
        BY <1>0
      <4>3. items \in UNION {[1..n -> [job : Jobs, running : BOOLEAN]] : n \in Nat}
        BY <4>1, <4>2
      <4>. QED  BY <4>3, SeqDef DEF JobLists
    <3>. QED  BY <3>1 DEF CallStates
  <2>. HIDE DEF items
  <2>9. \A i \in DOMAIN items : items[i].job =< created /\ (items[i].running \/ ended[items[i].job])
    BY <1>0, <2>6, <2>7
  <2>10. Shows(items, benchEventSeq)
    <3>1. ASSUME NEW j \in Jobs, benchEventSeq[j] # None, ~ended[j]
          PROVE  \E i \in DOMAIN items : items[i].job = j /\ items[i].running
      <4>1. j \in Nat /\ j >= 1 /\ j =< created
        BY <3>1, BoundsAssumption DEF IInv, KnownExist, Jobs
      <4>2. created + 1 - j \in 1..created /\ created + 1 - (created + 1 - j) = j
        BY <1>0, <4>1
      <4>. QED  BY <2>7, <3>1, <4>2
    <3>. QED  BY <3>1 DEF Shows
  <2>. HIDE DEF x
  <2>11. /\ created' \in Nat /\ created =< created' /\ created' = created
         /\ benchTimer' \in BOOLEAN
    <3>1. created =< created
      BY <1>0
    <3>. QED  BY <1>0, <2>2, <3>1 DEF TypeOK
  <2>. QED  BY <2>1, <2>2, <2>3, <2>4, <2>8, <2>9, <2>10, <2>11, GoesOn
<1>3. CASE benchmark_events(c)
  <2>. DEFINE x == [call[c] EXCEPT !.await = "events answer", !.upto = emitted[JobOf(c)]]
  <2>1. /\ Moves(c, x) /\ UNCHANGED <<serverVars, logVars, benchTimer, rows>>
        /\ Awaits(c, "events")
    BY <1>0, <1>3 DEF benchmark_events, Moves, TypeOK, JobOf
  <2>2. /\ UNCHANGED <<scenario, created, emitted, ended, benchEventSeq, benchEventLog>>
        /\ UNCHANGED <<benchTimer, rows>>
    BY <2>1 DEF serverVars, logVars
  <2>3. /\ Asking(c) /\ Listed(c) /\ JobOf(c) \in Jobs
        /\ emitted[JobOf(c)] \in Nat
    BY <1>0, <2>1, CallFacts DEF Asking, Listed, TypeOK
  <2>4. /\ x \in CallStates /\ x.await = "events answer" /\ x.upto \in Nat
        /\ \A i \in DOMAIN x.data :
              x.data[i].job =< created /\ (x.data[i].running \/ ended[x.data[i].job])
        /\ Undisturbed => Shows(x.data, benchEventSeq)
        /\ x.at \in DOMAIN x.data
        /\ Before(benchEventLog, x.data[x.at].job, x.since)
        /\ Undisturbed => x.since = benchEventSeq[x.data[x.at].job]
    BY <1>0, <2>3, Answered, ZenonT(60)
  <2>. HIDE DEF x
  <2>5. Room'
    BY <1>0, <2>1, <2>2, <2>4, RoomKept
  <2>6. created' \in Nat /\ created =< created' /\ created' = created
    BY <1>0, <2>2
  <2>7. benchTimer' \in BOOLEAN
    BY <1>0, <2>2 DEF TypeOK
  <2>. QED  BY <2>1, <2>2, <2>4, <2>5, <2>6, <2>7, GoesOn
<1>. QED  BY <1>1, <1>2, <1>3 DEF Served

\* A call that begins: by the tab, the timer or the Start button.
LEMMA BeginIInv ==
    ASSUME IInv, NEW c \in scenario.calls, activateTab(c) \/ TimerFires(c) \/ PressStart(c)
    PROVE  IInv'
<1>0. TypeOK /\ Room /\ c \in Calls /\ created \in Nat
  BY ScenarioFacts DEF IInv, TypeOK
<1>1. UNCHANGED <<scenario, created, emitted, ended, benchEventSeq, benchEventLog, rows>>
  BY DEF activateTab, TimerFires, PressStart, serverVars, logVars
<1>2. benchTimer' \in BOOLEAN /\ created' \in Nat /\ created =< created'
  <2>1. benchTimer' \in BOOLEAN
    BY <1>0 DEF activateTab, TimerFires, PressStart, TypeOK
  <2>2. created' = created /\ created \in Nat /\ created =< created
    BY <1>0, <1>1
  <2>. QED  BY <2>1, <2>2
<1>3. CASE activateTab(c) \/ TimerFires(c)
  <2>. DEFINE x == [await |-> "list"]
  <2>1. Moves(c, x)
    BY <1>3 DEF activateTab, TimerFires, AskList, Moves
  <2>2. x \in CallStates /\ x.await = "list"
    BY DEF CallStates
  <2>. HIDE DEF x
  <2>3. Room'
    BY <1>0, <1>1, <2>1, <2>2, RoomKept
  <2>. QED  BY <1>1, <1>2, <2>1, <2>2, <2>3, GoesOn
<1>4. CASE PressStart(c)
  <2>. DEFINE x == [await |-> "POST"]
  <2>1. Moves(c, x) /\ call[c] = None /\ created + Cardinality(Posting) < scenario.jobs
    BY <1>4 DEF PressStart, Moves, Posting
  <2>2. x \in CallStates /\ x.await = "POST" /\ x # None
    <3>1. x \in CallStates /\ x.await = "POST"
      BY DEF CallStates
    <3>. QED  BY <3>1, NoneApart
  <2>. HIDE DEF x
  <2>3. Room'
    <3>1. /\ scenario.jobs \in Nat /\ IsFiniteSet(Posting) /\ Cardinality(Posting) \in Nat
          /\ Posting' = Posting \union {c}
      BY <1>0, <2>1, <2>2, PostingFacts
    <3>2. c \notin Posting
      BY <2>1 DEF Posting, Awaits
    <3>3. Cardinality(Posting') = Cardinality(Posting) + 1
      BY <3>1, <3>2, FS_AddElement
    <3>4. created + Cardinality(Posting') =< scenario.jobs
      BY <1>0, <2>1, <3>1, <3>3
    <3>. QED  BY <1>1, <3>4 DEF Room
  <2>. QED  BY <1>1, <1>2, <2>1, <2>2, <2>3, GoesOn
<1>. QED  BY <1>3, <1>4

LEMMA ArrivesIInv ==
    ASSUME IInv, NEW c \in scenario.calls, Arrives(c)
    PROVE  IInv'
<1>0. /\ TypeOK /\ Room /\ OfCall(c) /\ c \in Calls /\ created \in Nat
      /\ Complete(benchEventSeq, benchEventLog) /\ KnownExist /\ Exactly
      /\ benchEventSeq \in Seqs /\ benchEventLog \in Logs
  BY ScenarioFacts DEF IInv, TypeOK
<1>1. CASE PostArrives(c)
  <2>. DEFINE j == call[c].job
              seq2 == Known(benchEventSeq, j, 0)
              log2 == Known(benchEventLog, j, <<>>)
              x == [await |-> "list"]
  <2>1. /\ Awaits(c, "POST answer") /\ Moves(c, x)
        /\ benchEventSeq' = seq2 /\ benchEventLog' = log2
        /\ UNCHANGED <<scenario, created, emitted, ended>>
        /\ UNCHANGED <<benchTimer, rows>>
    BY <1>1 DEF PostArrives, AskList, Moves, serverVars
  <2>2. j \in Jobs /\ j =< created
    BY <1>0, <2>1, CallFacts DEF OfCall
  <2>3. /\ seq2 \in Seqs /\ log2 \in Logs /\ Complete(seq2, log2)
        /\ \A k \in Jobs : seq2[k] # None <=> benchEventSeq[k] # None \/ k = j
        /\ \A k \in Jobs : \A s : LoggedIn(benchEventLog, k, s) => LoggedIn(log2, k, s)
        /\ \A k \in Jobs : benchEventLog[k] # None => log2[k] = benchEventLog[k]
        /\ Exact(benchEventSeq, benchEventLog) => Exact(seq2, log2)
    BY <1>0, <2>2, KnownFacts
  <2>4. x \in CallStates /\ x.await = "list" /\ x # None
    <3>1. x \in CallStates /\ x.await = "list"
      BY DEF CallStates
    <3>. QED  BY <3>1, NoneApart
  <2>. HIDE DEF x, seq2, log2
  <2>5. TypeOK'
    <3>1. created' \in Nat /\ benchTimer' \in BOOLEAN /\ rows' \in JobLists
      BY <1>0, <2>1 DEF TypeOK
    <3>. QED  BY <1>0, <2>1, <2>3, <2>4, <3>1, TypesKept
  <2>6. Room'
    BY <1>0, <2>1, <2>4, RoomKept
  <2>7. Complete(benchEventSeq, benchEventLog)'
    BY <2>1, <2>3 DEF Complete, Before, LoggedIn
  <2>8. KnownExist'
    BY <1>0, <2>1, <2>2, <2>3 DEF KnownExist
  <2>9. Grows(benchEventLog')
    BY <2>1, <2>3 DEF Grows
  <2>10. ~Awaits(c, "POST answer")' /\ ~Asking(c)' /\ ~Listed(c)'
    BY <1>0, <2>1, <2>4, MovedTo
  <2>11. OfCall(c)'
    BY <2>1, <2>10 DEF OfCall, Asked, Fresh
  <2>12. Undisturbed => Exact(benchEventSeq', benchEventLog')
    BY <1>0, <2>1, <2>3 DEF Exactly
  <2>13. created =< created' /\ UNCHANGED <<scenario, ended>>
    <3>1. created' = created
      BY <2>1
    <3>2. created =< created
      BY <1>0
    <3>. QED  BY <2>1, <3>1, <3>2
  <2>. QED
    BY <2>1, <2>4, <2>5, <2>6, <2>7, <2>8, <2>9, <2>10, <2>11, <2>12, <2>13, StepIInv
<1>2. CASE ListArrives(c)
  <2>1. Listed(c) /\ Continue(c, call[c].data, 1, benchEventSeq, benchEventLog)
        /\ UNCHANGED serverVars
    BY <1>2 DEF ListArrives, Listed
  <2>2. Grows(benchEventLog) /\ SameKnown(benchEventSeq)
    BY DEF Grows, SameKnown
  <2>3. 1 \in Nat /\ 1 >= 1
    OBVIOUS
  <2>. QED  BY <1>0, <2>1, <2>2, <2>3, Continues DEF Exactly
<1>3. CASE EventsArrive(c)
  <2>. DEFINE j == JobOf(c)
              since == call[c].since
              upto == call[c].upto
              got == Pulled(since, upto)
              s == benchEventLog[j]
              seq2 == IF got = <<>> THEN benchEventSeq ELSE [benchEventSeq EXCEPT ![j] = upto]
              log2 == [benchEventLog EXCEPT ![j] = s \o got]
  <2>1. /\ Awaits(c, "events answer") /\ UNCHANGED serverVars
        /\ Continue(c, call[c].data, call[c].at + 1, seq2, log2)
    BY <1>0, <1>3 DEF EventsArrive, JobOf, Pulled
  <2>2. /\ Asking(c) /\ Listed(c) /\ j \in Jobs /\ since \in Nat /\ upto \in Nat
        /\ call[c].at + 1 \in Nat /\ call[c].at + 1 >= 1
    <3>1. Asking(c) /\ Listed(c)
      BY <2>1 DEF Asking, Listed
    <3>2. /\ j \in Jobs /\ since \in Nat /\ upto \in Nat
          /\ call[c].at \in 1..Len(call[c].data)
      BY <1>0, <2>1, <3>1, CallFacts
    <3>. QED  BY <3>1, <3>2
  <2>3. Before(benchEventLog, j, since)
    BY <1>0, <2>2 DEF OfCall, Asked
  <2>4. s # None /\ s \in Seq(Nat) /\ benchEventSeq[j] # None /\ benchEventSeq[j] \in Nat
    BY <1>0, <2>2, <2>3 DEF Before, Complete, Seqs, Logs
  <2>. HIDE DEF s, since, upto
  <2>5. /\ s \o got \in Seq(Nat)
        /\ \A i \in DOMAIN s : i \in DOMAIN (s \o got) /\ (s \o got)[i] = s[i]
        /\ \A e \in since..(upto - 1) : \E i \in DOMAIN (s \o got) : (s \o got)[i] = e
        /\ got = <<>> => s \o got = s
        /\ got # <<>> => upto > since
        /\ got # <<>> /\ s = UpTo(since) => s \o got = UpTo(upto)
    BY <2>2, <2>4, Longer, ZenonT(60)
  <2>. HIDE DEF got, j
  <2>6. /\ seq2 \in Seqs /\ log2 \in Logs
        /\ log2[j] = s \o got /\ \A k \in Jobs : k # j => log2[k] = benchEventLog[k]
        /\ seq2[j] = IF got = <<>> THEN benchEventSeq[j] ELSE upto
        /\ \A k \in Jobs : k # j => seq2[k] = benchEventSeq[k]
    BY <1>0, <2>2, <2>5 DEF Seqs, Logs
  <2>7. s \o got # None /\ upto # None
    BY <2>2, <2>5, NoneApart
  <2>. HIDE DEF seq2, log2
  <2>8. \A k \in Jobs : \A e : LoggedIn(benchEventLog, k, e) => LoggedIn(log2, k, e)
    <3>1. ASSUME NEW e, LoggedIn(benchEventLog, j, e)
          PROVE  LoggedIn(log2, j, e)
      <4>1. PICK i \in DOMAIN s : s[i] = e
        BY <3>1 DEF LoggedIn, s
      <4>2. i \in DOMAIN (s \o got) /\ (s \o got)[i] = e
        BY <2>5, <4>1
      <4>. QED  BY <2>6, <2>7, <4>2 DEF LoggedIn
    <3>2. ASSUME NEW k \in Jobs, k # j, NEW e, LoggedIn(benchEventLog, k, e)
          PROVE  LoggedIn(log2, k, e)
      BY <2>6, <3>2 DEF LoggedIn
    <3>. QED  BY <3>1, <3>2
  <2>9. Grows(log2)
    BY <2>6, <2>7, <2>8 DEF Grows
  <2>10. SameKnown(seq2)
    BY <2>4, <2>6, <2>7 DEF SameKnown
  <2>11. Complete(seq2, log2)
    <3>1. Before(log2, j, seq2[j])
      <4>1. CASE got = <<>>
        BY <1>0, <2>2, <2>4, <2>6, <2>7, <2>8, <4>1 DEF Complete, Before
      <4>2. CASE got # <<>>
        <5>1. ASSUME NEW e \in 0..(upto - 1) PROVE LoggedIn(log2, j, e)
          <6>1. CASE e \in 0..(since - 1)
            BY <2>2, <2>3, <2>8, <6>1 DEF Before
          <6>2. CASE e \in since..(upto - 1)
            BY <2>5, <2>6, <2>7, <6>2 DEF LoggedIn
          <6>. QED  BY <2>2, <6>1, <6>2
        <5>. QED  BY <2>6, <2>7, <4>2, <5>1 DEF Before
      <4>. QED  BY <4>1, <4>2
    <3>2. ASSUME NEW k \in Jobs, k # j
          PROVE  /\ seq2[k] = None <=> log2[k] = None
                 /\ seq2[k] # None => Before(log2, k, seq2[k])
      BY <1>0, <2>6, <3>2 DEF Complete, Before, LoggedIn
    <3>3. seq2[j] # None /\ log2[j] # None
      BY <2>4, <2>6, <2>7
    <3>. QED  BY <3>1, <3>2, <3>3 DEF Complete
  <2>12. ASSUME Undisturbed PROVE Exact(seq2, log2)
    <3>1. s = UpTo(since) /\ since = benchEventSeq[j]
      BY <1>0, <2>2, <2>4, <2>12 DEF Exactly, Exact, s, since, j
    <3>2. log2[j] = UpTo(seq2[j])
      BY <2>5, <2>6, <3>1
    <3>3. \A k \in Jobs : k # j /\ log2[k] # None => log2[k] = UpTo(seq2[k])
      BY <1>0, <2>6, <2>12 DEF Exactly, Exact
    <3>. QED  BY <3>2, <3>3 DEF Exact
  <2>. QED  BY <2>1, <2>2, <2>6, <2>9, <2>10, <2>11, <2>12, Continues
<1>. QED  BY <1>1, <1>2, <1>3 DEF Arrives

LEMMA FailsIInv ==
    ASSUME IInv, NEW c \in scenario.calls, RequestFails(c)
    PROVE  IInv'
<1>0. /\ TypeOK /\ Room /\ c \in Calls /\ created \in Nat
      /\ Complete(benchEventSeq, benchEventLog) /\ KnownExist
  BY ScenarioFacts DEF IInv, TypeOK
<1>1. /\ UNCHANGED <<scenario, created, emitted, ended, benchEventSeq, benchEventLog>>
      /\ UNCHANGED <<benchTimer, rows>>
      /\ scenario.lossy /\ call[c] # None
  BY DEF RequestFails, serverVars, logVars
<1>2. created' \in Nat /\ created' = created /\ created =< created' /\ benchTimer' \in BOOLEAN
  <2>1. created =< created
    BY <1>0
  <2>2. benchTimer' \in BOOLEAN
    BY <1>0, <1>1 DEF TypeOK
  <2>. QED  BY <1>0, <1>1, <2>1, <2>2
<1>3. CASE call[c].await \in {"events", "events answer"}
  <2>. DEFINE x == [call[c] EXCEPT !.await = "events answer", !.upto = call[c].since]
  <2>1. Moves(c, x) /\ Asking(c)
    BY <1>0, <1>1, <1>3 DEF RequestFails, Moves, TypeOK, Asking, Awaits
  <2>2. call[c].since \in Nat
    BY <1>0, <2>1, CallFacts
  <2>3. /\ x \in CallStates /\ x.await = "events answer" /\ x.upto \in Nat
        /\ \A i \in DOMAIN x.data :
              x.data[i].job =< created /\ (x.data[i].running \/ ended[x.data[i].job])
        /\ Undisturbed => Shows(x.data, benchEventSeq)
        /\ x.at \in DOMAIN x.data
        /\ Before(benchEventLog, x.data[x.at].job, x.since)
        /\ Undisturbed => x.since = benchEventSeq[x.data[x.at].job]
    BY <1>0, <2>1, <2>2, Answered, ZenonT(60)
  <2>. HIDE DEF x
  <2>4. Room'
    BY <1>0, <1>1, <2>1, <2>3, RoomKept
  <2>. QED  BY <1>1, <1>2, <2>1, <2>3, <2>4, GoesOn
<1>4. CASE ~(call[c].await \in {"events", "events answer"})
  <2>1. Moves(c, None)
    BY <1>4 DEF RequestFails, Moves
  <2>2. TypeOK'
    <3>1. benchEventSeq' \in Seqs /\ benchEventLog' \in Logs /\ rows' \in JobLists
      BY <1>0, <1>1 DEF TypeOK
    <3>. QED  BY <1>0, <1>1, <1>2, <2>1, <3>1, TypesKept
  <2>3. Room'
    BY <1>0, <1>1, <2>1, RoomKept
  <2>4. Complete(benchEventSeq, benchEventLog)' /\ KnownExist'
    BY <1>0, <1>1 DEF Complete, Before, LoggedIn, KnownExist
  <2>5. call'[c] = None /\ \A w : ~Awaits(c, w)'
    BY <1>0, <2>1, Moved
  <2>6. OfCall(c)' /\ ~Asking(c)' /\ ~Listed(c)'
    BY <2>5 DEF OfCall, Asked, Fresh, Listed, Asking
  <2>7. ~Undisturbed /\ IdleShowsNothingRunning' /\ UndisturbedWatch'
    BY <1>1 DEF Undisturbed, IdleShowsNothingRunning, UndisturbedWatch
  <2>8. Grows(benchEventLog')
    BY <1>1 DEF Grows
  <2>. QED  BY <1>1, <1>2, <2>1, <2>2, <2>3, <2>4, <2>6, <2>7, <2>8, StepIInv
<1>. QED  BY <1>3, <1>4

LEMMA InitIInv == Init => IInv
<1>. SUFFICES ASSUME Init PROVE IInv
  OBVIOUS
<1>1. /\ \A c \in Calls : call[c] = None
      /\ \A c \in Calls : ~Asking(c) /\ ~Listed(c) /\ \A w : ~Awaits(c, w)
  BY DEF Init, Asking, Listed, Awaits
<1>2. \A j \in Jobs : benchEventSeq[j] = None /\ benchEventLog[j] = None
  BY DEF Init
<1>3. TypeOK
  <2>1. rows \in JobLists
    BY EmptySeq DEF Init, JobLists
  <2>2. /\ benchEventSeq \in Seqs /\ benchEventLog \in Logs
        /\ call \in [Calls -> CallStates \union {None}]
    BY DEF Init, Seqs, Logs
  <2>3. emitted \in [Jobs -> Nat] /\ ended \in [Jobs -> BOOLEAN] /\ created \in Nat
    BY DEF Init
  <2>. QED  BY <1>1, <2>1, <2>2, <2>3 DEF Init, TypeOK
<1>4. Room
  <2>1. Posting = {}
    BY <1>1 DEF Posting
  <2>2. scenario.jobs \in Nat
    BY <1>3, ScenarioFacts
  <2>3. Cardinality(Posting) = 0
    BY <2>1, FS_EmptySet
  <2>. QED  BY <2>2, <2>3 DEF Init, Room
<1>5. Complete(benchEventSeq, benchEventLog) /\ KnownExist
  BY <1>2 DEF Complete, KnownExist
<1>6. \A c \in Calls : OfCall(c)
  BY <1>1 DEF OfCall, Asked, Fresh
<1>7. IdleShowsNothingRunning /\ UndisturbedWatch
  BY <1>2 DEF Init, IdleShowsNothingRunning, UndisturbedWatch, StartedJobsAreWatched
<1>8. Exactly /\ Watching
  BY <1>1, <1>2 DEF Exactly, Exact, Watching
<1>. QED  BY <1>3, <1>4, <1>5, <1>6, <1>7, <1>8 DEF IInv

LEMMA NextIInv == IInv /\ [Next]_vars => IInv'
<1>. SUFFICES ASSUME IInv, [Next]_vars PROVE IInv'
  OBVIOUS
<1>1. ASSUME NEW j \in Jobs, push_event(j) \/ EndJob(j)
      PROVE  IInv'
  BY <1>1, ServerIInv
<1>2. ASSUME NEW c \in scenario.calls,
             \/ activateTab(c) \/ TimerFires(c) \/ PressStart(c)
             \/ Served(c) \/ Arrives(c) \/ RequestFails(c)
      PROVE  IInv'
  BY <1>2, BeginIInv, ServedIInv, ArrivesIInv, FailsIInv
<1>3. CASE UNCHANGED vars
  <2>1. /\ UNCHANGED <<scenario, created, emitted, ended>>
        /\ UNCHANGED <<benchEventSeq, benchEventLog, benchTimer, rows, call>>
    BY <1>3 DEF vars, serverVars, logVars
  <2>2. \A c \in Calls : /\ \A w : Awaits(c, w)' <=> Awaits(c, w)
                         /\ Asking(c)' <=> Asking(c)
                         /\ Listed(c)' <=> Listed(c)
                         /\ JobOf(c)' = JobOf(c)
    BY <2>1 DEF Awaits, Asking, Listed, JobOf
  <2>3. TypeOK'
    BY <2>1, <2>2 DEF IInv, TypeOK
  <2>4. Room'
    <3>1. Posting' = Posting
      BY <2>2 DEF Posting
    <3>. QED  BY <2>1, <3>1 DEF IInv, Room
  <2>5. Complete(benchEventSeq, benchEventLog)' /\ KnownExist'
    BY <2>1 DEF IInv, Complete, Before, LoggedIn, KnownExist
  <2>6. ASSUME NEW c \in Calls PROVE OfCall(c)'
    <3>0. OfCall(c)
      BY DEF IInv
    <3>1. Asked(c)'
      BY <2>1, <2>2, <3>0 DEF OfCall, Asked, Before, LoggedIn
    <3>2. Fresh(c)'
      BY <2>1, <2>2, <3>0 DEF OfCall, Fresh
    <3>3. Awaits(c, "POST answer")' <=> Awaits(c, "POST answer")
      BY <2>2
    <3>. QED  BY <2>1, <3>0, <3>1, <3>2, <3>3 DEF OfCall
  <2>7. IdleShowsNothingRunning' /\ UndisturbedWatch'
    BY <2>1 DEF IInv, IdleShowsNothingRunning, UndisturbedWatch, StartedJobsAreWatched, Idle,
                Undisturbed
  <2>8. Exactly' /\ Watching'
    BY <2>1, <2>2 DEF IInv, Exactly, Exact, Watching, Shows, Undisturbed
  <2>. QED  BY <2>3, <2>4, <2>5, <2>6, <2>7, <2>8 DEF IInv
<1>. QED  BY <1>1, <1>2, <1>3 DEF Next

-----------------------------------------------------------------------------
(* The theorems *)

\* What calls wait for, the lists and events they were given, the positions, the logs and
\* the timer belong together as IInv says in every reachable state.
THEOREM Invariance == Spec => []IInv
BY InitIInv, NextIInv, PTL DEF Spec

\* Every variable of the page and the server keeps to the values the code gives it.
THEOREM TypeCorrect == Spec => []TypeOK
<1>1. IInv => TypeOK
  BY DEF IInv
<1>. QED  BY <1>1, Invariance, PTL

\* However calls of refreshBenchmarks overlap and requests get lost, no event before the
\* position of a job is missing from its log.
THEOREM NothingSkipped == Spec => []NoEventSkipped
<1>1. IInv => NoEventSkipped
  BY DEF IInv, Complete, Before, LoggedIn, Logged, NoEventSkipped
<1>. QED  BY <1>1, Invariance, PTL

\* As long as requests get through, a page on which no call is under way and no timer is set
\* shows no job as running, whichever of the overlapping calls rendered last.
THEOREM IdleIsQuiet == Spec => []IdleShowsNothingRunning
<1>1. IInv => IdleShowsNothingRunning
  BY DEF IInv
<1>. QED  BY <1>1, Invariance, PTL

\* One call at a time, and no request lost: an event is logged once.
THEOREM LoggedOnce == Spec => []UndisturbedLog
<1>1. IInv => UndisturbedLog
  <2>1. SUFFICES ASSUME IInv, Undisturbed, NEW j \in Jobs, benchEventLog[j] # None,
                        NEW i \in DOMAIN benchEventLog[j], NEW k \in DOMAIN benchEventLog[j],
                        benchEventLog[j][i] = benchEventLog[j][k]
                 PROVE  i = k
    BY DEF UndisturbedLog, EachEventOnce
  <2>2. benchEventLog[j] = UpTo(benchEventSeq[j])
    BY <2>1 DEF IInv, Exactly, Exact
  <2>. QED  BY <2>1, <2>2 DEF UpTo
<1>. QED  BY <1>1, Invariance, PTL

\* One call at a time, and no request lost: as long as a job the page has started runs, a
\* call is under way or the timer is set.
THEOREM Watched == Spec => []UndisturbedWatch
<1>1. IInv => UndisturbedWatch
  BY DEF IInv
<1>. QED  BY <1>1, Invariance, PTL

-----------------------------------------------------------------------------
(* The inductive invariant of the election tabs *)

Kinds == {"list", "create", "act", "summary", "board"}
Request == [kind : Kinds, eid : Nat \union {None},
            answer : Nat \union {None} \union [id : Nat, version : Nat]]

\* An answer that counts elections, or numbers a new one.
Counts(c) == c.kind \in {"list", "create"} /\ c.answer # None

\* A request names an election that exists when there are n, and so does its answer.
Sound(c, n) ==
    /\ c \in Request
    /\ c.kind \in {"act", "summary", "board"} => c.eid \in 1..n
    /\ Counts(c) => c.answer \in 0..n
    /\ Counts(c) /\ c.kind = "create" => c.answer \in 1..n

AllSound(cs, n) == cs \in Seq(Request) /\ \A i \in 1..Len(cs) : Sound(cs[i], n)

\* Requests are answered in the order they were sent, and the elections only get more.
Ordered(cs) ==
    \A i, j \in 1..Len(cs) : i < j =>
        /\ cs[j].answer # None => cs[i].answer # None
        /\ Counts(cs[i]) /\ Counts(cs[j]) => cs[i].answer =< cs[j].answer

AtLeast(cs, k) == \A i \in 1..Len(cs) : Counts(cs[i]) => k =< cs[i].answer

ElectionIInv ==
    /\ elections \in Seq(Nat)
    /\ AllSound(calls, Len(elections))
    /\ options \in 0..Len(elections)
    /\ current # None => current \in 1..Len(elections)
    /\ choice # None => choice \in 1..Len(elections)
    /\ in_order => Ordered(calls) /\ AtLeast(calls, options)
    /\ in_order /\ choice # None => AtLeast(calls, choice) /\ current = choice

\* INVARIANT.  The page never asks for an election that does not exist.
RequestsExist ==
    \A i \in DOMAIN calls :
        calls[i].kind \in {"act", "summary", "board"} => calls[i].eid \in DOMAIN elections

-----------------------------------------------------------------------------
(* Requests that are sent, and those that end *)

LEMMA Without ==
    ASSUME NEW S, NEW s \in Seq(S), NEW i \in 1..Len(s)
    PROVE  LET t == E!RemoveAt(s, i)
           IN  /\ t \in Seq(S) /\ Len(s) \in Nat /\ Len(t) = Len(s) - 1
               /\ \A k \in 1..Len(s) - 1 :
                     /\ k < i => t[k] = s[k]
                     /\ i =< k => t[k] = s[k + 1]
<1>. DEFINE a == SubSeq(s, 1, i - 1)
            b == SubSeq(s, i + 1, Len(s))
<1>1. /\ a \in Seq(S) /\ Len(a) = i - 1
      /\ \A k \in 1..i - 1 : a[k] = s[k]
  BY SubSeqProperties
<1>2. /\ b \in Seq(S) /\ Len(b) = Len(s) - i
      /\ \A k \in 1..Len(s) - i : b[k] = s[i + k]
  BY SubSeqProperties
<1>3. E!RemoveAt(s, i) = a \o b
  BY DEF E!RemoveAt
<1>. HIDE DEF a, b
<1>4. /\ a \o b \in Seq(S) /\ Len(s) \in Nat /\ Len(a \o b) = Len(s) - 1
      /\ \A k \in 1..Len(s) - 1 : (a \o b)[k] = IF k =< i - 1 THEN a[k] ELSE b[k - (i - 1)]
  <2>1. /\ a \o b \in Seq(S) /\ Len(a \o b) = Len(a) + Len(b)
        /\ \A k \in 1..Len(a) + Len(b) :
              (a \o b)[k] = IF k =< Len(a) THEN a[k] ELSE b[k - Len(a)]
    <3>1. a \in Seq(S) /\ b \in Seq(S)
      BY <1>1, <1>2
    <3>. QED  BY <3>1, ConcatProperties
  <2>2. Len(s) \in Nat /\ Len(a) + Len(b) = Len(s) - 1
    BY <1>1, <1>2
  <2>. QED  BY <1>1, <2>1, <2>2
<1>5. ASSUME NEW k \in 1..Len(s) - 1
      PROVE  /\ k < i => (a \o b)[k] = s[k]
             /\ i =< k => (a \o b)[k] = s[k + 1]
  <2>1. CASE k < i
    BY <2>1, <1>1, <1>4
  <2>2. CASE i =< k
    <3>1. (a \o b)[k] = b[k - (i - 1)]
      BY <2>2, <1>4
    <3>2. k - (i - 1) \in 1..Len(s) - i /\ i + (k - (i - 1)) = k + 1
      BY <2>2, <1>4
    <3>. QED  BY <2>2, <3>1, <3>2, <1>2
  <2>. QED  BY <2>1, <2>2, <1>4
<1>. QED  BY <1>3, <1>4, <1>5

LEMMA Ends ==
    ASSUME NEW n \in Nat, NEW cs, AllSound(cs, n), NEW i \in 1..Len(cs)
    PROVE  LET t == E!RemoveAt(cs, i)
           IN  /\ AllSound(t, n)
               /\ Ordered(cs) => Ordered(t)
               /\ \A k \in Nat : AtLeast(cs, k) => AtLeast(t, k)
<1>. DEFINE t == E!RemoveAt(cs, i)
            Old(k) == IF k < i THEN k ELSE k + 1
<1>1. /\ cs \in Seq(Request) /\ t \in Seq(Request) /\ Len(cs) \in Nat /\ Len(t) = Len(cs) - 1
      /\ \A k \in 1..Len(cs) - 1 : /\ k < i => t[k] = cs[k]
                                   /\ i =< k => t[k] = cs[k + 1]
  BY Without DEF AllSound
<1>. HIDE DEF t
<1>2. \A k \in 1..Len(t) : Old(k) \in 1..Len(cs) /\ t[k] = cs[Old(k)]
  <2>1. SUFFICES ASSUME NEW k \in 1..Len(t)
                 PROVE  Old(k) \in 1..Len(cs) /\ t[k] = cs[Old(k)]
    OBVIOUS
  <2>2. k \in 1..Len(cs) - 1 /\ k \in Int /\ i \in Int /\ i =< Len(cs) /\ Len(cs) \in Int
    BY <1>1
  <2>3. CASE k < i
    BY <1>1, <2>2, <2>3
  <2>4. CASE ~(k < i)
    <3>1. Old(k) = k + 1 /\ i =< k
      BY <2>2, <2>4
    <3>. QED  BY <1>1, <2>2, <3>1
  <2>. QED  BY <2>3, <2>4
<1>3. \A k, l \in 1..Len(t) : k < l => Old(k) < Old(l)
  BY <1>1
<1>. HIDE DEF Old
<1>4. AllSound(t, n)
  BY <1>1, <1>2 DEF AllSound
<1>5. Ordered(cs) => Ordered(t)
  BY <1>2, <1>3 DEF Ordered
<1>6. \A k \in Nat : AtLeast(cs, k) => AtLeast(t, k)
  BY <1>2 DEF AtLeast
<1>. QED  BY <1>4, <1>5, <1>6 DEF t

LEMMA Sent ==
    ASSUME NEW n \in Nat, NEW cs, AllSound(cs, n), NEW c, Sound(c, n), c.answer = None
    PROVE  LET t == Append(cs, c)
           IN  /\ AllSound(t, n)
               /\ Ordered(cs) => Ordered(t)
               /\ \A k \in Nat : AtLeast(cs, k) => AtLeast(t, k)
<1>. DEFINE t == Append(cs, c)
<1>1. /\ cs \in Seq(Request) /\ c \in Request
      /\ t \in Seq(Request) /\ Len(cs) \in Nat /\ Len(t) = Len(cs) + 1
      /\ \A k \in 1..Len(cs) : t[k] = cs[k]
      /\ t[Len(cs) + 1] = c
  BY DEF AllSound, Sound
<1>2. ~Counts(c)
  BY DEF Counts
<1>. HIDE DEF t
<1>3. \A k \in 1..Len(t) : t[k] = c \/ (k \in 1..Len(cs) /\ t[k] = cs[k])
  BY <1>1
<1>4. AllSound(t, n)
  BY <1>1, <1>3 DEF AllSound
<1>5. Ordered(cs) => Ordered(t)
  <2>1. ASSUME Ordered(cs), NEW k \in 1..Len(t), NEW l \in 1..Len(t), k < l
        PROVE  /\ t[l].answer # None => t[k].answer # None
               /\ Counts(t[k]) /\ Counts(t[l]) => t[k].answer =< t[l].answer
    <3>1. CASE l = Len(cs) + 1
      BY <3>1, <1>1, <1>2
    <3>2. CASE l # Len(cs) + 1
      <4>1. k \in 1..Len(cs) /\ l \in 1..Len(cs) /\ t[k] = cs[k] /\ t[l] = cs[l]
        BY <2>1, <3>2, <1>1
      <4>. QED  BY <2>1, <4>1 DEF Ordered
    <3>. QED  BY <3>1, <3>2
  <2>. QED  BY <2>1 DEF Ordered
<1>6. \A k \in Nat : AtLeast(cs, k) => AtLeast(t, k)
  BY <1>2, <1>3 DEF AtLeast
<1>. QED  BY <1>4, <1>5, <1>6 DEF t


-----------------------------------------------------------------------------
(* Invariance *)

LEMMA InitElections ==
    /\ E!Init => ElectionIInv
    /\ NotLoaded => ElectionIInv
<1>1. ASSUME E!Init PROVE ElectionIInv
  <2>1. /\ elections \in {<<>>, <<0, 0>>} /\ calls = <<E!Call("list", None)>>
        /\ options = 0 /\ current = None /\ choice = None
    BY <1>1 DEF E!Init
  <2>2. elections \in Seq(Nat) /\ Len(elections) \in Nat
    <3>1. <<>> \in Seq(Nat) /\ <<0, 0>> \in Seq(Nat)
      OBVIOUS
    <3>. QED  BY <2>1, <3>1
  <2>3. /\ E!Call("list", None) \in Request /\ ~Counts(E!Call("list", None))
        /\ E!Call("list", None).kind = "list"
    BY DEF E!Call, Request, Kinds, Counts
  <2>. DEFINE c == E!Call("list", None)
  <2>. HIDE DEF c
  <2>4. calls \in Seq(Request) /\ Len(calls) = 1 /\ calls[1] = c
    BY <2>1, <2>3 DEF c
  <2>5. AllSound(calls, Len(elections))
    BY <2>3, <2>4 DEF AllSound, Sound, c
  <2>6. Ordered(calls) /\ AtLeast(calls, options)
    BY <2>3, <2>4 DEF Ordered, AtLeast, c
  <2>. QED  BY <2>1, <2>2, <2>5, <2>6 DEF ElectionIInv
<1>2. ASSUME NotLoaded PROVE ElectionIInv
  <2>1. elections = <<>> /\ calls = <<>> /\ options = 0 /\ current = None /\ choice = None
    BY <1>2 DEF NotLoaded
  <2>2. calls \in Seq(Request) /\ elections \in Seq(Nat) /\ Len(calls) = 0 /\ Len(elections) = 0
    BY <2>1
  <2>. QED  BY <2>1, <2>2 DEF ElectionIInv, AllSound, Ordered, AtLeast
<1>. QED  BY <1>1, <1>2

\* A new request that names an election that exists, or none.
LEMMA NewCall ==
    ASSUME NEW n \in Nat, NEW kind \in Kinds, NEW eid \in Nat \union {None},
           kind \in {"act", "summary", "board"} => eid \in 1..n
    PROVE  LET c == E!Call(kind, eid) IN Sound(c, n) /\ c.answer = None
<1>. DEFINE c == E!Call(kind, eid)
<1>1. c \in Request /\ c.kind = kind /\ c.eid = eid /\ c.answer = None
  BY DEF E!Call, Request
<1>. HIDE DEF c
<1>2. Sound(c, n)
  BY <1>1 DEF Sound, Counts
<1>. QED  BY <1>1, <1>2 DEF c

LEMMA Lengths ==
    ASSUME ElectionIInv
    PROVE  /\ Len(elections) \in Nat /\ options \in Nat /\ options =< Len(elections)
           /\ Len(calls) \in Nat /\ calls \in Seq(Request)
           /\ \A n \in 1..Len(elections) : n \in Nat
BY DEF ElectionIInv, AllSound

\* What is left of the requests when some have ended and others have been sent.
Follows(others, cs) ==
    /\ AllSound(others, Len(elections))
    /\ Ordered(cs) => Ordered(others)
    /\ \A k \in Nat : AtLeast(cs, k) => AtLeast(others, k)

LEMMA FollowsSent ==
    ASSUME ElectionIInv, NEW others, Follows(others, calls),
           NEW kind \in Kinds, NEW eid \in Nat \union {None},
           kind \in {"act", "summary", "board"} => eid \in 1..Len(elections)
    PROVE  Follows(Append(others, E!Call(kind, eid)), calls)
BY Lengths, NewCall, Sent DEF Follows

LEMMA FollowsEnds ==
    ASSUME ElectionIInv, NEW i \in 1..Len(calls)
    PROVE  Follows(E!Finish(i), calls)
BY Lengths, Ends DEF Follows, E!Finish, ElectionIInv

LEMMA FollowsSame ==
    ASSUME ElectionIInv
    PROVE  Follows(calls, calls)
BY DEF Follows, ElectionIInv

\* Steps that change no selection, and no election.
LEMMA SelectionStays ==
    ASSUME ElectionIInv, Follows(calls', calls),
           UNCHANGED <<in_order, elections, options, current, choice>>
    PROVE  ElectionIInv'
<1>1. AllSound(calls', Len(elections'))
  BY DEF Follows
<1>2. in_order => Ordered(calls') /\ AtLeast(calls', options)
  BY Lengths DEF Follows, ElectionIInv
<1>3. in_order /\ choice # None => AtLeast(calls', choice) /\ current = choice
  BY Lengths DEF Follows, ElectionIInv
<1>. QED  BY <1>1, <1>2, <1>3 DEF ElectionIInv, AllSound, Ordered, AtLeast

\* refreshElection: a request for the summary of the election, or the page is cleared.
LEMMA RefreshElection ==
    ASSUME ElectionIInv, NEW others, Follows(others, calls),
           NEW eid, eid # None => eid \in 1..Len(elections),
           E!refreshElection(eid, others)
    PROVE  Follows(calls', calls)
<1>1. CASE eid = None
  BY <1>1 DEF E!refreshElection
<1>2. CASE eid # None
  <2>1. calls' = Append(others, E!Call("summary", eid))
    BY <1>2 DEF E!refreshElection
  <2>. QED  BY <1>2, <2>1, Lengths, FollowsSent DEF Kinds
<1>. QED  BY <1>1, <1>2


LEMMA Widen ==
    ASSUME NEW n \in Nat, NEW m \in Nat, n =< m
    PROVE  /\ \A k \in 1..n : k \in 1..m /\ k \in 0..n
           /\ \A k \in 0..n : k \in 0..m /\ k \in Nat /\ k =< n
OBVIOUS

LEMMA ServeElections ==
    ASSUME ElectionIInv, NEW i \in DOMAIN calls, E!Serve(i)
    PROVE  ElectionIInv'
<1>. DEFINE c == calls[i]
            n == Len(elections)
            more == Len(elections')
<1>0. /\ i \in 1..Len(calls) /\ calls \in Seq(Request) /\ c \in Request /\ Sound(c, n)
      /\ n \in Nat
  BY DEF ElectionIInv, AllSound
<1>1. /\ c.answer = None
      /\ in_order => \A j \in 1..(i - 1) : calls[j].answer # None
      /\ calls' = [calls EXCEPT ![i].answer = E!Response(c)]
      /\ elections' = E!Effect(c)
      /\ UNCHANGED <<in_order, options, current, choice>>
  BY DEF E!Serve, E!page
<1>2. /\ elections' \in Seq(Nat) /\ more \in Nat /\ n =< more
      /\ c.kind = "create" => more = n + 1
  <2>1. CASE c.kind = "create"
    <3>1. elections' = Append(elections, 0)
      BY <1>1, <2>1 DEF E!Effect
    <3>. QED  BY <2>1, <3>1 DEF ElectionIInv
  <2>2. CASE c.kind = "act"
    <3>1. elections' = [elections EXCEPT ![c.eid] = @ + 1] /\ c.eid \in 1..n
      BY <1>0, <1>1, <2>2 DEF E!Effect, Sound
    <3>. QED  BY <2>2, <3>1 DEF ElectionIInv
  <2>3. CASE c.kind \notin {"create", "act"}
    <3>1. elections' = elections
      BY <1>1, <2>3 DEF E!Effect
    <3>. QED  BY <2>3, <3>1 DEF ElectionIInv
  <2>. QED  BY <2>1, <2>2, <2>3
<1>3. /\ c.kind = "list" => E!Response(c) = n
      /\ c.kind = "create" => E!Response(c) = n + 1
  BY DEF E!Response
<1>4. E!Response(c) \in Nat \union {None} \union [id : Nat, version : Nat]
  <2>1. c.kind \in {"act", "summary", "board"} => c.eid \in Nat /\ elections[c.eid] \in Nat
    BY <1>0 DEF Sound, ElectionIInv
  <2>2. c.kind \in Kinds
    BY <1>0 DEF Request
  <2>. QED  BY <2>1, <2>2 DEF E!Response, Kinds
<1>. DEFINE new == [c EXCEPT !.answer = E!Response(c)]
<1>5. new \in Request /\ new.kind = c.kind /\ new.eid = c.eid /\ new.answer = E!Response(c)
  <2>. HIDE DEF c
  <2>1. c \in Request
    BY <1>0
  <2>. QED  BY <2>1, <1>4 DEF Request
<1>6. /\ calls' \in Seq(Request) /\ Len(calls') = Len(calls) /\ calls'[i] = new
      /\ \A j \in 1..Len(calls) : j # i => calls'[j] = calls[j]
  BY <1>0, <1>1, <1>5
<1>. HIDE DEF c, new, n, more
<1>7. /\ n \in Nat /\ more \in Nat
      /\ \A k \in 1..n : k \in 1..more /\ k \in 0..n
      /\ \A k \in 0..n : k \in 0..more /\ k \in Nat /\ k =< n
  BY <1>0, <1>2, Widen
<1>8. Sound(new, more) /\ (Counts(new) => n =< new.answer)
  <2>1. new.kind \in {"act", "summary", "board"} => new.eid \in 1..more
    BY <1>0, <1>5, <1>7 DEF Sound
  <2>2. Counts(new) => new.answer \in 0..more /\ n =< new.answer
    <3>1. Counts(new) => \/ new.kind = "list" /\ new.answer = n
                         \/ new.kind = "create" /\ new.answer = n + 1 /\ more = n + 1
      BY <1>2, <1>3, <1>5, <1>7 DEF Counts
    <3>. QED  BY <3>1, <1>2, <1>7
  <2>3. new.kind = "create" => new.answer \in 1..more
    <3>1. new.kind = "create" => new.answer = n + 1 /\ more = n + 1
      BY <1>2, <1>3, <1>5, <1>7
    <3>. QED  BY <3>1, <1>7
  <2>. QED  BY <2>1, <2>2, <2>3, <1>5 DEF Sound
<1>9. ASSUME NEW j \in 1..Len(calls) PROVE Sound(calls[j], more) /\ Sound(calls[j], n)
  <2>1. Sound(calls[j], n)
    BY DEF ElectionIInv, AllSound, n
  <2>. QED  BY <2>1, <1>7 DEF Sound
<1>10. AllSound(calls', more)
  BY <1>6, <1>8, <1>9 DEF AllSound
<1>11. ASSUME NEW k \in 0..n, AtLeast(calls, k) PROVE AtLeast(calls', k)
  <2>1. Counts(new) => k =< new.answer
    <3>1. Counts(new) => new.answer \in Nat
      BY <1>3, <1>5, <1>7 DEF Counts
    <3>. QED  BY <3>1, <1>8, <1>7
  <2>. QED  BY <2>1, <1>6, <1>11 DEF AtLeast
<1>12. ASSUME in_order, Ordered(calls) PROVE Ordered(calls')
  <2>1. ASSUME NEW j \in 1..Len(calls), NEW k \in 1..Len(calls), j < k
        PROVE  /\ calls'[k].answer # None => calls'[j].answer # None
               /\ Counts(calls'[j]) /\ Counts(calls'[k]) => calls'[j].answer =< calls'[k].answer
    <3>1. CASE k = i
      <4>1. calls'[j] = calls[j] /\ calls[j].answer # None
        BY <2>1, <3>1, <1>1, <1>6, <1>12
      <4>2. Counts(calls[j]) => calls[j].answer \in 0..n
        BY <1>9 DEF Sound
      <4>3. Counts(new) => new.answer \in Nat /\ n =< new.answer
        BY <1>3, <1>5, <1>7, <1>8 DEF Counts
      <4>4. Counts(calls[j]) /\ Counts(new) => calls[j].answer =< new.answer
        BY <4>2, <4>3, <1>7
      <4>. QED  BY <3>1, <4>1, <4>4, <1>6
    <3>2. CASE k # i
      <4>1. calls'[k] = calls[k]
        BY <3>2, <1>6
      <4>2. CASE j = i
        <5>1. calls[k].answer = None
          BY <2>1, <4>2, <1>1, <1>12 DEF Ordered, c
        <5>. QED  BY <4>1, <5>1 DEF Counts
      <4>3. CASE j # i
        BY <2>1, <4>1, <4>3, <1>6, <1>12 DEF Ordered
      <4>. QED  BY <4>2, <4>3
    <3>. QED  BY <3>1, <3>2
  <2>. QED  BY <2>1, <1>6 DEF Ordered
<1>13. /\ options \in 0..n /\ options \in 0..more
       /\ current # None => current \in 1..more
       /\ choice # None => choice \in 0..n /\ choice \in 1..more
  <2>1. /\ options \in 0..n
        /\ current # None => current \in 1..n
        /\ choice # None => choice \in 1..n
    BY DEF ElectionIInv, n
  <2>. QED  BY <2>1, <1>7
<1>14. in_order => Ordered(calls') /\ AtLeast(calls', options)
  BY <1>11, <1>12, <1>13 DEF ElectionIInv
<1>15. in_order /\ choice # None => AtLeast(calls', choice) /\ current = choice
  BY <1>11, <1>13 DEF ElectionIInv
<1>. QED  BY <1>1, <1>2, <1>10, <1>13, <1>14, <1>15 DEF ElectionIInv, more


\* What was answered after the first request counts at least as many elections.
LEMMA FirstEnds ==
    ASSUME ElectionIInv, Ordered(calls), 1 \in 1..Len(calls), Counts(calls[1])
    PROVE  AtLeast(E!Finish(1), calls[1].answer)
<1>1. calls \in Seq(Request) /\ Len(calls) \in Nat
  BY Lengths
<1>. DEFINE t == E!RemoveAt(calls, 1)
<1>2. /\ Len(t) = Len(calls) - 1
      /\ \A k \in 1..Len(calls) - 1 : 1 =< k => t[k] = calls[k + 1]
  BY <1>1, Without
<1>. HIDE DEF t
<1>3. \A k \in 1..Len(t) :
        t[k] = calls[k + 1] /\ k + 1 \in 1..Len(calls) /\ 1 < k + 1
  BY <1>1, <1>2
<1>4. AtLeast(t, calls[1].answer)
  BY <1>3 DEF Ordered, AtLeast
<1>. QED  BY <1>4 DEF t, E!Finish

\* A list that arrives in order counts at least the elections that were known before.
LEMMA ShowListElections ==
    ASSUME ElectionIInv, NEW i \in DOMAIN calls, E!ShowList(i, calls[i].answer),
           in_order => i = 1, calls[i].kind = "list", calls[i].answer # None,
           UNCHANGED <<in_order, elections>>
    PROVE  ElectionIInv'
<1>. DEFINE n == calls[i].answer
<1>1. /\ i \in 1..Len(calls) /\ n \in 0..Len(elections) /\ Counts(calls[i])
      /\ Len(elections) \in Nat
  BY DEF ElectionIInv, AllSound, Sound, Counts
<1>2. /\ options' = n /\ UNCHANGED choice
      /\ current' = IF current # None /\ current <= n THEN current
                    ELSE IF n > 0 THEN n ELSE None
      /\ E!refreshElection(current', E!Finish(i))
  BY DEF E!ShowList
<1>3. in_order => AtLeast(E!Finish(i), n)
  <2>1. ASSUME in_order PROVE AtLeast(E!Finish(i), n)
    <3>1. i = 1 /\ Ordered(calls)
      BY <2>1 DEF ElectionIInv
    <3>. QED  BY <1>1, <3>1, FirstEnds
  <2>. QED  BY <2>1
<1>. HIDE DEF n
<1>4. current' # None => current' \in 1..Len(elections)
  BY <1>1, <1>2 DEF ElectionIInv
<1>5. Follows(E!Finish(i), calls)
  BY <1>1, FollowsEnds
<1>6. /\ AllSound(calls', Len(elections))
      /\ Ordered(E!Finish(i)) => Ordered(calls')
      /\ \A k \in Nat : AtLeast(E!Finish(i), k) => AtLeast(calls', k)
  <2>1. CASE current' = None
    BY <1>2, <1>5, <2>1 DEF E!refreshElection, Follows
  <2>2. CASE current' # None
    <3>1. calls' = Append(E!Finish(i), E!Call("summary", current'))
      BY <1>2, <2>2 DEF E!refreshElection
    <3>2. current' \in Nat
      BY <1>1, <1>4, <2>2
    <3>3. /\ Sound(E!Call("summary", current'), Len(elections))
          /\ E!Call("summary", current').answer = None
      BY <1>1, <1>4, <2>2, <3>2, NewCall DEF Kinds
    <3>. QED  BY <1>1, <1>5, <3>1, <3>3, Sent DEF Follows
  <2>. QED  BY <2>1, <2>2
<1>7. in_order => Ordered(calls') /\ AtLeast(calls', options')
  BY <1>1, <1>2, <1>3, <1>5, <1>6 DEF Follows, ElectionIInv
<1>8. in_order /\ choice # None => AtLeast(calls', choice) /\ current' = choice
  <2>1. ASSUME in_order, choice # None
        PROVE  AtLeast(calls', choice) /\ current' = choice
    <3>1. /\ AtLeast(calls, choice) /\ current = choice /\ choice \in 1..Len(elections)
      BY <2>1 DEF ElectionIInv
    <3>2. choice \in Nat /\ choice =< n
      BY <1>1, <3>1 DEF AtLeast, n
    <3>3. current' = choice
      BY <1>2, <2>1, <3>1, <3>2
    <3>. QED  BY <1>5, <1>6, <3>1, <3>2, <3>3 DEF Follows
  <2>. QED  BY <2>1
<1>. QED  BY <1>1, <1>2, <1>4, <1>6, <1>7, <1>8 DEF ElectionIInv

\* The number of an election just created is not behind any list that is still to come.
LEMMA ShowCreatedElections ==
    ASSUME ElectionIInv, NEW i \in DOMAIN calls, E!ShowCreated(i, calls[i].answer),
           in_order => i = 1, calls[i].kind = "create", calls[i].answer # None,
           UNCHANGED <<in_order, elections>>
    PROVE  ElectionIInv'
<1>. DEFINE n == calls[i].answer
<1>1. /\ i \in 1..Len(calls) /\ n \in 1..Len(elections) /\ Counts(calls[i])
      /\ Len(elections) \in Nat
  BY DEF ElectionIInv, AllSound, Sound, Counts
<1>2. /\ current' = n /\ choice' = n /\ UNCHANGED options
      /\ calls' = Append(E!Finish(i), E!Call("list", None))
  BY DEF E!ShowCreated
<1>3. in_order => AtLeast(E!Finish(i), n)
  <2>1. ASSUME in_order PROVE AtLeast(E!Finish(i), n)
    <3>1. i = 1 /\ Ordered(calls)
      BY <2>1 DEF ElectionIInv
    <3>. QED  BY <1>1, <3>1, FirstEnds
  <2>. QED  BY <2>1
<1>. HIDE DEF n
<1>4. n \in Nat
  BY <1>1
<1>5. Follows(E!Finish(i), calls)
  BY <1>1, FollowsEnds
<1>6. /\ AllSound(calls', Len(elections))
      /\ Ordered(E!Finish(i)) => Ordered(calls')
      /\ \A k \in Nat : AtLeast(E!Finish(i), k) => AtLeast(calls', k)
  <2>1. Sound(E!Call("list", None), Len(elections)) /\ E!Call("list", None).answer = None
    BY <1>1, NewCall DEF Kinds
  <2>. QED  BY <1>1, <1>2, <1>5, <2>1, Sent DEF Follows
<1>7. options \in Nat
  BY Lengths
<1>8. in_order => Ordered(calls') /\ AtLeast(calls', options) /\ AtLeast(calls', n)
  BY <1>3, <1>4, <1>5, <1>6, <1>7 DEF Follows, ElectionIInv
<1>. QED  BY <1>1, <1>2, <1>6, <1>8 DEF ElectionIInv


LEMMA ArriveElections ==
    ASSUME ElectionIInv, NEW i \in DOMAIN calls, E!Arrive(i)
    PROVE  ElectionIInv'
<1>1. /\ calls[i].answer # None /\ (in_order => i = 1)
      /\ i \in 1..Len(calls) /\ UNCHANGED <<in_order, elections>>
  BY Lengths DEF E!Arrive
<1>2. Follows(E!Finish(i), calls)
  BY <1>1, FollowsEnds
<1>3. current # None => current \in 1..Len(elections)
  BY DEF ElectionIInv
<1>4. CASE calls[i].kind = "list" /\ E!ShowList(i, calls[i].answer)
  BY <1>1, <1>4, ShowListElections
<1>5. CASE calls[i].kind = "create" /\ E!ShowCreated(i, calls[i].answer)
  BY <1>1, <1>5, ShowCreatedElections
<1>6. CASE E!ShowSummary(i, calls[i].answer)
  <2>1. \/ calls' = E!Finish(i)
        \/ current # None /\ calls' = Append(E!Finish(i), E!Call("board", current))
    BY <1>6 DEF E!ShowSummary
  <2>2. current # None => Follows(Append(E!Finish(i), E!Call("board", current)), calls)
    BY <1>2, <1>3, Lengths, FollowsSent DEF Kinds
  <2>3. UNCHANGED <<options, current, choice>>
    BY <1>6 DEF E!ShowSummary
  <2>. QED  BY <1>1, <1>2, <2>1, <2>2, <2>3, SelectionStays
<1>7. CASE E!ShowBoard(i, calls[i].answer)
  BY <1>1, <1>2, <1>7, SelectionStays DEF E!ShowBoard
<1>8. CASE E!ActDone(i)
  <2>1. E!refreshElection(current, E!Finish(i)) /\ UNCHANGED <<options, current, choice>>
    BY <1>8 DEF E!ActDone
  <2>2. Follows(calls', calls)
    BY <1>2, <1>3, <2>1, RefreshElection
  <2>. QED  BY <1>1, <2>1, <2>2, SelectionStays
<1>. QED  BY <1>4, <1>5, <1>6, <1>7, <1>8 DEF E!Arrive

LEMMA LoseElections ==
    ASSUME ElectionIInv, NEW i \in DOMAIN calls, E!Lose(i)
    PROVE  ElectionIInv'
<1>1. i \in 1..Len(calls) /\ UNCHANGED <<in_order, elections>>
  BY Lengths DEF E!Lose
<1>2. calls' = E!Finish(i) /\ UNCHANGED <<options, current, choice>>
  <2>1. CASE E!ShowSummary(i, None)
    BY <2>1 DEF E!ShowSummary
  <2>2. CASE calls' = E!Finish(i) /\ UNCHANGED E!page
    BY <2>2 DEF E!page
  <2>. QED  BY <2>1, <2>2 DEF E!Lose
<1>. QED  BY <1>1, <1>2, FollowsEnds, SelectionStays

\* The user selects an election that the selector offers.
LEMMA SelectElections ==
    ASSUME ElectionIInv, E!Select
    PROVE  ElectionIInv'
<1>1. PICK eid \in 1..options :
        /\ current' = eid /\ choice' = eid
        /\ E!refreshElection(eid, calls)
  BY DEF E!Select
<1>2. UNCHANGED <<in_order, elections, options>>
  BY DEF E!Select, E!Click
<1>3. eid \in 1..Len(elections) /\ eid \in Nat /\ eid =< options /\ options \in Nat
  BY Lengths
<1>4. Follows(calls', calls)
  BY <1>1, <1>3, FollowsSame, RefreshElection
<1>5. in_order => Ordered(calls') /\ AtLeast(calls', options)
  BY <1>3, <1>4 DEF Follows, ElectionIInv
<1>6. in_order => AtLeast(calls', eid)
  <2>1. ASSUME in_order, NEW i \in 1..Len(calls'), Counts(calls'[i])
        PROVE  eid =< calls'[i].answer
    <3>1. options =< calls'[i].answer
      BY <1>5, <2>1 DEF AtLeast
    <3>2. calls'[i].answer \in 0..Len(elections)
      BY <1>4, <2>1 DEF Follows, AllSound, Sound
    <3>. QED  BY <1>3, <3>1, <3>2, Lengths
  <2>. QED  BY <2>1 DEF AtLeast
<1>7. AllSound(calls', Len(elections))
  BY <1>4 DEF Follows
<1>. QED  BY <1>1, <1>2, <1>3, <1>5, <1>6, <1>7 DEF ElectionIInv

LEMMA NextElections ==
    ASSUME ElectionIInv, E!Next
    PROVE  ElectionIInv'
<1>1. ASSUME E!Refresh \/ E!Create PROVE ElectionIInv'
  <2>1. PICK kind \in {"list", "create"} :
          /\ calls' = Append(calls, E!Call(kind, None))
          /\ UNCHANGED <<in_order, elections, options, current, choice>>
    BY <1>1 DEF E!Refresh, E!Create, E!Click, E!page
  <2>2. Follows(calls', calls)
    BY <2>1, FollowsSame, FollowsSent DEF Kinds
  <2>. QED  BY <2>1, <2>2, SelectionStays
<1>2. ASSUME E!Act PROVE ElectionIInv'
  <2>1. /\ current # None /\ calls' = Append(calls, E!Call("act", current))
        /\ UNCHANGED <<in_order, elections, options, current, choice>>
    BY <1>2 DEF E!Act, E!Click, E!page
  <2>2. current \in 1..Len(elections) /\ current \in Nat
    BY <2>1, Lengths DEF ElectionIInv
  <2>3. Follows(calls', calls)
    BY <2>1, <2>2, FollowsSame, FollowsSent DEF Kinds
  <2>. QED  BY <2>1, <2>3, SelectionStays
<1>3. ASSUME E!Timer PROVE ElectionIInv'
  <2>1. UNCHANGED <<in_order, elections, options, current, choice>>
    BY <1>3 DEF E!Timer
  <2>2. CASE E!refreshElection(current, calls)
    <3>1. current # None => current \in 1..Len(elections)
      BY DEF ElectionIInv
    <3>2. Follows(calls', calls)
      BY <2>2, <3>1, FollowsSame, RefreshElection
    <3>. QED  BY <2>1, <3>2, SelectionStays
  <2>3. CASE UNCHANGED calls
    BY <2>1, <2>3, FollowsSame, SelectionStays
  <2>. QED  BY <1>3, <2>2, <2>3 DEF E!Timer
<1>. QED
  BY <1>1, <1>2, <1>3, ServeElections, ArriveElections, LoseElections, SelectElections
     DEF E!Next

-----------------------------------------------------------------------------
(* The theorems *)

\* In both tabs the state is as the two inductive invariants say: for the election tabs,
\* that answers in order count more and more elections.
THEOREM PageInvariance == PageSpec => [](IInv /\ ElectionIInv)
<1>1. PageInit => IInv /\ ElectionIInv
  BY InitIInv, InitElections DEF PageInit
<1>2. ASSUME IInv, ElectionIInv, [PageNext]_<<tab, vars, electionVars>>
      PROVE  IInv' /\ ElectionIInv'
  <2>1. IInv'
    <3>1. [Next]_vars
      BY <1>2 DEF PageNext
    <3>. QED  BY <1>2, <3>1, NextIInv
  <2>2. CASE E!Next
    BY <1>2, <2>1, <2>2, NextElections
  <2>3. CASE UNCHANGED electionVars
    <3>1. UNCHANGED <<in_order, elections, calls, current, options, choice>>
      BY <2>3 DEF electionVars
    <3>2. ElectionIInv'
      BY <1>2, <3>1, FollowsSame, SelectionStays
    <3>. QED  BY <2>1, <3>2
  <2>. QED  BY <1>2, <2>2, <2>3 DEF PageNext
<1>. QED  BY <1>1, <1>2, PTL DEF PageSpec

\* When answers come in order, nothing but the user changes the selection: no list of an
\* earlier refresh can miss an election that the page has been told of (app.js:112-137).
THEOREM SelectionKept == PageSpec => []UserChoiceKept
<1>1. ElectionIInv => UserChoiceKept
  BY DEF ElectionIInv, UserChoiceKept, E!UserChoiceKept
<1>. QED  BY <1>1, PageInvariance, PTL

\* Also when answers come in any order and requests fail, the page asks only for elections
\* that exist: summaries, boards and phase buttons are never refused as unknown.
THEOREM NothingUnknown == PageSpec => []RequestsExist
<1>1. ElectionIInv => RequestsExist
  BY DEF ElectionIInv, AllSound, Sound, RequestsExist
<1>. QED  BY <1>1, PageInvariance, PTL
=============================================================================
