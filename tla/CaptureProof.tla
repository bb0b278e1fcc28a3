----------------------------- MODULE CaptureProof -----------------------------
(***************************************************************************)
(* The recorder's part of Capture keeps its invariant, for every scene and *)
(* every value of the constants, while the windows that reach the recorder *)
(* are closed.                                                             *)
(***************************************************************************)
EXTENDS Capture, SequenceTheorems, FiniteSetTheorems, TLAPS

----------------------------------------------------------------------------
(***************************************************************************)
(* Sequences of which only the values are known.                           *)
(***************************************************************************)
LEMMA SeqIsSeq ==
    ASSUME NEW S, NEW s \in Seq(S)
    PROVE  IsSeq(s)
<1>1. s \in [1 .. Len(s) -> Range(s)] /\ Len(s) \in Nat
  BY DEF Range
<1> QED
  BY <1>1 DEF IsSeq

\* Appending a chunk to a queue, or a job to the jobs.
LEMMA AppendIsSeq ==
    ASSUME NEW s, IsSeq(s), NEW x
    PROVE  /\ IsSeq(Append(s, x)) /\ Len(Append(s, x)) = Len(s) + 1 /\ Append(s, x) # s
           /\ DOMAIN Append(s, x) = DOMAIN s \cup {Len(s) + 1}
           /\ \A i \in DOMAIN s : Append(s, x)[i] = s[i]
           /\ Append(s, x)[Len(s) + 1] = x
<1> DEFINE S == Range(s) \cup {x}
<1>1. s \in Seq(S)
  BY DEF IsSeq
<1>2. Append(s, x) \in Seq(S) /\ x \in S
  BY <1>1
<1>3. IsSeq(Append(s, x))
  BY <1>2, SeqIsSeq
<1> QED
  BY <1>1, <1>2, <1>3

\* Taking the first chunk, or the first job.
LEMMA TailIsSeq ==
    ASSUME NEW s, IsSeq(s), s # <<>>
    PROVE  /\ IsSeq(Tail(s)) /\ Len(Tail(s)) = Len(s) - 1 /\ Len(s) \in Nat \ {0}
           /\ DOMAIN Tail(s) = 1 .. Len(s) - 1
           /\ \A i \in 1 .. Len(s) - 1 : Tail(s)[i] = s[i + 1]
<1>1. s \in Seq(Range(s))
  BY DEF IsSeq
<1>2. Tail(s) \in Seq(Range(s))
  BY <1>1
<1>3. IsSeq(Tail(s))
  BY <1>2, SeqIsSeq
<1> QED
  BY <1>1, <1>2, <1>3

\* The queue of a fresh writer, the content of a fresh file.
LEMMA EmptyIsSeq == IsSeq(<<>>) /\ Len(<<>>) = 0 /\ DOMAIN <<>> = {}
  BY DEF IsSeq

\* The chunk the writer holds.
LEMMA SingletonIsSeq ==
    ASSUME NEW x
    PROVE  IsSeq(<<x>>) /\ Len(<<x>>) = 1 /\ <<x>>[1] = x /\ <<x>> # <<>> /\ DOMAIN <<x>> = {1}
<1>1. <<x>> \in Seq({x}) /\ x \in Range(<<x>>)
  BY DEF Range
<1> QED
  BY <1>1 DEF IsSeq

LEMMA SeqFacts ==
    ASSUME NEW s, IsSeq(s)
    PROVE  Len(s) \in Nat /\ DOMAIN s = 1 .. Len(s) /\ (s = <<>> <=> Len(s) = 0)
  BY DEF IsSeq

----------------------------------------------------------------------------
(***************************************************************************)
(* What the operations leave alone, by groups of fields.                   *)
(***************************************************************************)
SameSwitches(r, q) == q.frames = r.frames /\ q.csv = r.csv /\ q.av = r.av /\ q.video = r.video
SameSession(r, q) == q.session = r.session /\ q.sessions = r.sessions
SameFiles(r, q) == q.file = r.file /\ q.disk = r.disk
SameWriter(r, q) == q.segment = r.segment /\ q.audioBytes = r.audioBytes /\ q.writer = r.writer /\ q.drops = r.drops
SameMachine(r, q) ==
    /\ q.prg = r.prg /\ q.snapshot = r.snapshot /\ q.jobs = r.jobs /\ q.playing = r.playing
    /\ q.mixer = r.mixer /\ q.host = r.host

\* Opening a file: the name has an empty file, everything else on disk is as before.
LEMMA OpenSays ==
    ASSUME NEW r, IsRecorder(r), NEW kind \in Files, NEW name \in Names, NEW fmt, NEW q, q = Open(r, kind, name, fmt)
    PROVE  /\ IsRecorder(q)
           /\ SameSwitches(r, q) /\ SameSession(r, q) /\ SameWriter(r, q) /\ SameMachine(r, q)
           /\ q.file = [r.file EXCEPT ![kind] = name]
           /\ DOMAIN q.disk = DOMAIN r.disk \cup {name}
           /\ \A n \in DOMAIN r.disk \ {name} : q.disk[n] = r.disk[n]
           /\ q.disk[name] = [chunks |-> <<>>, fmt |-> fmt, head |-> 0, done |-> FALSE]
<1>1. /\ DOMAIN q = DOMAIN r
      /\ SameSwitches(r, q) /\ SameSession(r, q) /\ SameWriter(r, q) /\ SameMachine(r, q)
      /\ q.file = [r.file EXCEPT ![kind] = name]
  BY DEF Open, IsRecorder, SameSwitches, SameSession, SameWriter, SameMachine
<1>2. q.disk = [n \in DOMAIN r.disk \cup {name} |->
                  IF n = name THEN [chunks |-> <<>>, fmt |-> fmt, head |-> 0, done |-> FALSE] ELSE r.disk[n]]
  BY DEF Open, IsRecorder
<1>3. IsRecorder(q)
  <2>1. IsFile([chunks |-> <<>>, fmt |-> fmt, head |-> 0, done |-> FALSE])
    BY EmptyIsSeq DEF IsFile
  <2>2. \A n \in DOMAIN q.disk : n \in Names /\ IsFile(q.disk[n])
    BY <1>2, <2>1 DEF IsRecorder
  <2> QED
    BY <1>1, <2>2 DEF IsRecorder, SameSwitches, SameSession, SameWriter, SameMachine
<1> QED
  BY <1>1, <1>2, <1>3

\* Finishing a file: its header and its end are written, it has no handle any more.
IsFinished(r, q, kind, head) ==
    LET name == r.file[kind]
    IN  /\ q.file = [r.file EXCEPT ![kind] = None]
        /\ DOMAIN q.disk = DOMAIN r.disk
        /\ \A n \in DOMAIN r.disk \ {name} : q.disk[n] = r.disk[n]
        /\ q.disk[name].chunks = r.disk[name].chunks /\ q.disk[name].fmt = r.disk[name].fmt
        /\ q.disk[name].head = head /\ q.disk[name].done = TRUE

LEMMA CloseSays ==
    ASSUME NEW r, IsRecorder(r), NEW kind \in Files, NEW q, q = Close(r, kind),
           r.file[kind] # None, r.file[kind] \in DOMAIN r.disk
    PROVE  /\ IsRecorder(q) /\ IsFinished(r, q, kind, r.disk[r.file[kind]].head)
           /\ SameSwitches(r, q) /\ SameSession(r, q) /\ SameWriter(r, q) /\ SameMachine(r, q)
<1> DEFINE name == r.file[kind]
           ended == [r.disk[name] EXCEPT !.done = TRUE]
<1>1. /\ DOMAIN q = DOMAIN r
      /\ SameSwitches(r, q) /\ SameSession(r, q) /\ SameWriter(r, q) /\ SameMachine(r, q)
      /\ q.file = [r.file EXCEPT ![kind] = None]
  BY DEF Close, IsRecorder, SameSwitches, SameSession, SameWriter, SameMachine
<1>2. q.disk = [r.disk EXCEPT ![name] = ended]
  BY DEF Close, IsRecorder
<1>3. IsFile(r.disk[name])
  BY DEF IsRecorder
<1>4. IsFile(ended) /\ ended.chunks = r.disk[name].chunks /\ ended.fmt = r.disk[name].fmt
      /\ ended.head = r.disk[name].head /\ ended.done = TRUE
  BY <1>3 DEF IsFile
<1>5. DOMAIN q.disk = DOMAIN r.disk /\ q.disk[name] = ended /\ \A n \in DOMAIN r.disk \ {name} : q.disk[n] = r.disk[n]
  BY <1>2
<1>6. \A n \in DOMAIN q.disk : n \in Names /\ IsFile(q.disk[n])
  BY <1>4, <1>5 DEF IsRecorder
<1>7. IsRecorder(q)
  BY <1>1, <1>6 DEF IsRecorder, SameSwitches, SameSession, SameWriter, SameMachine
<1> QED
  BY <1>1, <1>4, <1>5, <1>7 DEF IsFinished

LEMMA FinishSays ==
    ASSUME NEW r, IsRecorder(r), NEW kind \in Files, NEW count \in Nat, NEW q, q = Finish(r, kind, count),
           r.file[kind] # None, r.file[kind] \in DOMAIN r.disk
    PROVE  /\ IsRecorder(q) /\ IsFinished(r, q, kind, InHeader(kind, count))
           /\ SameSwitches(r, q) /\ SameSession(r, q) /\ SameWriter(r, q) /\ SameMachine(r, q)
<1> DEFINE name == r.file[kind]
           head == InHeader(kind, count)
           written == [r.disk[name] EXCEPT !.head = head]
           headed == [r EXCEPT !.disk[name].head = head]
<1>0. head \in Nat
  BY RecorderAssumption DEF InHeader
<1> HIDE DEF head
<1>1. /\ DOMAIN headed = DOMAIN r /\ headed.file = r.file
      /\ SameSwitches(r, headed) /\ SameSession(r, headed) /\ SameWriter(r, headed) /\ SameMachine(r, headed)
  BY DEF IsRecorder, SameSwitches, SameSession, SameWriter, SameMachine
<1>2. headed.disk = [r.disk EXCEPT ![name] = written]
  BY DEF IsRecorder
<1>3. IsFile(r.disk[name])
  BY DEF IsRecorder
<1>4. IsFile(written) /\ written.chunks = r.disk[name].chunks /\ written.fmt = r.disk[name].fmt
      /\ written.head = head
  BY <1>0, <1>3 DEF IsFile
<1>5. /\ DOMAIN headed.disk = DOMAIN r.disk /\ headed.disk[name] = written
      /\ \A n \in DOMAIN r.disk \ {name} : headed.disk[n] = r.disk[n]
  BY <1>2
<1>6. \A n \in DOMAIN headed.disk : n \in Names /\ IsFile(headed.disk[n])
  BY <1>4, <1>5 DEF IsRecorder
<1>7. IsRecorder(headed)
  BY <1>1, <1>6 DEF IsRecorder, SameSwitches, SameSession, SameWriter, SameMachine
<1>8. q = Close(headed, kind)
  BY DEF Finish, head
<1> HIDE DEF headed, written
<1>9. /\ IsRecorder(q) /\ IsFinished(headed, q, kind, headed.disk[name].head)
      /\ SameSwitches(headed, q) /\ SameSession(headed, q) /\ SameWriter(headed, q) /\ SameMachine(headed, q)
  BY <1>1, <1>5, <1>7, <1>8, CloseSays
<1>10. IsFinished(r, q, kind, InHeader(kind, count))
  BY <1>1, <1>4, <1>5, <1>9 DEF IsFinished, head
<1> QED
  BY <1>1, <1>9, <1>10 DEF SameSwitches, SameSession, SameWriter, SameMachine

\* What OpenSays says of the files.
IsOpened(r, q, kind, name, fmt) ==
    /\ q.file = [r.file EXCEPT ![kind] = name]
    /\ DOMAIN q.disk = DOMAIN r.disk \cup {name}
    /\ \A n \in DOMAIN r.disk \ {name} : q.disk[n] = r.disk[n]
    /\ q.disk[name] = [chunks |-> <<>>, fmt |-> fmt, head |-> 0, done |-> FALSE]

\* Giving a file up.
LEMMA ForgetSays ==
    ASSUME NEW r, IsRecorder(r), NEW kind \in Files, NEW q, q = Forget(r, kind)
    PROVE  /\ IsRecorder(q)
           /\ SameSwitches(r, q) /\ SameSession(r, q) /\ SameWriter(r, q) /\ SameMachine(r, q)
           /\ q.file = [r.file EXCEPT ![kind] = None] /\ q.disk = r.disk
<1>1. /\ DOMAIN q = DOMAIN r
      /\ SameSwitches(r, q) /\ SameSession(r, q) /\ SameWriter(r, q) /\ SameMachine(r, q)
      /\ q.file = [r.file EXCEPT ![kind] = None] /\ q.disk = r.disk
  BY DEF Forget, IsRecorder, SameSwitches, SameSession, SameWriter, SameMachine
<1>2. IsRecorder(q)
  BY <1>1 DEF IsRecorder, SameSwitches, SameSession, SameWriter, SameMachine
<1> QED
  BY <1>1, <1>2

----------------------------------------------------------------------------
(***************************************************************************)
(* Sessions and the CSV files.                                             *)
(***************************************************************************)
\* A session is the one there is, or a new one.
SessionStep(r, q) ==
    \/ SameSession(r, q)
    \/ r.session = 0 /\ q.session = r.sessions + 1 /\ q.sessions = r.sessions + 1

LEMMA EnsureSays ==
    ASSUME NEW r, IsRecorder(r), NEW n, NEW o \in EnsureSession(r, TRUE, n)
    PROVE  /\ IsRecorder(o.r) /\ SessionStep(r, o.r)
           /\ SameSwitches(r, o.r) /\ SameFiles(r, o.r) /\ SameWriter(r, o.r) /\ SameMachine(r, o.r)
<1>1. CASE o.r = r
  BY <1>1 DEF SessionStep, SameSession, SameSwitches, SameFiles, SameWriter, SameMachine
<1>2. CASE r.session = 0 /\ o.r = [r EXCEPT !.session = r.sessions + 1, !.sessions = r.sessions + 1]
  <2> DEFINE q == o.r
  <2>1. /\ DOMAIN q = DOMAIN r /\ q.session = r.sessions + 1 /\ q.sessions = r.sessions + 1
        /\ SameSwitches(r, q) /\ SameFiles(r, q) /\ SameWriter(r, q) /\ SameMachine(r, q)
    BY <1>2 DEF IsRecorder, SameSwitches, SameFiles, SameWriter, SameMachine
  <2>2. q.session \in Nat /\ q.sessions \in Nat
    BY <2>1 DEF IsRecorder
  <2> HIDE DEF q
  <2>3. IsRecorder(q)
    BY <2>1, <2>2 DEF IsRecorder, SameSwitches, SameFiles, SameWriter, SameMachine
  <2> QED
    BY <1>2, <2>1, <2>3 DEF SessionStep, q
<1> QED
  BY <1>1, <1>2 DEF EnsureSession, Working, Failing

\* Starting a CSV file: the session is there or it is not, the file is opened or it is not.
LEMMA StartCsvSays ==
    ASSUME NEW r, IsRecorder(r), NEW kind \in {"obs", "net", "sync"}, NEW n, NEW o \in StartCsv(r, kind, TRUE, n)
    PROVE  /\ IsRecorder(o.r) /\ SessionStep(r, o.r)
           /\ SameSwitches(r, o.r) /\ SameWriter(r, o.r) /\ SameMachine(r, o.r)
           /\ \/ SameFiles(r, o.r)
              \/ /\ r.file[kind] = None /\ o.r.session # 0
                 /\ IsOpened(r, o.r, kind, Name(o.r, kind), None)
<1> DEFINE q == o.r
<1>1. CASE o \in Working(r)
  BY <1>1 DEF Working, SessionStep, SameSession, SameSwitches, SameFiles, SameWriter, SameMachine
<1>2. CASE r.file[kind] = None
  <2>0. PICK e \in EnsureSession(r, TRUE, n) :
          o \in IF e.r.session = 0 THEN {e}
                ELSE {[r |-> Open(e.r, kind, Name(e.r, kind), None), cost |-> e.cost]}
                     \cup {[r |-> x.r, cost |-> e.cost + x.cost] : x \in Failing(e.r, n - e.cost)}
    BY <1>2 DEF StartCsv
  <2>1. \/ q = e.r
        \/ e.r.session # 0 /\ q = Open(e.r, kind, Name(e.r, kind), None)
    <3>1. \A x \in Failing(e.r, n - e.cost) : x.r = e.r
      BY DEF Failing
    <3> QED
      BY <2>0, <3>1
  <2>2. /\ IsRecorder(e.r) /\ SessionStep(r, e.r)
        /\ SameSwitches(r, e.r) /\ SameFiles(r, e.r) /\ SameWriter(r, e.r) /\ SameMachine(r, e.r)
    BY EnsureSays
  <2>3. CASE q = e.r
    BY <2>2, <2>3
  <2>4. CASE e.r.session # 0 /\ q = Open(e.r, kind, Name(e.r, kind), None)
    <3>1. kind \in Files /\ Name(e.r, kind) \in Names
      BY <2>2 DEF Files, Names, Name, IsRecorder
    <3> HIDE DEF q
    <3>2. /\ IsRecorder(q) /\ IsOpened(e.r, q, kind, Name(e.r, kind), None)
          /\ SameSwitches(e.r, q) /\ SameSession(e.r, q) /\ SameWriter(e.r, q) /\ SameMachine(e.r, q)
      BY <2>2, <2>4, <3>1, OpenSays DEF IsOpened
    <3>3. Name(q, kind) = Name(e.r, kind) /\ SessionStep(r, q) /\ q.session # 0
      BY <2>2, <2>4, <3>2 DEF Name, SameSession, SessionStep
    <3>4. IsOpened(r, q, kind, Name(q, kind), None)
      BY <2>2, <3>2, <3>3 DEF IsOpened, SameFiles
    <3> QED
      BY <1>2, <2>2, <3>2, <3>3, <3>4 DEF SameSwitches, SameWriter, SameMachine, q
  <2> QED
    BY <2>1, <2>3, <2>4
<1> QED
  BY <1>1, <1>2 DEF StartCsv

----------------------------------------------------------------------------
(***************************************************************************)
(* What FilesOnlyGrow asks of one step, and the parts of the invariant     *)
(* that speak of the recorder alone.                                       *)
(***************************************************************************)
Grows(r, q) ==
    \A name \in DOMAIN r.disk :
       /\ name \in DOMAIN q.disk
       /\ IF r.disk[name].done THEN q.disk[name] = r.disk[name]
          ELSE IsPrefix(r.disk[name].chunks, q.disk[name].chunks)

RecordInv(r) == DiskInv(r) /\ WriterInv(r) /\ CountInv(r) /\ ContentInv(r)

LEMMA PrefixOfItself ==
    ASSUME NEW s, IsSeq(s)
    PROVE  IsPrefix(s, s)
  BY DEF IsPrefix, IsSeq

LEMMA PrefixOfAppend ==
    ASSUME NEW s, IsSeq(s), NEW x
    PROVE  IsPrefix(s, Append(s, x))
<1>1. /\ Len(Append(s, x)) = Len(s) + 1 /\ Len(s) \in Nat
      /\ \A i \in 1 .. Len(s) : Append(s, x)[i] = s[i]
  BY AppendIsSeq, SeqFacts
<1>2. SubSeq(s, 1, Len(s)) = SubSeq(Append(s, x), 1, Len(s))
  BY <1>1, AppendIsSeq DEF IsSeq
<1> QED
  BY <1>1, <1>2 DEF IsPrefix

LEMMA UnchangedGrows ==
    ASSUME NEW r, IsRecorder(r), NEW q, q.disk = r.disk
    PROVE  Grows(r, q)
  BY PrefixOfItself DEF Grows, IsRecorder, IsFile

LEMMA SameContent ==
    ASSUME NEW r, WriterInv(r), CountInv(r), ContentInv(r), NEW q, SameFiles(r, q), SameWriter(r, q)
    PROVE  WriterInv(q) /\ CountInv(q) /\ ContentInv(q)
<1>1. WriterInv(q)
  BY DEF WriterInv, SameFiles, SameWriter, Pipeline
<1>2. CountInv(q)
  BY DEF CountInv, SameFiles, SameWriter, Pipeline
<1>3. ContentInv(q)
  BY DEF ContentInv, SameFiles
<1> QED
  BY <1>1, <1>2, <1>3

\* A step that leaves files and writer alone.
LEMMA SameRecord ==
    ASSUME NEW r, RecordInv(r), NEW q, SameSession(r, q), SameFiles(r, q), SameWriter(r, q)
    PROVE  RecordInv(q)
<1>1. DiskInv(q)
  BY DEF RecordInv, DiskInv, SameSession, SameFiles, SameWriter, Handle, Name, Segment, VideoDone
<1>2. WriterInv(q) /\ CountInv(q) /\ ContentInv(q)
  BY SameContent DEF RecordInv
<1> QED
  BY <1>1, <1>2 DEF RecordInv

\* A new session has no files yet.
LEMMA SessionRecord ==
    ASSUME NEW r, IsRecorder(r), RecordInv(r), NEW q, SessionStep(r, q), SameFiles(r, q), SameWriter(r, q)
    PROVE  RecordInv(q)
<1>1. DiskInv(q)
  <2>1. CASE SameSession(r, q)
    BY <2>1 DEF RecordInv, DiskInv, SameSession, SameFiles, SameWriter, Handle, Name, Segment, VideoDone
  <2>2. CASE r.session = 0 /\ q.session = r.sessions + 1 /\ q.sessions = r.sessions + 1
    <3>1. \A f \in Files : q.file[f] = None
      BY <2>2 DEF RecordInv, DiskInv, SameFiles
    <3>2. r.sessions \in Nat /\ \A n \in DOMAIN r.disk : n[1] \in Nat /\ n[1] <= r.sessions
      BY DEF RecordInv, DiskInv, IsRecorder, Names
    <3>3. \A n \in DOMAIN q.disk : n[1] <= q.sessions
      BY <2>2, <3>2 DEF SameFiles
    <3>4. "video" \in Files
      BY DEF Files
    <3> QED
      BY <2>2, <3>1, <3>2, <3>3, <3>4 DEF RecordInv, DiskInv, SameFiles, SameWriter, VideoDone
  <2> QED
    BY <2>1, <2>2 DEF SessionStep
<1>2. WriterInv(q) /\ CountInv(q) /\ ContentInv(q)
  BY SameContent DEF RecordInv
<1> QED
  BY <1>1, <1>2 DEF RecordInv

LEMMA NameFacts ==
    ASSUME NEW n \in Names
    PROVE  n # None /\ n[1] \in Nat /\ n[2] \in Files /\ n[3] \in Nat /\ n = <<n[1], n[2], n[3]>>
<1>1. n # None
  BY RecorderAssumption
<1> QED
  BY <1>1 DEF Names

\* Opening a CSV file: its name is new, or an empty file has it.
LEMMA CsvRecord ==
    ASSUME NEW r, IsRecorder(r), RecordInv(r), NEW q, IsRecorder(q), NEW kind \in {"obs", "net", "sync"},
           SessionStep(r, q), SameWriter(r, q), r.file[kind] = None, q.session # 0,
           IsOpened(r, q, kind, Name(q, kind), None), ~Finished(r, kind)
    PROVE  RecordInv(q) /\ Grows(r, q)
<1> DEFINE name == Name(q, kind)
<1>0. /\ kind \in Files /\ name[1] = q.session /\ name[2] = kind /\ name \in Names /\ name # None
      /\ r.session \in Nat /\ r.sessions \in Nat /\ q.session \in Nat /\ q.sessions \in Nat
  <2>1. r.session \in Nat /\ r.sessions \in Nat /\ q.session \in Nat /\ q.sessions \in Nat
    BY DEF IsRecorder
  <2>2. kind \in Files /\ name = <<q.session, kind, 0>>
    BY DEF Files, Name
  <2>3. name \in Names
    BY <2>1, <2>2 DEF Names
  <2> QED
    BY <2>1, <2>2, <2>3, NameFacts
<1>a. \A n \in DOMAIN r.disk : n \in Names /\ n # None /\ n[1] \in Nat /\ n[2] \in Files /\ IsFile(r.disk[n])
  BY NameFacts DEF IsRecorder
<1>1. name \in DOMAIN r.disk => ~r.disk[name].done /\ r.disk[name].chunks = <<>>
  <2>1. CASE SameSession(r, q)
    <3>1. name = Name(r, kind)
      BY <2>1 DEF Name, SameSession
    <3> QED
      BY <1>0, <2>1, <3>1 DEF Finished, SameSession, RecordInv, DiskInv
  <2>2. CASE r.session = 0 /\ q.session = r.sessions + 1 /\ q.sessions = r.sessions + 1
    <3>1. name \notin DOMAIN r.disk
      BY <1>0, <1>a, <2>2 DEF RecordInv, DiskInv
    <3> QED
      BY <3>1
  <2> QED
    BY <2>1, <2>2 DEF SessionStep
<1>2. \A s : VideoDone(r, s) => VideoDone(q, s)
  BY <1>0 DEF VideoDone, IsOpened
<1>3. \A f \in Files \ {kind} : q.file[f] = r.file[f]
  BY <1>0 DEF IsOpened, IsRecorder
<1>4. q.file[kind] = name
  BY <1>0 DEF IsOpened, IsRecorder
<1>5. q.session <= q.sessions /\ r.sessions <= q.sessions
  BY <1>0 DEF SessionStep, SameSession, RecordInv, DiskInv
<1>6. \A f \in Files : q.file[f] # None =>
          /\ q.session # 0 /\ q.file[f] = Handle(q, f)
          /\ q.file[f] \in DOMAIN q.disk /\ ~q.disk[q.file[f]].done
  <2> SUFFICES ASSUME NEW f \in Files, q.file[f] # None
               PROVE  /\ q.file[f] = Handle(q, f)
                      /\ q.file[f] \in DOMAIN q.disk /\ ~q.disk[q.file[f]].done
    OBVIOUS
  <2>1. CASE f = kind
    BY <1>0, <1>4, <2>1 DEF Handle, IsOpened
  <2>2. CASE f # kind
    <3>1. r.session # 0 /\ r.file[f] = Handle(r, f) /\ r.file[f] \in DOMAIN r.disk /\ ~r.disk[r.file[f]].done
      BY <1>3, <2>2 DEF RecordInv, DiskInv
    <3>2. SameSession(r, q) /\ Handle(q, f) = Handle(r, f)
      BY <3>1 DEF SessionStep, SameSession, Handle, SameWriter, Segment, Name
    <3>3. r.file[f] # name
      BY <1>0, <2>2, <3>1 DEF Handle, Segment, Name
    <3> QED
      BY <1>3, <2>2, <3>1, <3>2, <3>3 DEF IsOpened
  <2> QED
    BY <2>1, <2>2
<1>7. DiskInv(q)
  <2> SUFFICES ASSUME NEW n \in DOMAIN q.disk
               PROVE  /\ n[1] <= q.sessions
                      /\ ~q.disk[n].done => q.disk[n].chunks = <<>> \/ q.file[n[2]] = n
                      /\ n[2] \notin {"video", "audio"} => q.disk[n].chunks = <<>>
                      /\ n[2] = "audio" /\ q.disk[n].done => VideoDone(q, n[1])
                      /\ n[2] = "video" /\ n[3] > 0 => VideoDone(q, n[1])
                      /\ q.file["video"] # None /\ n[1] = q.session /\ n[2] = "video" => n[3] <= q.segment.index
    BY <1>5, <1>6 DEF DiskInv
  <2>1. CASE n = name
    BY <1>0, <1>5, <2>1 DEF IsOpened
  <2>2. CASE n # name
    <3>1. n \in DOMAIN r.disk /\ q.disk[n] = r.disk[n]
      BY <2>2 DEF IsOpened
    <3>2. n[1] <= q.sessions
      BY <1>0, <1>5, <1>a, <3>1 DEF RecordInv, DiskInv
    <3>3. ~q.disk[n].done => q.disk[n].chunks = <<>> \/ q.file[n[2]] = n
      BY <1>3, <1>a, <3>1 DEF RecordInv, DiskInv
    <3>4. /\ n[2] \notin {"video", "audio"} => q.disk[n].chunks = <<>>
          /\ n[2] = "audio" /\ q.disk[n].done => VideoDone(q, n[1])
          /\ n[2] = "video" /\ n[3] > 0 => VideoDone(q, n[1])
      BY <1>2, <3>1 DEF RecordInv, DiskInv
    <3>5. q.file["video"] # None /\ n[1] = q.session /\ n[2] = "video" => n[3] <= q.segment.index
      <4> SUFFICES ASSUME q.file["video"] # None, n[1] = q.session, n[2] = "video"
                   PROVE  n[3] <= q.segment.index
        OBVIOUS
      <4>1. r.file["video"] # None /\ "video" \in Files
        BY <1>3 DEF Files
      <4>2. r.session # 0
        BY <4>1 DEF RecordInv, DiskInv
      <4>3. SameSession(r, q)
        BY <4>2 DEF SessionStep
      <4> QED
        BY <3>1, <4>1, <4>3 DEF RecordInv, DiskInv, SameSession, SameWriter
    <3> QED
      BY <3>2, <3>3, <3>4, <3>5
  <2> QED
    BY <2>1, <2>2
<1>8. "video" \in Files \ {kind} /\ "audio" \in Files \ {kind}
  BY DEF Files
<1>9. WriterInv(q)
  BY <1>3, <1>8 DEF RecordInv, WriterInv, SameWriter, Pipeline
<1>10. CountInv(q)
  <2> SUFFICES ASSUME q.writer.on
               PROVE  CountInv(q)
    BY DEF CountInv
  <2>1. \A f \in {"video", "audio"} : q.file[f] = r.file[f] /\ r.file[f] \in DOMAIN r.disk /\ r.file[f] # name
    <3>1. r.file["video"] # None /\ r.file["audio"] # None
      BY DEF SameWriter, RecordInv, WriterInv
    <3>2. \A f \in {"video", "audio"} : f \in Files /\ r.file[f] \in DOMAIN r.disk /\ r.file[f] = Handle(r, f)
      BY <1>8, <3>1 DEF RecordInv, DiskInv
    <3> QED
      BY <1>0, <1>3, <1>8, <3>2 DEF Handle, Segment, Name
  <2>2. \A f \in {"video", "audio"} : q.disk[q.file[f]] = r.disk[r.file[f]]
    BY <2>1 DEF IsOpened
  <2> QED
    BY <2>1, <2>2 DEF RecordInv, CountInv, SameWriter, Pipeline
<1>11. ContentInv(q)
  <2> SUFFICES ASSUME NEW n \in DOMAIN q.disk, n[2] \in {"video", "audio"}
               PROVE  /\ q.disk[n].done => q.disk[n].head = InHeader(n[2], Len(q.disk[n].chunks))
                      /\ n[2] = "video" => /\ Len(q.disk[n].chunks) <= SegmentFrames
                                           /\ \A i \in DOMAIN q.disk[n].chunks : q.disk[n].chunks[i].fmt = q.disk[n].fmt
                      /\ n[2] = "video" /\ ~q.disk[n].done /\ q.file["video"] # n => q.disk[n].head = 0
    BY DEF ContentInv
  <2>1. n # name /\ n \in DOMAIN r.disk /\ q.disk[n] = r.disk[n]
    BY <1>0 DEF IsOpened
  <2> QED
    BY <1>3, <1>8, <2>1 DEF RecordInv, ContentInv
<1>12. Grows(r, q)
  <2> SUFFICES ASSUME NEW n \in DOMAIN r.disk
               PROVE  /\ n \in DOMAIN q.disk
                      /\ IF r.disk[n].done THEN q.disk[n] = r.disk[n]
                         ELSE IsPrefix(r.disk[n].chunks, q.disk[n].chunks)
    BY DEF Grows
  <2>1. CASE n = name
    <3>1. q.disk[n].chunks = <<>> /\ r.disk[n].chunks = <<>> /\ ~r.disk[n].done
      BY <1>1, <2>1 DEF IsOpened
    <3> QED
      BY <2>1, <3>1, EmptyIsSeq, PrefixOfItself DEF IsOpened
  <2>2. CASE n # name
    BY <1>a, <2>2, PrefixOfItself DEF IsOpened, IsFile
  <2> QED
    BY <2>1, <2>2
<1> QED
  BY <1>7, <1>9, <1>10, <1>11, <1>12 DEF RecordInv

\* Closing a CSV file.
LEMMA CloseRecord ==
    ASSUME NEW r, IsRecorder(r), RecordInv(r), NEW q, NEW kind \in {"obs", "net", "sync"}, NEW head,
           SameSession(r, q), SameWriter(r, q), r.file[kind] # None, IsFinished(r, q, kind, head)
    PROVE  RecordInv(q) /\ Grows(r, q)
<1> DEFINE name == r.file[kind]
<1>0. /\ kind \in Files /\ name \in DOMAIN r.disk /\ ~r.disk[name].done /\ name[2] = kind
  BY DEF Files, RecordInv, DiskInv, Handle, Name
<1>a. \A n \in DOMAIN r.disk : n \in Names /\ n # None /\ n[1] \in Nat /\ n[2] \in Files /\ IsFile(r.disk[n])
  BY NameFacts DEF IsRecorder
<1>1. DOMAIN q.disk = DOMAIN r.disk /\ \A n \in DOMAIN r.disk \ {name} : q.disk[n] = r.disk[n]
  BY DEF IsFinished
<1>2. q.disk[name].chunks = r.disk[name].chunks /\ q.disk[name].done = TRUE
  BY DEF IsFinished
<1>3. q.file[kind] = None /\ \A f \in Files \ {kind} : q.file[f] = r.file[f]
  BY <1>0 DEF IsFinished, IsRecorder
<1>4. \A s : VideoDone(r, s) => VideoDone(q, s)
  BY <1>0, <1>1 DEF VideoDone
<1>5. \A f \in Files : q.file[f] # None =>
          /\ q.session # 0 /\ q.file[f] = Handle(q, f)
          /\ q.file[f] \in DOMAIN q.disk /\ ~q.disk[q.file[f]].done
  <2> SUFFICES ASSUME NEW f \in Files \ {kind}, r.file[f] # None
               PROVE  /\ r.session # 0 /\ r.file[f] = Handle(q, f)
                      /\ r.file[f] \in DOMAIN r.disk /\ ~q.disk[r.file[f]].done
    BY <1>1, <1>3 DEF SameSession
  <2>1. r.session # 0 /\ r.file[f] = Handle(r, f) /\ r.file[f] \in DOMAIN r.disk /\ ~r.disk[r.file[f]].done
    BY DEF RecordInv, DiskInv
  <2>2. Handle(q, f) = Handle(r, f)
    BY DEF Handle, Segment, Name, SameSession, SameWriter
  <2>3. r.file[f] # name
    BY <1>0, <2>1 DEF Handle, Segment, Name
  <2> QED
    BY <1>1, <2>1, <2>2, <2>3
<1>6. DiskInv(q)
  <2> SUFFICES ASSUME NEW n \in DOMAIN r.disk
               PROVE  /\ n[1] <= q.sessions
                      /\ ~q.disk[n].done => q.disk[n].chunks = <<>> \/ q.file[n[2]] = n
                      /\ n[2] \notin {"video", "audio"} => q.disk[n].chunks = <<>>
                      /\ n[2] = "audio" /\ q.disk[n].done => VideoDone(q, n[1])
                      /\ n[2] = "video" /\ n[3] > 0 => VideoDone(q, n[1])
                      /\ q.file["video"] # None /\ n[1] = q.session /\ n[2] = "video" => n[3] <= q.segment.index
    BY <1>1, <1>5 DEF DiskInv, SameSession, RecordInv
  <2>1. /\ n[1] <= q.sessions
        /\ n[2] = "video" /\ n[3] > 0 => VideoDone(q, n[1])
    BY <1>4 DEF RecordInv, DiskInv, SameSession
  <2>2. /\ n[2] \notin {"video", "audio"} => q.disk[n].chunks = <<>>
        /\ n[2] = "audio" /\ q.disk[n].done => VideoDone(q, n[1])
    BY <1>0, <1>1, <1>2, <1>4 DEF RecordInv, DiskInv
  <2>3. ~q.disk[n].done => q.disk[n].chunks = <<>> \/ q.file[n[2]] = n
    <3>1. CASE n = name
      BY <1>2, <3>1
    <3>2. CASE n # name
      BY <1>1, <1>3, <1>a, <3>2 DEF RecordInv, DiskInv
    <3> QED
      BY <3>1, <3>2
  <2>4. q.file["video"] # None /\ n[1] = q.session /\ n[2] = "video" => n[3] <= q.segment.index
    <3>1. q.file["video"] = r.file["video"]
      BY <1>3 DEF Files
    <3> QED
      BY <3>1 DEF RecordInv, DiskInv, SameSession, SameWriter
  <2> QED
    BY <2>1, <2>2, <2>3, <2>4
<1>7. q.file["video"] = r.file["video"] /\ q.file["audio"] = r.file["audio"]
  BY <1>3 DEF Files
<1>8. WriterInv(q)
  BY <1>7 DEF RecordInv, WriterInv, SameWriter, Pipeline
<1>9. CountInv(q)
  <2> SUFFICES ASSUME q.writer.on
               PROVE  CountInv(q)
    BY DEF CountInv
  <2>1. \A f \in {"video", "audio"} : r.file[f] \in DOMAIN r.disk /\ r.file[f] # name
    <3>1. r.file["video"] # None /\ r.file["audio"] # None
      BY DEF SameWriter, RecordInv, WriterInv
    <3>2. \A f \in {"video", "audio"} : f \in Files /\ r.file[f] \in DOMAIN r.disk /\ r.file[f] = Handle(r, f)
      BY <3>1 DEF RecordInv, DiskInv, Files
    <3> QED
      BY <1>0, <3>2 DEF Handle, Segment, Name
  <2>2. q.disk[q.file["video"]] = r.disk[r.file["video"]] /\ q.disk[q.file["audio"]] = r.disk[r.file["audio"]]
    BY <1>1, <1>7, <2>1
  <2> QED
    BY <1>7, <2>2 DEF RecordInv, CountInv, SameWriter, Pipeline
<1>10. ContentInv(q)
  <2> SUFFICES ASSUME NEW n \in DOMAIN q.disk, n[2] \in {"video", "audio"}
               PROVE  /\ q.disk[n].done => q.disk[n].head = InHeader(n[2], Len(q.disk[n].chunks))
                      /\ n[2] = "video" => /\ Len(q.disk[n].chunks) <= SegmentFrames
                                           /\ \A i \in DOMAIN q.disk[n].chunks : q.disk[n].chunks[i].fmt = q.disk[n].fmt
                      /\ n[2] = "video" /\ ~q.disk[n].done /\ q.file["video"] # n => q.disk[n].head = 0
    BY DEF ContentInv
  <2>1. n # name /\ n \in DOMAIN r.disk /\ q.disk[n] = r.disk[n]
    BY <1>0, <1>1
  <2> QED
    BY <1>7, <2>1 DEF RecordInv, ContentInv
<1>11. Grows(r, q)
  <2> SUFFICES ASSUME NEW n \in DOMAIN r.disk
               PROVE  IF r.disk[n].done THEN q.disk[n] = r.disk[n]
                      ELSE IsPrefix(r.disk[n].chunks, q.disk[n].chunks)
    BY <1>1 DEF Grows
  <2>1. IsPrefix(r.disk[n].chunks, r.disk[n].chunks)
    BY <1>a, PrefixOfItself DEF IsFile
  <2> QED
    BY <1>0, <1>1, <1>2, <2>1
<1> QED
  BY <1>6, <1>8, <1>9, <1>10, <1>11 DEF RecordInv

\* The same, as the code closes: a stream that has no file is left as it is.
LEMMA CloseCsv ==
    ASSUME NEW r, IsRecorder(r), RecordInv(r), NEW kind \in {"obs", "net", "sync"}, NEW q, q = Close(r, kind)
    PROVE  /\ IsRecorder(q) /\ RecordInv(q) /\ Grows(r, q)
           /\ SameSwitches(r, q) /\ SameSession(r, q) /\ SameWriter(r, q) /\ SameMachine(r, q)
           /\ q.file[kind] = None /\ \A f \in Files \ {kind} : q.file[f] = r.file[f]
           /\ \A s, k, i : <<s, k, i>> \in DOMAIN q.disk /\ q.disk[<<s, k, i>>].done =>
                  k = kind \/ (<<s, k, i>> \in DOMAIN r.disk /\ r.disk[<<s, k, i>>].done)
<1>0. kind \in Files
  BY DEF Files
<1>1. CASE r.file[kind] = None
  <2>1. q = r
    BY <1>1 DEF Close
  <2> QED
    BY <1>1, <2>1, UnchangedGrows DEF SameSwitches, SameSession, SameWriter, SameMachine
<1>2. CASE r.file[kind] # None
  <2>1. r.file[kind] \in DOMAIN r.disk /\ r.file[kind] = Handle(r, kind)
    BY <1>0, <1>2 DEF RecordInv, DiskInv
  <2>6. r.file[kind][2] = kind
    BY <2>1 DEF Handle, Name
  <2>2. /\ IsRecorder(q) /\ IsFinished(r, q, kind, r.disk[r.file[kind]].head)
        /\ SameSwitches(r, q) /\ SameSession(r, q) /\ SameWriter(r, q) /\ SameMachine(r, q)
    BY <1>0, <1>2, <2>1, CloseSays
  <2>3. PICK head : head = r.disk[r.file[kind]].head
    OBVIOUS
  <2>4. RecordInv(q) /\ Grows(r, q)
    BY <1>2, <2>2, <2>3, CloseRecord
  <2>5. \A s, k, i : <<s, k, i>> \in DOMAIN q.disk /\ q.disk[<<s, k, i>>].done =>
            k = kind \/ (<<s, k, i>> \in DOMAIN r.disk /\ r.disk[<<s, k, i>>].done)
    BY <2>1, <2>2, <2>6 DEF IsFinished
  <2>7. q.file[kind] = None /\ \A f \in Files \ {kind} : q.file[f] = r.file[f]
    BY <1>0, <2>2 DEF IsFinished, IsRecorder
  <2> QED
    BY <2>2, <2>4, <2>5, <2>7
<1> QED
  BY <1>1, <1>2

----------------------------------------------------------------------------
(***************************************************************************)
(* The end of a recording.                                                 *)
(***************************************************************************)
\* Everything of the writer's group but the writer.
SameCounts(r, q) == q.segment = r.segment /\ q.audioBytes = r.audioBytes /\ q.drops = r.drops

LEMMA FreeWriterSays ==
    ASSUME NEW r, IsRecorder(r), NEW q, q = FreeWriter(r)
    PROVE  /\ IsRecorder(q) /\ q.writer = NoWriter
           /\ SameSwitches(r, q) /\ SameSession(r, q) /\ SameFiles(r, q) /\ SameCounts(r, q) /\ SameMachine(r, q)
<1>1. /\ DOMAIN q = DOMAIN r /\ q.writer = NoWriter
      /\ SameSwitches(r, q) /\ SameSession(r, q) /\ SameFiles(r, q) /\ SameCounts(r, q) /\ SameMachine(r, q)
  BY DEF FreeWriter, IsRecorder, SameSwitches, SameSession, SameFiles, SameCounts, SameMachine
<1>2. /\ DOMAIN NoWriter = {"on", "queue", "stopping", "held", "written"}
      /\ NoWriter.on \in BOOLEAN /\ NoWriter.stopping \in BOOLEAN /\ NoWriter.written \in Nat
      /\ NoWriter.queue = <<>> /\ NoWriter.held = <<>>
  BY DEF NoWriter
<1>3. IsRecorder(q)
  BY <1>1, <1>2, EmptyIsSeq DEF IsRecorder, SameSwitches, SameSession, SameFiles, SameCounts, SameMachine
<1> QED
  BY <1>1, <1>3

\* Both files finished, the writer gone.
IsStopped(r, q) ==
    LET v == r.file["video"]
        a == r.file["audio"]
    IN  /\ q.file["video"] = None /\ q.file["audio"] = None
        /\ \A f \in Files \ {"video", "audio"} : q.file[f] = r.file[f]
        /\ DOMAIN q.disk = DOMAIN r.disk
        /\ \A n \in DOMAIN r.disk \ {v, a} : q.disk[n] = r.disk[n]
        /\ q.disk[v].chunks = r.disk[v].chunks /\ q.disk[v].fmt = r.disk[v].fmt
        /\ q.disk[v].head = InHeader("video", r.segment.frames) /\ q.disk[v].done = TRUE
        /\ q.disk[a].chunks = r.disk[a].chunks /\ q.disk[a].fmt = r.disk[a].fmt
        /\ q.disk[a].head = InHeader("audio", r.audioBytes) /\ q.disk[a].done = TRUE

LEMMA StopVideoSays ==
    ASSUME NEW r, IsRecorder(r), NEW q, q = StopVideo(r),
           r.file["video"] # None, r.file["audio"] # None, r.file["video"] # r.file["audio"],
           r.file["video"] \in DOMAIN r.disk, r.file["audio"] \in DOMAIN r.disk
    PROVE  /\ IsRecorder(q) /\ q.writer = NoWriter /\ IsStopped(r, q)
           /\ SameSwitches(r, q) /\ SameSession(r, q) /\ SameCounts(r, q) /\ SameMachine(r, q)
<1> DEFINE free == FreeWriter(r)
           gone == Finish(free, "video", r.segment.frames)
<1>0. "video" \in Files /\ "audio" \in Files /\ r.segment.frames \in Nat /\ r.audioBytes \in Nat
  BY DEF Files, IsRecorder
<1>1. /\ IsRecorder(free) /\ free.writer = NoWriter
      /\ SameSwitches(r, free) /\ SameSession(r, free) /\ SameFiles(r, free) /\ SameCounts(r, free) /\ SameMachine(r, free)
  BY FreeWriterSays
<1> HIDE DEF free
<1>2. free.file = r.file /\ free.disk = r.disk
  BY <1>1 DEF SameFiles
<1>3. /\ IsRecorder(gone) /\ IsFinished(free, gone, "video", InHeader("video", r.segment.frames))
      /\ SameSwitches(free, gone) /\ SameSession(free, gone) /\ SameWriter(free, gone) /\ SameMachine(free, gone)
  BY <1>0, <1>1, <1>2, FinishSays
<1>4. q = Finish(gone, "audio", gone.audioBytes)
  BY DEF StopVideo, free
<1> HIDE DEF gone
<1>5. gone.audioBytes = r.audioBytes
  BY <1>1, <1>3 DEF SameWriter, SameCounts
<1>6. gone.file["audio"] = r.file["audio"] /\ gone.file["audio"] \in DOMAIN gone.disk
  BY <1>0, <1>1, <1>2, <1>3 DEF IsFinished, IsRecorder
<1>7. /\ IsRecorder(q) /\ IsFinished(gone, q, "audio", InHeader("audio", r.audioBytes))
      /\ SameSwitches(gone, q) /\ SameSession(gone, q) /\ SameWriter(gone, q) /\ SameMachine(gone, q)
  BY <1>0, <1>3, <1>4, <1>5, <1>6, FinishSays
<1>8. /\ q.writer = NoWriter
      /\ SameSwitches(r, q) /\ SameSession(r, q) /\ SameCounts(r, q) /\ SameMachine(r, q)
  BY <1>1, <1>3, <1>7 DEF SameSwitches, SameSession, SameWriter, SameCounts, SameMachine
<1>9. /\ q.file["video"] = None /\ q.file["audio"] = None
      /\ \A f \in Files \ {"video", "audio"} : q.file[f] = r.file[f]
  BY <1>0, <1>1, <1>2, <1>3, <1>7 DEF IsFinished, IsRecorder
<1>10. IsStopped(r, q)
  BY <1>2, <1>3, <1>6, <1>7, <1>9 DEF IsFinished, IsStopped
<1> QED
  BY <1>7, <1>8, <1>10

\* Without files there is nothing to finish.
LEMMA StopNothing ==
    ASSUME NEW r, r.file["video"] = None, r.file["audio"] = None, IsRecorder(r)
    PROVE  StopVideo(r) = FreeWriter(r)
<1>1. FreeWriter(r).file = r.file
  BY FreeWriterSays DEF SameFiles
<1> QED
  BY <1>1 DEF StopVideo, Finish

\* The headers are true because nothing is on its way any more.
LEMMA StopRecord ==
    ASSUME NEW r, IsRecorder(r), RecordInv(r), NEW q, q.writer = NoWriter, IsStopped(r, q),
           SameSession(r, q), SameCounts(r, q),
           r.file["video"] # None, r.file["audio"] # None, r.writer.queue = <<>>, r.writer.held = <<>>
    PROVE  RecordInv(q) /\ Grows(r, q)
<1> DEFINE v == r.file["video"]
           a == r.file["audio"]
<1>0. /\ "video" \in Files /\ "audio" \in Files /\ v \in DOMAIN r.disk /\ a \in DOMAIN r.disk
      /\ v = <<r.session, "video", r.segment.index>> /\ a = <<r.session, "audio", 0>>
      /\ ~r.disk[v].done /\ ~r.disk[a].done
  BY DEF Files, RecordInv, DiskInv, Handle, Segment, Name
<1>a. \A n \in DOMAIN r.disk : n \in Names /\ n # None /\ n[1] \in Nat /\ n[2] \in Files /\ n[3] \in Nat /\ IsFile(r.disk[n])
  BY NameFacts DEF IsRecorder
<1>b. r.segment.index \in Nat
  BY DEF IsRecorder
<1>1. /\ DOMAIN q.disk = DOMAIN r.disk
      /\ \A n \in DOMAIN r.disk : q.disk[n].chunks = r.disk[n].chunks /\ q.disk[n].fmt = r.disk[n].fmt
      /\ \A n \in DOMAIN r.disk \ {v, a} : q.disk[n] = r.disk[n]
      /\ q.disk[v].done /\ q.disk[a].done
  BY DEF IsStopped
<1>2. VideoDone(q, r.session)
  <2>1. CASE r.segment.index = 0
    BY <1>0, <1>1, <2>1 DEF VideoDone
  <2>2. CASE r.segment.index > 0
    <3>1. VideoDone(r, r.session)
      BY <1>0, <2>2 DEF RecordInv, DiskInv
    <3> QED
      BY <1>0, <1>1, <3>1 DEF VideoDone
  <2> QED
    BY <1>b, <2>1, <2>2
<1>3. \A s : VideoDone(r, s) => VideoDone(q, s)
  BY <1>0, <1>1 DEF VideoDone
<1>4. \A f \in Files : q.file[f] # None =>
          /\ q.session # 0 /\ q.file[f] = Handle(q, f)
          /\ q.file[f] \in DOMAIN q.disk /\ ~q.disk[q.file[f]].done
  <2> SUFFICES ASSUME NEW f \in Files \ {"video", "audio"}, r.file[f] # None
               PROVE  /\ r.session # 0 /\ r.file[f] = Handle(q, f)
                      /\ r.file[f] \in DOMAIN r.disk /\ ~q.disk[r.file[f]].done
    BY <1>1 DEF SameSession, IsStopped
  <2>1. r.session # 0 /\ r.file[f] = Handle(r, f) /\ r.file[f] \in DOMAIN r.disk /\ ~r.disk[r.file[f]].done
    BY DEF RecordInv, DiskInv
  <2>2. Handle(q, f) = Handle(r, f)
    BY DEF Handle, Name, SameSession
  <2>3. r.file[f] # v /\ r.file[f] # a
    BY <1>0, <2>1 DEF Handle, Name
  <2> QED
    BY <1>1, <2>1, <2>2, <2>3
<1>5. DiskInv(q)
  <2> SUFFICES ASSUME NEW n \in DOMAIN r.disk
               PROVE  /\ n[1] <= q.sessions
                      /\ ~q.disk[n].done => q.disk[n].chunks = <<>> \/ q.file[n[2]] = n
                      /\ n[2] \notin {"video", "audio"} => q.disk[n].chunks = <<>>
                      /\ n[2] = "audio" /\ q.disk[n].done => VideoDone(q, n[1])
                      /\ n[2] = "video" /\ n[3] > 0 => VideoDone(q, n[1])
                      /\ q.file["video"] # None /\ n[1] = q.session /\ n[2] = "video" => n[3] <= q.segment.index
    BY <1>1, <1>4 DEF DiskInv, SameSession, RecordInv
  <2>1. /\ n[1] <= q.sessions
        /\ n[2] = "video" /\ n[3] > 0 => VideoDone(q, n[1])
    BY <1>3 DEF RecordInv, DiskInv, SameSession
  <2>2. n[2] \notin {"video", "audio"} => q.disk[n].chunks = <<>>
    BY <1>1 DEF RecordInv, DiskInv
  <2>3. n[2] = "audio" /\ q.disk[n].done => VideoDone(q, n[1])
    <3>1. CASE n = a
      BY <1>0, <1>2, <3>1
    <3>2. CASE n # a /\ n[2] = "audio"
      BY <1>0, <1>1, <1>3, <3>2 DEF RecordInv, DiskInv
    <3> QED
      BY <3>1, <3>2
  <2>4. ~q.disk[n].done => q.disk[n].chunks = <<>> \/ q.file[n[2]] = n
    <3> SUFFICES ASSUME ~q.disk[n].done, q.disk[n].chunks # <<>>
                 PROVE  q.file[n[2]] = n
      OBVIOUS
    <3>1. n \notin {v, a} /\ q.disk[n] = r.disk[n]
      BY <1>1
    <3>2. r.file[n[2]] = n
      BY <3>1 DEF RecordInv, DiskInv
    <3>3. n[2] \notin {"video", "audio"}
      BY <3>1, <3>2
    <3> QED
      BY <1>a, <3>2, <3>3 DEF IsStopped
  <2>5. q.file["video"] = None
    BY DEF IsStopped
  <2> QED
    BY <2>1, <2>2, <2>3, <2>4, <2>5
<1>6. /\ ~NoWriter.on /\ NoWriter.queue = <<>> /\ NoWriter.held = <<>>
  BY DEF NoWriter
<1>7. WriterInv(q)
  <2>1. DOMAIN Pipeline(q) = {}
    BY <1>6 DEF Pipeline
  <2> QED
    BY <1>6, <2>1 DEF WriterInv, IsStopped
<1>8. CountInv(q)
  BY <1>6 DEF CountInv
<1>9. ContentInv(q)
  <2> SUFFICES ASSUME NEW n \in DOMAIN r.disk, n[2] \in {"video", "audio"}
               PROVE  /\ q.disk[n].done => q.disk[n].head = InHeader(n[2], Len(q.disk[n].chunks))
                      /\ n[2] = "video" => /\ Len(q.disk[n].chunks) <= SegmentFrames
                                           /\ \A i \in DOMAIN q.disk[n].chunks : q.disk[n].chunks[i].fmt = q.disk[n].fmt
                      /\ n[2] = "video" /\ ~q.disk[n].done /\ q.file["video"] # n => q.disk[n].head = 0
    BY <1>1 DEF ContentInv
  <2>1. r.writer.on
    BY DEF RecordInv, WriterInv
  <2>2. FramesIn(Pipeline(r)) = 0
    <3>1. Pipeline(r) = <<>> \o <<>>
      BY DEF Pipeline
    <3>2. {i \in DOMAIN Pipeline(r) : Pipeline(r)[i].kind = "video"} = {}
      BY <3>1
    <3> QED
      BY <3>2, FS_EmptySet DEF FramesIn
  <2>3. /\ r.segment.frames = Len(r.disk[v].chunks) /\ r.audioBytes = Len(r.disk[a].chunks)
    <3>1. r.writer.written \in Nat
      BY DEF IsRecorder
    <3> QED
      BY <2>1, <2>2, <3>1 DEF RecordInv, CountInv
  <2>4. q.disk[n].done => q.disk[n].head = InHeader(n[2], Len(q.disk[n].chunks))
    <3>0. v[2] = "video" /\ a[2] = "audio"
      BY <1>0
    <3>1. CASE n = v
      BY <2>3, <3>0, <3>1 DEF IsStopped
    <3>2. CASE n = a
      BY <2>3, <3>0, <3>2 DEF IsStopped
    <3>3. CASE n \notin {v, a}
      BY <1>1, <3>3 DEF RecordInv, ContentInv
    <3> QED
      BY <3>1, <3>2, <3>3
  <2>5. n[2] = "video" => /\ Len(q.disk[n].chunks) <= SegmentFrames
                          /\ \A i \in DOMAIN q.disk[n].chunks : q.disk[n].chunks[i].fmt = q.disk[n].fmt
    BY <1>1 DEF RecordInv, ContentInv
  <2>6. n[2] = "video" /\ ~q.disk[n].done /\ q.file["video"] # n => q.disk[n].head = 0
    BY <1>1 DEF RecordInv, ContentInv
  <2> QED
    BY <2>4, <2>5, <2>6
<1>10. Grows(r, q)
  <2> SUFFICES ASSUME NEW n \in DOMAIN r.disk
               PROVE  IF r.disk[n].done THEN q.disk[n] = r.disk[n]
                      ELSE IsPrefix(r.disk[n].chunks, q.disk[n].chunks)
    BY <1>1 DEF Grows
  <2>1. IsPrefix(r.disk[n].chunks, q.disk[n].chunks)
    BY <1>1, <1>a, PrefixOfItself DEF IsFile
  <2> QED
    BY <1>0, <1>1, <2>1
<1> QED
  BY <1>5, <1>7, <1>8, <1>9, <1>10 DEF RecordInv

----------------------------------------------------------------------------
(***************************************************************************)
(* The frames on their way to the file.                                    *)
(***************************************************************************)
LEMMA ConcatIsSeq ==
    ASSUME NEW s, IsSeq(s), NEW t, IsSeq(t)
    PROVE  /\ IsSeq(s \o t) /\ Len(s \o t) = Len(s) + Len(t)
           /\ \A i \in 1 .. Len(s) : (s \o t)[i] = s[i]
           /\ \A i \in 1 .. Len(t) : (s \o t)[Len(s) + i] = t[i]
<1> DEFINE S == Range(s) \cup Range(t)
<1>1. s \in Seq(S) /\ t \in Seq(S)
  BY DEF IsSeq
<1>2. s \o t \in Seq(S)
  BY <1>1
<1>3. IsSeq(s \o t)
  BY <1>2, SeqIsSeq
<1> QED
  BY <1>1, <1>3

\* Sequences with the same elements are the same.
LEMMA SameSeq ==
    ASSUME NEW s, IsSeq(s), NEW t, IsSeq(t), Len(s) = Len(t), \A i \in 1 .. Len(s) : s[i] = t[i]
    PROVE  s = t
<1> DEFINE S == Range(s) \cup Range(t)
<1>1. s \in Seq(S) /\ t \in Seq(S)
  BY DEF IsSeq
<1> QED
  BY <1>1

LEMMA FramesFinite ==
    ASSUME NEW s, IsSeq(s)
    PROVE  IsFiniteSet({i \in DOMAIN s : s[i].kind = "video"}) /\ FramesIn(s) \in Nat
<1>1. DOMAIN s = 1 .. Len(s) /\ Len(s) \in Nat
  BY SeqFacts
<1>2. IsFiniteSet(DOMAIN s)
  BY <1>1, FS_Interval
<1>3. IsFiniteSet({i \in DOMAIN s : s[i].kind = "video"})
  BY <1>2, FS_Subset
<1> QED
  BY <1>3, FS_CardinalityType DEF FramesIn

LEMMA FramesOfAppend ==
    ASSUME NEW s, IsSeq(s), NEW x
    PROVE  FramesIn(Append(s, x)) = IF x.kind = "video" THEN FramesIn(s) + 1 ELSE FramesIn(s)
<1> DEFINE F == {i \in DOMAIN s : s[i].kind = "video"}
           G == {i \in DOMAIN Append(s, x) : Append(s, x)[i].kind = "video"}
<1>1. IsFiniteSet(F) /\ Len(s) + 1 \notin F
  BY FramesFinite, SeqFacts
<1>2. G = IF x.kind = "video" THEN F \cup {Len(s) + 1} ELSE F
  BY AppendIsSeq, SeqFacts
<1>3. Cardinality(F \cup {Len(s) + 1}) = Cardinality(F) + 1
  BY <1>1, FS_AddElement
<1> QED
  BY <1>2, <1>3 DEF FramesIn

LEMMA SameCardinality ==
    ASSUME NEW A, IsFiniteSet(A), NEW B, NEW f \in Bijection(A, B)
    PROVE  Cardinality(A) = Cardinality(B)
<1>1. ExistsBijection(A, B)
  BY DEF ExistsBijection
<1> QED
  BY <1>1, FS_Bijection

LEMMA FramesOfTail ==
    ASSUME NEW s, IsSeq(s), s # <<>>
    PROVE  FramesIn(s) = IF s[1].kind = "video" THEN FramesIn(Tail(s)) + 1 ELSE FramesIn(Tail(s))
<1> DEFINE T == {i \in DOMAIN Tail(s) : Tail(s)[i].kind = "video"}
           U == {i \in DOMAIN s : i # 1 /\ s[i].kind = "video"}
           F == {i \in DOMAIN s : s[i].kind = "video"}
           f == [i \in T |-> i + 1]
<1>1. /\ DOMAIN s = 1 .. Len(s) /\ Len(s) \in Nat \ {0} /\ IsSeq(Tail(s))
      /\ DOMAIN Tail(s) = 1 .. Len(s) - 1 /\ \A i \in 1 .. Len(s) - 1 : Tail(s)[i] = s[i + 1]
  BY TailIsSeq, SeqFacts
<1>2. IsFiniteSet(T) /\ IsFiniteSet(F)
  BY <1>1, FramesFinite
<1>3. IsFiniteSet(U)
  BY <1>2, FS_Subset
<1>4. f \in Bijection(T, U)
  <2>1. f \in [T -> U]
    BY <1>1
  <2>2. \A i, j \in T : f[i] = f[j] => i = j
    BY <1>1
  <2>3. \A j \in U : \E i \in T : f[i] = j
    <3> SUFFICES ASSUME NEW j \in U
                 PROVE  \E i \in T : f[i] = j
      OBVIOUS
    <3>1. j - 1 \in T /\ f[j - 1] = j
      BY <1>1
    <3> QED
      BY <3>1
  <2> QED
    BY <2>1, <2>2, <2>3 DEF Bijection, Injection, Surjection, IsInjective
<1>5. Cardinality(T) = Cardinality(U)
  BY <1>2, <1>4, SameCardinality
<1>6. F = IF s[1].kind = "video" THEN U \cup {1} ELSE U
  BY <1>1
<1>7. Cardinality(U \cup {1}) = Cardinality(U) + 1
  BY <1>3, FS_AddElement
<1> QED
  BY <1>5, <1>6, <1>7 DEF FramesIn

----------------------------------------------------------------------------
(***************************************************************************)
(* Putting a chunk into the queue.                                         *)
(***************************************************************************)
\* The chunk is queued, counted as dropped, or there is no writer.
IsQueued(r, q, chunk) ==
    /\ r.writer.on /\ q.drops = r.drops
    /\ q.writer.on = r.writer.on /\ q.writer.stopping = r.writer.stopping
    /\ q.writer.held = r.writer.held /\ q.writer.written = r.writer.written
    /\ q.writer.queue = Append(r.writer.queue, chunk)
IsDropped(r, q) == r.writer.on /\ q.writer = r.writer /\ q.drops = r.drops + 1

LEMMA EnqueueSays ==
    ASSUME NEW r, IsRecorder(r), NEW chunk, NEW q, q = Enqueue(r, chunk)
    PROVE  /\ IsRecorder(q) /\ q.segment = r.segment /\ q.audioBytes = r.audioBytes
           /\ SameSwitches(r, q) /\ SameSession(r, q) /\ SameFiles(r, q) /\ SameMachine(r, q)
           /\ \/ ~r.writer.on /\ q = r
              \/ IsDropped(r, q)
              \/ IsQueued(r, q, chunk)
<1>1. CASE q = r /\ ~r.writer.on
  BY <1>1 DEF SameSwitches, SameSession, SameFiles, SameMachine
<1>2. CASE r.writer.on /\ q = [r EXCEPT !.drops = r.drops + 1]
  <2>1. /\ DOMAIN q = DOMAIN r /\ q.segment = r.segment /\ q.audioBytes = r.audioBytes /\ q.writer = r.writer
        /\ SameSwitches(r, q) /\ SameSession(r, q) /\ SameFiles(r, q) /\ SameMachine(r, q) /\ q.drops = r.drops + 1
    BY <1>2 DEF IsRecorder, SameSwitches, SameSession, SameFiles, SameMachine
  <2>2. IsRecorder(q)
    <3>1. q.drops \in Nat
      BY <2>1 DEF IsRecorder
    <3> QED
      BY <2>1, <3>1 DEF IsRecorder, SameSwitches, SameSession, SameFiles, SameMachine
  <2> QED
    BY <1>2, <2>1, <2>2 DEF IsDropped
<1>3. CASE r.writer.on /\ q = [r EXCEPT !.writer = [r.writer EXCEPT !.queue = Append(r.writer.queue, chunk)]]
  <2>1. /\ DOMAIN q = DOMAIN r /\ q.segment = r.segment /\ q.audioBytes = r.audioBytes /\ q.drops = r.drops
        /\ SameSwitches(r, q) /\ SameSession(r, q) /\ SameFiles(r, q) /\ SameMachine(r, q)
        /\ q.writer = [r.writer EXCEPT !.queue = Append(r.writer.queue, chunk)]
    BY <1>3 DEF IsRecorder, SameSwitches, SameSession, SameFiles, SameMachine
  <2>2. /\ DOMAIN q.writer = DOMAIN r.writer
        /\ q.writer.on = r.writer.on /\ q.writer.stopping = r.writer.stopping
        /\ q.writer.held = r.writer.held /\ q.writer.written = r.writer.written
        /\ q.writer.queue = Append(r.writer.queue, chunk)
    BY <2>1 DEF IsRecorder
  <2>3. IsSeq(q.writer.queue)
    BY <2>2, AppendIsSeq DEF IsRecorder
  <2>4. IsRecorder(q)
    BY <2>1, <2>2, <2>3 DEF IsRecorder, SameSwitches, SameSession, SameFiles, SameMachine
  <2> QED
    BY <1>3, <2>1, <2>2, <2>4 DEF IsQueued
<1> QED
  BY <1>1, <1>2, <1>3 DEF Enqueue

\* A frame counts as the segment's when it is queued.
LEMMA RecordFrameSays ==
    ASSUME NEW r, IsRecorder(r), NEW fmt, NEW frame, NEW q, q = RecordFrame(r, fmt, frame)
    PROVE  /\ IsRecorder(q) /\ q.audioBytes = r.audioBytes
           /\ SameSwitches(r, q) /\ SameSession(r, q) /\ SameFiles(r, q) /\ SameMachine(r, q)
           /\ q.segment.index = r.segment.index /\ q.segment.fmt = r.segment.fmt
           /\ \/ ~r.writer.on /\ q = r
              \/ IsDropped(r, q) /\ q.segment = r.segment
              \/ /\ q.segment.frames = r.segment.frames + 1
                 /\ IsQueued(r, q, [kind |-> "video", id |-> frame, fmt |-> fmt, cut |-> FALSE])
<1> DEFINE chunk == [kind |-> "video", id |-> frame, fmt |-> fmt, cut |-> FALSE]
           e == Enqueue(r, chunk)
<1>1. /\ IsRecorder(e) /\ e.segment = r.segment /\ e.audioBytes = r.audioBytes
      /\ SameSwitches(r, e) /\ SameSession(r, e) /\ SameFiles(r, e) /\ SameMachine(r, e)
      /\ \/ ~r.writer.on /\ e = r
         \/ IsDropped(r, e)
         \/ IsQueued(r, e, chunk)
  BY EnqueueSays
<1>2. CASE e.writer.queue = r.writer.queue
  <2>1. q = e
    BY <1>2 DEF RecordFrame, Queued
  <2> HIDE DEF e, chunk
  <2>3. IsSeq(r.writer.queue)
    BY DEF IsRecorder
  <2>4. Append(r.writer.queue, chunk) # r.writer.queue
    BY <2>3, AppendIsSeq
  <2>2. ~IsQueued(r, e, chunk)
    BY <1>2, <2>4 DEF IsQueued
  <2> QED
    BY <1>1, <2>1, <2>2
<1>3. CASE e.writer.queue # r.writer.queue
  <2>1. q = [e EXCEPT !.segment.frames = e.segment.frames + 1]
    BY <1>3 DEF RecordFrame, Queued
  <2>2. IsQueued(r, e, chunk)
    BY <1>1, <1>3 DEF IsDropped
  <2> HIDE DEF e
  <2>3. /\ DOMAIN q = DOMAIN e /\ q.segment = [e.segment EXCEPT !.frames = e.segment.frames + 1]
        /\ q.audioBytes = e.audioBytes /\ q.writer = e.writer /\ q.drops = e.drops
        /\ SameSwitches(e, q) /\ SameSession(e, q) /\ SameFiles(e, q) /\ SameMachine(e, q)
    BY <1>1, <2>1 DEF IsRecorder, SameSwitches, SameSession, SameFiles, SameMachine
  <2>4. /\ DOMAIN q.segment = DOMAIN e.segment /\ q.segment.index = e.segment.index /\ q.segment.fmt = e.segment.fmt
        /\ q.segment.frames = e.segment.frames + 1 /\ q.segment.frames \in Nat
    BY <1>1, <2>3 DEF IsRecorder
  <2>5. IsRecorder(q)
    BY <1>1, <2>3, <2>4 DEF IsRecorder, SameSwitches, SameSession, SameFiles, SameMachine
  <2>6. IsQueued(r, q, chunk)
    BY <2>2, <2>3 DEF IsQueued
  <2>7. SameSwitches(r, q) /\ SameSession(r, q) /\ SameFiles(r, q) /\ SameMachine(r, q)
    BY <1>1, <2>3 DEF SameSwitches, SameSession, SameFiles, SameMachine
  <2>8. /\ q.audioBytes = r.audioBytes /\ q.segment.index = r.segment.index /\ q.segment.fmt = r.segment.fmt
        /\ q.segment.frames = r.segment.frames + 1
    BY <1>1, <2>3, <2>4
  <2> QED
    BY <2>5, <2>6, <2>7, <2>8
<1> QED
  BY <1>2, <1>3

LEMMA PipelineIsSeq ==
    ASSUME NEW r, IsRecorder(r)
    PROVE  /\ IsSeq(Pipeline(r)) /\ Len(Pipeline(r)) = Len(r.writer.held) + Len(r.writer.queue)
           /\ FramesIn(Pipeline(r)) \in Nat
<1>1. IsSeq(r.writer.held) /\ IsSeq(r.writer.queue)
  BY DEF IsRecorder
<1>2. IsSeq(Pipeline(r)) /\ Len(Pipeline(r)) = Len(r.writer.held) + Len(r.writer.queue)
  BY <1>1, ConcatIsSeq DEF Pipeline
<1> QED
  BY <1>2, FramesFinite

LEMMA AppendOfConcat ==
    ASSUME NEW S, NEW h \in Seq(S), NEW w \in Seq(S), NEW c \in S
    PROVE  h \o Append(w, c) = Append(h \o w, c)
<1> DEFINE u == h \o Append(w, c)
           t == Append(h \o w, c)
<1>1. /\ u \in Seq(S) /\ t \in Seq(S) /\ Len(u) = Len(h) + Len(w) + 1 /\ Len(t) = Len(h) + Len(w) + 1
      /\ Len(h) \in Nat /\ Len(w) \in Nat
  OBVIOUS
<1>2. \A i \in 1 .. Len(h) + Len(w) + 1 : u[i] = t[i]
  OBVIOUS
<1> HIDE DEF u, t
<1>3. u = t
  BY <1>1, <1>2
<1> QED
  BY <1>3 DEF u, t

LEMMA PipelineOfQueued ==
    ASSUME NEW r, IsRecorder(r), NEW q, NEW chunk, IsQueued(r, q, chunk)
    PROVE  Pipeline(q) = Append(Pipeline(r), chunk)
<1>1. PICK h, w : h = r.writer.held /\ w = r.writer.queue /\ IsSeq(h) /\ IsSeq(w)
  BY DEF IsRecorder
<1>2. h \o Append(w, chunk) = Append(h \o w, chunk)
  <2>1. PICK S : S = Range(h) \cup Range(w) \cup {chunk}
    OBVIOUS
  <2>2. h \in Seq(S) /\ w \in Seq(S) /\ chunk \in S
    BY <1>1, <2>1 DEF IsSeq
  <2> QED
    BY <2>2, AppendOfConcat
<1> QED
  BY <1>1, <1>2 DEF IsQueued, Pipeline

\* A chunk that is counted as dropped changes nothing else.
LEMMA DropRecord ==
    ASSUME NEW r, RecordInv(r), NEW q, SameSession(r, q), SameFiles(r, q),
           q.segment = r.segment, q.audioBytes = r.audioBytes, IsDropped(r, q)
    PROVE  RecordInv(q)
<1>1. DiskInv(q)
  BY DEF RecordInv, DiskInv, SameSession, SameFiles, Handle, Name, Segment, VideoDone
<1>2. WriterInv(q)
  BY DEF RecordInv, WriterInv, SameFiles, IsDropped, Pipeline
<1>3. CountInv(q)
  BY DEF RecordInv, CountInv, SameFiles, IsDropped, Pipeline
<1>4. ContentInv(q)
  BY DEF RecordInv, ContentInv, SameFiles
<1> QED
  BY <1>1, <1>2, <1>3, <1>4 DEF RecordInv

\* A chunk that is queued is counted, and fits the segment.
LEMMA QueueRecord ==
    ASSUME NEW r, IsRecorder(r), RecordInv(r), NEW q, NEW chunk, IsQueued(r, q, chunk),
           SameSession(r, q), SameFiles(r, q), q.audioBytes = r.audioBytes,
           q.segment.index = r.segment.index, q.segment.fmt = r.segment.fmt,
           \/ chunk.kind = "audio" /\ q.segment.frames = r.segment.frames
           \/ /\ chunk.kind = "video" /\ chunk.fmt = r.segment.fmt
              /\ q.segment.frames = r.segment.frames + 1 /\ r.segment.frames < SegmentFrames
    PROVE  RecordInv(q)
<1>0. /\ SegmentFrames \in Nat /\ r.segment.frames \in Nat /\ r.writer.written \in Nat
  BY RecorderAssumption DEF IsRecorder
<1>1. DiskInv(q)
  BY DEF RecordInv, DiskInv, SameSession, SameFiles, Handle, Name, Segment, VideoDone
<1>2. Pipeline(q) = Append(Pipeline(r), chunk)
  BY PipelineOfQueued
<1>3. IsSeq(Pipeline(r)) /\ FramesIn(Pipeline(r)) \in Nat
  BY PipelineIsSeq
<1>4. /\ DOMAIN Pipeline(q) = DOMAIN Pipeline(r) \cup {Len(Pipeline(r)) + 1}
      /\ \A i \in DOMAIN Pipeline(r) : Pipeline(q)[i] = Pipeline(r)[i]
      /\ Pipeline(q)[Len(Pipeline(r)) + 1] = chunk
  BY <1>2, <1>3, AppendIsSeq
<1>5. FramesIn(Pipeline(q)) = IF chunk.kind = "video" THEN FramesIn(Pipeline(r)) + 1 ELSE FramesIn(Pipeline(r))
  BY <1>2, <1>3, FramesOfAppend
<1>6. WriterInv(q)
  <2>1. \A i \in DOMAIN Pipeline(r) : /\ Pipeline(r)[i].kind \in {"video", "audio"}
                                      /\ Pipeline(r)[i].kind = "video" => Pipeline(r)[i].fmt = r.segment.fmt
    BY DEF RecordInv, WriterInv
  <2>2. chunk.kind \in {"video", "audio"} /\ (chunk.kind = "video" => chunk.fmt = r.segment.fmt)
    OBVIOUS
  <2>3. \A i \in DOMAIN Pipeline(q) : /\ Pipeline(q)[i].kind \in {"video", "audio"}
                                      /\ Pipeline(q)[i].kind = "video" => Pipeline(q)[i].fmt = q.segment.fmt
    BY <1>4, <2>1, <2>2
  <2>4. /\ q.writer.on <=> q.file["video"] # None
        /\ q.writer.on <=> q.file["audio"] # None
        /\ q.writer.on
    BY DEF RecordInv, WriterInv, IsQueued, SameFiles
  <2> QED
    BY <2>3, <2>4 DEF WriterInv
<1>7. CountInv(q)
  <2> DEFINE video == r.disk[r.file["video"]]
  <2>1. /\ r.writer.written = Len(video.chunks)
        /\ r.segment.frames = r.writer.written + FramesIn(Pipeline(r))
        /\ r.segment.frames <= SegmentFrames /\ r.segment.fmt = video.fmt
        /\ video.head = r.writer.written - (r.writer.written % HeaderPeriod)
        /\ r.audioBytes = Len(r.disk[r.file["audio"]].chunks)
    BY DEF RecordInv, CountInv, IsQueued
  <2>2. q.writer.written = r.writer.written /\ q.disk = r.disk /\ q.file = r.file
    BY DEF IsQueued, SameFiles
  <2>3. q.segment.frames = r.writer.written + FramesIn(Pipeline(q)) /\ q.segment.frames <= SegmentFrames
    <3>1. CASE chunk.kind = "audio"
      BY <1>5, <2>1, <3>1
    <3>2. CASE chunk.kind = "video"
      <4>1. PICK w, p : w = r.writer.written /\ p = FramesIn(Pipeline(r)) /\ w \in Nat /\ p \in Nat
        BY <1>0, <1>3
      <4>2. /\ q.segment.frames = r.segment.frames + 1 /\ r.segment.frames < SegmentFrames
            /\ FramesIn(Pipeline(q)) = p + 1 /\ r.segment.frames = w + p
        BY <1>5, <2>1, <3>2, <4>1
      <4> QED
        BY <1>0, <4>1, <4>2
    <3> QED
      BY <3>1, <3>2
  <2> QED
    BY <2>1, <2>2, <2>3 DEF CountInv
<1>8. ContentInv(q)
  BY DEF RecordInv, ContentInv, SameFiles
<1> QED
  BY <1>1, <1>6, <1>7, <1>8 DEF RecordInv

\* Recording a frame that needs no new segment.
LEMMA RecordFrameRecord ==
    ASSUME NEW r, IsRecorder(r), RecordInv(r), NEW fmt, NEW frame, NEW q, q = RecordFrame(r, fmt, frame),
           r.writer.on => ~NeedsRoll(r, fmt)
    PROVE  IsRecorder(q) /\ RecordInv(q) /\ Grows(r, q)
<1> DEFINE chunk == [kind |-> "video", id |-> frame, fmt |-> fmt, cut |-> FALSE]
<1>1. /\ IsRecorder(q) /\ q.audioBytes = r.audioBytes
      /\ SameSwitches(r, q) /\ SameSession(r, q) /\ SameFiles(r, q) /\ SameMachine(r, q)
      /\ q.segment.index = r.segment.index /\ q.segment.fmt = r.segment.fmt
      /\ \/ ~r.writer.on /\ q = r
         \/ IsDropped(r, q) /\ q.segment = r.segment
         \/ /\ q.segment.frames = r.segment.frames + 1
            /\ IsQueued(r, q, chunk)
  BY RecordFrameSays
<1>2. Grows(r, q)
  BY <1>1, UnchangedGrows DEF SameFiles
<1>3. CASE q = r
  BY <1>1, <1>2, <1>3
<1>4. CASE IsDropped(r, q) /\ q.segment = r.segment
  BY <1>1, <1>2, <1>4, DropRecord
<1>5. CASE q.segment.frames = r.segment.frames + 1 /\ IsQueued(r, q, chunk)
  <2>1. chunk.kind = "video" /\ chunk.fmt = fmt
    OBVIOUS
  <2>2. r.segment.fmt = fmt /\ r.segment.frames < SegmentFrames
    BY <1>5, RecorderAssumption DEF NeedsRoll, IsQueued, IsRecorder
  <2> HIDE DEF chunk
  <2>3. RecordInv(q)
    BY <1>1, <1>5, <2>1, <2>2, QueueRecord
  <2> QED
    BY <1>1, <1>2, <2>3
<1> QED
  BY <1>1, <1>3, <1>4, <1>5

\* Recording a packet of sound.
LEMMA EnqueueRecord ==
    ASSUME NEW r, IsRecorder(r), RecordInv(r), NEW chunk, chunk.kind = "audio", NEW q, q = Enqueue(r, chunk)
    PROVE  IsRecorder(q) /\ RecordInv(q) /\ Grows(r, q)
<1>1. /\ IsRecorder(q) /\ q.segment = r.segment /\ q.audioBytes = r.audioBytes
      /\ SameSwitches(r, q) /\ SameSession(r, q) /\ SameFiles(r, q) /\ SameMachine(r, q)
      /\ \/ ~r.writer.on /\ q = r
         \/ IsDropped(r, q)
         \/ IsQueued(r, q, chunk)
  BY EnqueueSays
<1>2. Grows(r, q)
  BY <1>1, UnchangedGrows DEF SameFiles
<1>3. RecordInv(q)
  BY <1>1, DropRecord, QueueRecord
<1> QED
  BY <1>1, <1>2, <1>3

----------------------------------------------------------------------------
(***************************************************************************)
(* The writer thread.                                                      *)
(***************************************************************************)
LEMMA HeadOfConcat ==
    ASSUME NEW S, NEW w \in Seq(S), w # <<>>
    PROVE  <<w[1]>> \o Tail(w) = <<>> \o w
<1> DEFINE u == <<w[1]>> \o Tail(w)
           t == <<>> \o w
<1>1. u \in Seq(S) /\ t \in Seq(S) /\ Len(u) = Len(w) /\ Len(t) = Len(w)
  OBVIOUS
<1>2. \A i \in 1 .. Len(w) : u[i] = t[i]
  OBVIOUS
<1> HIDE DEF u, t
<1>3. u = t
  BY <1>1, <1>2
<1> QED
  BY <1>3 DEF u, t

\* What the writer takes is still on its way.
LEMMA TakeSays ==
    ASSUME NEW r, IsRecorder(r), r.writer.queue # <<>>, r.writer.held = <<>>, NEW q, q = TakeChunk(r)
    PROVE  /\ IsRecorder(q) /\ Pipeline(q) = Pipeline(r)
           /\ Len(q.writer.held) + Len(q.writer.queue) = Len(r.writer.held) + Len(r.writer.queue)
           /\ q.writer.on = r.writer.on /\ q.writer.stopping = r.writer.stopping /\ q.writer.written = r.writer.written
           /\ SameSwitches(r, q) /\ SameSession(r, q) /\ SameFiles(r, q) /\ SameCounts(r, q) /\ SameMachine(r, q)
<1> DEFINE chunk == r.writer.queue[1]
<1>1. /\ DOMAIN q = DOMAIN r
      /\ SameSwitches(r, q) /\ SameSession(r, q) /\ SameFiles(r, q) /\ SameCounts(r, q) /\ SameMachine(r, q)
      /\ DOMAIN q.writer = DOMAIN r.writer
      /\ q.writer.held = <<chunk>> /\ q.writer.queue = Tail(r.writer.queue)
      /\ q.writer.on = r.writer.on /\ q.writer.stopping = r.writer.stopping /\ q.writer.written = r.writer.written
  BY DEF TakeChunk, IsRecorder, SameSwitches, SameSession, SameFiles, SameCounts, SameMachine
<1>2. IsSeq(r.writer.queue)
  BY DEF IsRecorder
<1>3. IsSeq(Tail(r.writer.queue)) /\ Len(Tail(r.writer.queue)) = Len(r.writer.queue) - 1 /\ Len(r.writer.queue) \in Nat \ {0}
  BY <1>2, TailIsSeq
<1>4. IsSeq(<<chunk>>) /\ Len(<<chunk>>) = 1
  BY SingletonIsSeq
<1>5. IsRecorder(q)
  BY <1>1, <1>3, <1>4 DEF IsRecorder, SameSwitches, SameSession, SameFiles, SameCounts, SameMachine
<1>6. Pipeline(q) = Pipeline(r)
  <2>1. PICK w, S : w = r.writer.queue /\ w # <<>> /\ w \in Seq(S)
    BY <1>2 DEF IsSeq
  <2>2. <<w[1]>> \o Tail(w) = <<>> \o w
    BY <2>1, HeadOfConcat
  <2> QED
    BY <1>1, <2>1, <2>2 DEF Pipeline
<1>7. Len(q.writer.held) + Len(q.writer.queue) = Len(r.writer.held) + Len(r.writer.queue)
  BY <1>1, <1>3, <1>4, EmptyIsSeq
<1> QED
  BY <1>1, <1>5, <1>6, <1>7

LEMMA TakeRecord ==
    ASSUME NEW r, IsRecorder(r), RecordInv(r), r.writer.queue # <<>>, r.writer.held = <<>>, NEW q, q = TakeChunk(r)
    PROVE  IsRecorder(q) /\ RecordInv(q) /\ Grows(r, q)
<1>1. /\ IsRecorder(q) /\ Pipeline(q) = Pipeline(r)
      /\ q.writer.on = r.writer.on /\ q.writer.stopping = r.writer.stopping /\ q.writer.written = r.writer.written
      /\ SameSwitches(r, q) /\ SameSession(r, q) /\ SameFiles(r, q) /\ SameCounts(r, q) /\ SameMachine(r, q)
  BY TakeSays
<1>2. DiskInv(q)
  BY <1>1 DEF RecordInv, DiskInv, SameSession, SameFiles, SameCounts, Handle, Name, Segment, VideoDone
<1>3. r.writer.on
  BY DEF RecordInv, WriterInv
<1>4. WriterInv(q)
  BY <1>1, <1>3 DEF RecordInv, WriterInv, SameFiles, SameCounts
<1>5. CountInv(q)
  BY <1>1 DEF RecordInv, CountInv, SameFiles, SameCounts
<1>6. ContentInv(q)
  BY <1>1 DEF RecordInv, ContentInv, SameFiles
<1>7. Grows(r, q)
  BY <1>1, UnchangedGrows DEF SameFiles
<1> QED
  BY <1>1, <1>2, <1>4, <1>5, <1>6, <1>7 DEF RecordInv

\* The chunk the writer holds is the last of its file.
IsWritten(r, q, chunk, file) ==
    /\ q.writer.held = <<>> /\ q.writer.queue = r.writer.queue
    /\ q.writer.on = r.writer.on /\ q.writer.stopping = r.writer.stopping
    /\ q.segment = r.segment /\ q.drops = r.drops /\ q.file = r.file
    /\ DOMAIN q.disk = DOMAIN r.disk
    /\ \A n \in DOMAIN r.disk \ {file} : q.disk[n] = r.disk[n]
    /\ q.disk[file].chunks = Append(r.disk[file].chunks, chunk)
    /\ q.disk[file].fmt = r.disk[file].fmt /\ q.disk[file].done = r.disk[file].done
    /\ IF chunk.kind = "audio"
       THEN /\ q.audioBytes = r.audioBytes + 1 /\ q.writer.written = r.writer.written
            /\ q.disk[file].head = r.disk[file].head
       ELSE /\ q.audioBytes = r.audioBytes /\ q.writer.written = r.writer.written + 1
            /\ q.disk[file].head = IF (r.writer.written + 1) % HeaderPeriod = 0 THEN r.writer.written + 1
                                   ELSE r.disk[file].head

\* A recorder whose writer, counts and files change stays one.
LEMMA WriterKeepsRecorder ==
    ASSUME NEW r, IsRecorder(r), NEW q, DOMAIN q = DOMAIN r, q.audioBytes \in Nat,
           q.segment = r.segment, q.drops = r.drops, q.file = r.file,
           SameSwitches(r, q), SameSession(r, q), SameMachine(r, q),
           DOMAIN q.writer = DOMAIN r.writer, q.writer.held = <<>>, IsSeq(q.writer.queue),
           q.writer.on \in BOOLEAN, q.writer.stopping \in BOOLEAN, q.writer.written \in Nat,
           \A n \in DOMAIN q.disk : n \in Names /\ IsFile(q.disk[n])
    PROVE  IsRecorder(q)
<1>1. /\ DOMAIN q.file = Files /\ DOMAIN q.segment = {"index", "fmt", "frames"}
      /\ DOMAIN q.writer = {"on", "queue", "stopping", "held", "written"}
  BY DEF IsRecorder
<1>2. {q.frames, q.csv, q.av, q.video, q.prg, q.writer.on, q.writer.stopping} \subseteq BOOLEAN
  BY DEF IsRecorder, SameSwitches, SameMachine
<1>3. {q.session, q.sessions, q.audioBytes, q.drops, q.segment.index, q.segment.frames, q.writer.written} \subseteq Nat
  BY DEF IsRecorder, SameSession
<1>4. IsSeq(q.writer.queue) /\ IsSeq(q.writer.held) /\ Len(q.writer.held) <= 1
  BY EmptyIsSeq DEF IsRecorder
<1>5. /\ IsSeq(q.jobs) /\ \A i \in DOMAIN q.jobs : q.jobs[i] \in {Job(a, d) : a \in {"run", "reset"}, d \in Devices}
      /\ q.playing \subseteq Devices /\ q.host \in Devices /\ DOMAIN q.mixer = Devices
  BY DEF IsRecorder, SameMachine
<1>6. DOMAIN q = {"frames", "csv", "av", "video", "session", "sessions", "file", "segment", "audioBytes", "writer",
                  "drops", "prg", "snapshot", "jobs", "playing", "disk", "mixer", "host"}
  BY DEF IsRecorder
<1> QED
  BY <1>1, <1>2, <1>3, <1>4, <1>5, <1>6 DEF IsRecorder

LEMMA WriteSays ==
    ASSUME NEW r, IsRecorder(r), NEW chunk, chunk = r.writer.held[1], NEW file, file = r.file[chunk.kind],
           file # None, file \in DOMAIN r.disk, NEW q, q = WriteChunk(r)
    PROVE  /\ IsRecorder(q) /\ IsWritten(r, q, chunk, file)
           /\ SameSwitches(r, q) /\ SameSession(r, q) /\ SameMachine(r, q)
<1> DEFINE frames == r.writer.written + 1
           d == r.disk[file]
           chunks == Append(d.chunks, chunk)
<1>0. IsFile(d) /\ file \in Names /\ frames \in Nat /\ r.audioBytes + 1 \in Nat /\ r.audioBytes \in Nat /\ r.writer.written \in Nat
  BY DEF IsRecorder
<1>1. IsSeq(chunks)
  BY <1>0, AppendIsSeq DEF IsFile
<1>d. \A n \in DOMAIN r.disk : n \in Names /\ IsFile(r.disk[n])
  BY DEF IsRecorder
<1>w. r.writer.on \in BOOLEAN /\ r.writer.stopping \in BOOLEAN /\ IsSeq(r.writer.queue)
  BY DEF IsRecorder
<1>2. CASE chunk.kind = "audio"
  <2>1. q = [r EXCEPT !.writer.held = <<>>, !.disk[file].chunks = chunks, !.audioBytes = r.audioBytes + 1]
    BY <1>2 DEF WriteChunk, IsRecorder
  <2> HIDE DEF chunks
  <2>2. /\ DOMAIN q = DOMAIN r /\ q.audioBytes = r.audioBytes + 1
        /\ q.segment = r.segment /\ q.drops = r.drops /\ q.file = r.file
        /\ SameSwitches(r, q) /\ SameSession(r, q) /\ SameMachine(r, q)
    BY <2>1 DEF IsRecorder, SameSwitches, SameSession, SameMachine
  <2>8. q.writer = [r.writer EXCEPT !.held = <<>>]
    BY <2>1 DEF IsRecorder
  <2>9. /\ DOMAIN q.writer = DOMAIN r.writer
        /\ q.writer.held = <<>> /\ q.writer.queue = r.writer.queue /\ q.writer.on = r.writer.on
        /\ q.writer.stopping = r.writer.stopping /\ q.writer.written = r.writer.written
    BY <2>8 DEF IsRecorder
  <2>3. q.disk = [r.disk EXCEPT ![file] = [d EXCEPT !.chunks = chunks]]
    BY <2>1 DEF IsRecorder
  <2>4. /\ DOMAIN q.disk = DOMAIN r.disk
        /\ \A n \in DOMAIN r.disk \ {file} : q.disk[n] = r.disk[n]
        /\ q.disk[file] = [d EXCEPT !.chunks = chunks]
    BY <2>3
  <2>5. /\ DOMAIN q.disk[file] = DOMAIN d /\ q.disk[file].chunks = chunks /\ q.disk[file].fmt = d.fmt
        /\ q.disk[file].done = d.done /\ q.disk[file].head = d.head
    BY <1>0, <2>4 DEF IsFile
  <2>6. \A n \in DOMAIN q.disk : n \in Names /\ IsFile(q.disk[n])
    <3>1. IsFile(q.disk[file])
      BY <1>0, <1>1, <2>5 DEF IsFile
    <3> SUFFICES ASSUME NEW n \in DOMAIN q.disk PROVE n \in Names /\ IsFile(q.disk[n])
      OBVIOUS
    <3>2. CASE n = file
      BY <1>0, <3>1, <3>2
    <3>3. CASE n # file
      BY <1>d, <2>4, <3>3
    <3> QED
      BY <3>2, <3>3
  <2>7. IsRecorder(q)
    <3>1. q.audioBytes \in Nat /\ q.writer.written \in Nat
      BY <1>0, <2>2, <2>9
    <3>2. q.writer.on \in BOOLEAN /\ q.writer.stopping \in BOOLEAN /\ IsSeq(q.writer.queue)
      BY <1>w, <2>9
    <3> QED
      BY <2>2, <2>6, <2>9, <3>1, <3>2, WriterKeepsRecorder
  <2>10. /\ q.disk[file].chunks = Append(r.disk[file].chunks, chunk)
         /\ q.disk[file].fmt = r.disk[file].fmt /\ q.disk[file].done = r.disk[file].done
         /\ q.disk[file].head = r.disk[file].head
    BY <2>5 DEF chunks
  <2>11. IsWritten(r, q, chunk, file)
    BY <1>2, <2>2, <2>4, <2>9, <2>10 DEF IsWritten
  <2> QED
    BY <2>2, <2>7, <2>11
<1>3. CASE chunk.kind # "audio"
  <2> DEFINE head == IF frames % HeaderPeriod = 0 THEN frames ELSE d.head
  <2>0. head \in Nat
    BY <1>0 DEF IsFile
  <2>1. q.writer = [[r.writer EXCEPT !.held = <<>>] EXCEPT !.written = frames]
    BY <1>3 DEF WriteChunk, IsRecorder
  <2>2. /\ DOMAIN q = DOMAIN r /\ q.audioBytes = r.audioBytes
        /\ q.segment = r.segment /\ q.drops = r.drops /\ q.file = r.file
        /\ SameSwitches(r, q) /\ SameSession(r, q) /\ SameMachine(r, q)
    BY <1>3 DEF WriteChunk, IsRecorder, SameSwitches, SameSession, SameMachine
  <2>3. /\ DOMAIN q.writer = DOMAIN r.writer
        /\ q.writer.held = <<>> /\ q.writer.queue = r.writer.queue /\ q.writer.on = r.writer.on
        /\ q.writer.stopping = r.writer.stopping /\ q.writer.written = frames
    BY <2>1 DEF IsRecorder
  <2>4. CASE frames % HeaderPeriod = 0
    <3>1. q.disk = [[r.disk EXCEPT ![file] = [d EXCEPT !.chunks = chunks]] EXCEPT ![file].head = frames]
      BY <1>3, <2>4 DEF WriteChunk, IsRecorder
    <3> HIDE DEF chunks
    <3>2. /\ DOMAIN q.disk = DOMAIN r.disk
          /\ \A n \in DOMAIN r.disk \ {file} : q.disk[n] = r.disk[n]
          /\ q.disk[file] = [[d EXCEPT !.chunks = chunks] EXCEPT !.head = frames]
      BY <3>1
    <3>3. /\ DOMAIN q.disk[file] = DOMAIN d /\ q.disk[file].chunks = chunks /\ q.disk[file].fmt = d.fmt
          /\ q.disk[file].done = d.done /\ q.disk[file].head = frames
      BY <1>0, <3>2 DEF IsFile
    <3>4. \A n \in DOMAIN q.disk : n \in Names /\ IsFile(q.disk[n])
      <4>1. IsFile(q.disk[file])
        BY <1>0, <1>1, <3>3 DEF IsFile
      <4> SUFFICES ASSUME NEW n \in DOMAIN q.disk PROVE n \in Names /\ IsFile(q.disk[n])
        OBVIOUS
      <4>2. CASE n = file
        BY <1>0, <4>1, <4>2
      <4>3. CASE n # file
        BY <1>d, <3>2, <4>3
      <4> QED
        BY <4>2, <4>3
    <3>5. IsRecorder(q)
      <4>1. q.audioBytes \in Nat /\ q.writer.written \in Nat
        BY <1>0, <2>2, <2>3
      <4>2. q.writer.on \in BOOLEAN /\ q.writer.stopping \in BOOLEAN /\ IsSeq(q.writer.queue)
        BY <1>w, <2>3
      <4> QED
        BY <2>2, <2>3, <3>4, <4>1, <4>2, WriterKeepsRecorder
    <3>6. /\ q.disk[file].chunks = Append(r.disk[file].chunks, chunk)
          /\ q.disk[file].fmt = r.disk[file].fmt /\ q.disk[file].done = r.disk[file].done
      BY <3>3 DEF chunks
    <3>7. q.disk[file].head = IF frames % HeaderPeriod = 0 THEN frames ELSE r.disk[file].head
      BY <2>4, <3>3
    <3> HIDE DEF d
    <3>8. IsWritten(r, q, chunk, file)
      BY <1>3, <2>2, <2>3, <3>2, <3>6, <3>7 DEF IsWritten
    <3> QED
      BY <2>2, <3>5, <3>8
  <2>5. CASE frames % HeaderPeriod # 0
    <3>1. q.disk = [r.disk EXCEPT ![file] = [d EXCEPT !.chunks = chunks]]
      BY <1>3, <2>5 DEF WriteChunk, IsRecorder
    <3> HIDE DEF chunks
    <3>2. /\ DOMAIN q.disk = DOMAIN r.disk
          /\ \A n \in DOMAIN r.disk \ {file} : q.disk[n] = r.disk[n]
          /\ q.disk[file] = [d EXCEPT !.chunks = chunks]
      BY <3>1
    <3>3. /\ DOMAIN q.disk[file] = DOMAIN d /\ q.disk[file].chunks = chunks /\ q.disk[file].fmt = d.fmt
          /\ q.disk[file].done = d.done /\ q.disk[file].head = d.head
      BY <1>0, <3>2 DEF IsFile
    <3>4. \A n \in DOMAIN q.disk : n \in Names /\ IsFile(q.disk[n])
      <4>1. IsFile(q.disk[file])
        BY <1>0, <1>1, <3>3 DEF IsFile
      <4> SUFFICES ASSUME NEW n \in DOMAIN q.disk PROVE n \in Names /\ IsFile(q.disk[n])
        OBVIOUS
      <4>2. CASE n = file
        BY <1>0, <4>1, <4>2
      <4>3. CASE n # file
        BY <1>d, <3>2, <4>3
      <4> QED
        BY <4>2, <4>3
    <3>5. IsRecorder(q)
      <4>1. q.audioBytes \in Nat /\ q.writer.written \in Nat
        BY <1>0, <2>2, <2>3
      <4>2. q.writer.on \in BOOLEAN /\ q.writer.stopping \in BOOLEAN /\ IsSeq(q.writer.queue)
        BY <1>w, <2>3
      <4> QED
        BY <2>2, <2>3, <3>4, <4>1, <4>2, WriterKeepsRecorder
    <3>6. /\ q.disk[file].chunks = Append(r.disk[file].chunks, chunk)
          /\ q.disk[file].fmt = r.disk[file].fmt /\ q.disk[file].done = r.disk[file].done
      BY <3>3 DEF chunks
    <3>7. q.disk[file].head = IF frames % HeaderPeriod = 0 THEN frames ELSE r.disk[file].head
      BY <2>5, <3>3
    <3> HIDE DEF d
    <3>8. IsWritten(r, q, chunk, file)
      BY <1>3, <2>2, <2>3, <3>2, <3>6, <3>7 DEF IsWritten
    <3> QED
      BY <2>2, <3>5, <3>8
  <2> QED
    BY <2>4, <2>5
<1> QED
  BY <1>2, <1>3

LEMMA OneMultiple ==
    ASSUME NEW p \in Nat \ {0}, NEW k \in Int, p * k > -p, p * k <= p
    PROVE  k = 0 \/ k = 1
<1>1. ASSUME k >= 2 PROVE FALSE
  <2>1. p * (k - 2) >= 0
    <3>1. \A a, b \in Nat : a * b >= 0
      OBVIOUS
    <3>2. p \in Nat /\ k - 2 \in Nat
      BY <1>1
    <3> QED
      BY <3>1, <3>2
  <2>2. p * (k - 2) = (p * k) - (2 * p)
    OBVIOUS
  <2>3. p * k \in Int
    OBVIOUS
  <2> QED
    BY <2>1, <2>2, <2>3
<1>2. ASSUME k <= -1 PROVE FALSE
  <2>1. p * (-1 - k) >= 0
    <3>1. \A a, b \in Nat : a * b >= 0
      OBVIOUS
    <3>2. p \in Nat /\ -1 - k \in Nat
      BY <1>2
    <3> QED
      BY <3>1, <3>2
  <2>2. p * (-1 - k) = -p - (p * k)
    OBVIOUS
  <2>3. p * k \in Int
    OBVIOUS
  <2> QED
    BY <2>1, <2>2, <2>3
<1> QED
  BY <1>1, <1>2

\* The header follows every HeaderPeriod frames.
LEMMA HeaderStep ==
    ASSUME NEW w \in Nat, NEW p \in Nat \ {0}
    PROVE  IF (w + 1) % p = 0 THEN (w + 1) - ((w + 1) % p) = w + 1
           ELSE (w + 1) - ((w + 1) % p) = w - (w % p)
<1>1. PICK m, d : m = w % p /\ d = w \div p /\ m \in 0 .. p - 1 /\ d \in Int /\ w = (p * d) + m
  <2>1. w % p \in 0 .. p - 1 /\ w = p * (w \div p) + (w % p) /\ w \div p \in Nat
    OBVIOUS
  <2>2. w \div p \in Int
    BY <2>1
  <2> QED
    BY <2>1, <2>2, Zenon
<1>2. PICK n, e : n = (w + 1) % p /\ e = (w + 1) \div p /\ n \in 0 .. p - 1 /\ e \in Int /\ w + 1 = (p * e) + n
  <2>1. (w + 1) % p \in 0 .. p - 1 /\ w + 1 = p * ((w + 1) \div p) + ((w + 1) % p) /\ (w + 1) \div p \in Nat
    OBVIOUS
  <2>2. (w + 1) \div p \in Int
    BY <2>1
  <2> QED
    BY <2>1, <2>2, Zenon
<1>3. p * (e - d) = (p * e) - (p * d)
  BY <1>1, <1>2
<1>4. p * d \in Int /\ p * e \in Int /\ e - d \in Int
  BY <1>1, <1>2
<1>5. p * (e - d) = m + 1 - n
  BY <1>1, <1>2, <1>3, <1>4
<1>6. e - d = 0 \/ e - d = 1
  <2>1. p * (e - d) > -p /\ p * (e - d) <= p
    BY <1>1, <1>2, <1>5
  <2> QED
    BY <1>4, <2>1, OneMultiple
<1>7. CASE e = d
  <2>1. n = m + 1
    BY <1>1, <1>2, <1>7
  <2> QED
    BY <1>1, <1>2, <2>1
<1>8. CASE e - d = 1
  <2>1. p = m + 1 - n
    BY <1>1, <1>2, <1>5, <1>8
  <2>2. m \in Int /\ n \in Int /\ m <= p - 1 /\ n >= 0
    BY <1>1, <1>2
  <2>3. n = 0
    BY <2>1, <2>2
  <2> QED
    BY <1>2, <2>3
<1> QED
  BY <1>1, <1>2, <1>6, <1>7, <1>8

LEMMA TailOfConcat ==
    ASSUME NEW S, NEW w \in Seq(S), NEW c \in S
    PROVE  /\ Tail(<<c>> \o w) = <<>> \o w /\ (<<c>> \o w)[1] = c /\ <<c>> \o w # <<>>
<1> DEFINE u == <<c>> \o w
           t == <<>> \o w
<1>1. u \in Seq(S) /\ t \in Seq(S) /\ Len(u) = Len(w) + 1 /\ Len(t) = Len(w) /\ u[1] = c
  OBVIOUS
<1>2. \A i \in 1 .. Len(w) : t[i] = u[i + 1]
  OBVIOUS
<1> HIDE DEF u, t
<1>3. Tail(u) = t /\ u # <<>>
  <2>1. Tail(u) \in Seq(S) /\ Len(Tail(u)) = Len(w) /\ \A i \in 1 .. Len(w) : Tail(u)[i] = u[i + 1]
    BY <1>1
  <2>2. PICK x : x = Tail(u)
    OBVIOUS
  <2>3. x = t
    BY <1>1, <1>2, <2>1, <2>2
  <2> QED
    BY <1>1, <2>2, <2>3
<1> QED
  BY <1>1, <1>3 DEF u, t

\* What the writer holds is the first on its way.
LEMMA PipelineOfHeld ==
    ASSUME NEW r, IsRecorder(r), r.writer.held # <<>>, NEW q,
           q.writer.held = <<>>, q.writer.queue = r.writer.queue
    PROVE  /\ Pipeline(q) = Tail(Pipeline(r)) /\ Pipeline(r) # <<>> /\ Pipeline(r)[1] = r.writer.held[1]
           /\ Len(r.writer.held) = 1
<1>1. PICK h, w : h = r.writer.held /\ w = r.writer.queue /\ IsSeq(h) /\ IsSeq(w) /\ h # <<>> /\ Len(h) <= 1
  BY DEF IsRecorder
<1>2. Len(h) = 1 /\ DOMAIN h = {1}
  <2>1. Len(h) \in Nat /\ DOMAIN h = 1 .. Len(h) /\ Len(h) # 0
    BY <1>1, SeqFacts
  <2>2. PICK l : l = Len(h) /\ l \in Nat /\ l # 0 /\ l <= 1
    BY <1>1, <2>1
  <2>3. l = 1 /\ 1 .. l = {1}
    BY <2>2
  <2> QED
    BY <2>1, <2>2, <2>3
<1>3. h = <<h[1]>>
  <2>1. IsSeq(<<h[1]>>) /\ Len(<<h[1]>>) = 1 /\ <<h[1]>>[1] = h[1]
    BY SingletonIsSeq
  <2>2. PICK g : g = <<h[1]>>
    OBVIOUS
  <2>3. h = g
    BY <1>1, <1>2, <2>1, <2>2, SameSeq
  <2> QED
    BY <2>2, <2>3
<1>4. PICK S, c : S = Range(w) \cup {c} /\ c = h[1]
  <2>1. PICK c : c = h[1]
    OBVIOUS
  <2>2. \E S : S = Range(w) \cup {c}
    OBVIOUS
  <2> QED
    BY <2>1, <2>2
<1>5. w \in Seq(S) /\ c \in S
  BY <1>1, <1>4 DEF IsSeq
<1>6. Tail(<<c>> \o w) = <<>> \o w /\ (<<c>> \o w)[1] = c /\ <<c>> \o w # <<>>
  BY <1>5, TailOfConcat
<1> QED
  BY <1>1, <1>2, <1>3, <1>4, <1>6 DEF Pipeline

\* A frame or a packet that is written is counted, in the file of its kind.
LEMMA WriteRecord ==
    ASSUME NEW r, IsRecorder(r), RecordInv(r), r.writer.held # <<>>, NEW q, q = WriteChunk(r)
    PROVE  /\ IsRecorder(q) /\ RecordInv(q) /\ Grows(r, q)
           /\ SameSwitches(r, q) /\ SameSession(r, q) /\ SameMachine(r, q)
           /\ r.file[r.writer.held[1].kind] # None /\ r.writer.on /\ Len(r.writer.held) = 1
           /\ q.writer.held = <<>> /\ q.writer.queue = r.writer.queue /\ q.drops = r.drops
           /\ q.writer.on = r.writer.on /\ q.writer.stopping = r.writer.stopping /\ q.file = r.file
           /\ q.segment = r.segment
           /\ \A n \in DOMAIN q.disk : n \in DOMAIN r.disk /\ q.disk[n].done = r.disk[n].done
<1> DEFINE chunk == r.writer.held[1]
           file == r.file[chunk.kind]
           v == r.file["video"]
           a == r.file["audio"]
<1>1. r.writer.on /\ v # None /\ a # None /\ "video" \in Files /\ "audio" \in Files
  BY DEF RecordInv, WriterInv, Files
<1>2. /\ v \in DOMAIN r.disk /\ a \in DOMAIN r.disk /\ ~r.disk[v].done /\ ~r.disk[a].done
      /\ v[2] = "video" /\ a[2] = "audio" /\ v # a
  <2>1. /\ v \in DOMAIN r.disk /\ a \in DOMAIN r.disk /\ ~r.disk[v].done /\ ~r.disk[a].done
        /\ v = Handle(r, "video") /\ a = Handle(r, "audio")
    BY <1>1 DEF RecordInv, DiskInv
  <2>2. v[2] = "video" /\ a[2] = "audio"
    BY <2>1 DEF Handle, Segment, Name
  <2> QED
    BY <2>1, <2>2
<1>3. IsSeq(Pipeline(r)) /\ FramesIn(Pipeline(r)) \in Nat
  BY PipelineIsSeq
<1>4. Len(r.writer.held) = 1 /\ Pipeline(r) # <<>> /\ Pipeline(r)[1] = chunk
  <2>1. PICK x : x = [r EXCEPT !.writer = [r.writer EXCEPT !.held = <<>>]]
    OBVIOUS
  <2>2. x.writer.held = <<>> /\ x.writer.queue = r.writer.queue
    BY <2>1 DEF IsRecorder
  <2> QED
    BY <2>2, PipelineOfHeld
<1>5. 1 \in DOMAIN Pipeline(r)
  BY <1>3, <1>4, SeqFacts
<1>6. chunk.kind \in {"video", "audio"} /\ (chunk.kind = "video" => chunk.fmt = r.segment.fmt)
  BY <1>4, <1>5 DEF RecordInv, WriterInv
<1>7. file # None /\ file \in DOMAIN r.disk /\ ~r.disk[file].done /\ file \in {v, a} /\ (file = a <=> chunk.kind = "audio")
  BY <1>1, <1>2, <1>6
<1>8. /\ IsRecorder(q) /\ IsWritten(r, q, chunk, file)
      /\ SameSwitches(r, q) /\ SameSession(r, q) /\ SameMachine(r, q)
  BY <1>7, WriteSays
<1>a. \A n \in DOMAIN r.disk : n \in Names /\ n # None /\ n[2] \in Files /\ IsFile(r.disk[n])
  BY NameFacts DEF IsRecorder
<1>9. Pipeline(q) = Tail(Pipeline(r))
  <2>1. q.writer.held = <<>> /\ q.writer.queue = r.writer.queue
    BY <1>8 DEF IsWritten
  <2> QED
    BY <2>1, PipelineOfHeld
<1> HIDE DEF chunk, file, v, a
<1>10. /\ DOMAIN q.disk = DOMAIN r.disk
       /\ \A n \in DOMAIN r.disk : q.disk[n].done = r.disk[n].done /\ q.disk[n].fmt = r.disk[n].fmt
       /\ \A n \in DOMAIN r.disk \ {file} : q.disk[n] = r.disk[n]
       /\ q.disk[file].chunks = Append(r.disk[file].chunks, chunk)
       /\ q.file = r.file /\ q.segment = r.segment /\ q.drops = r.drops
       /\ q.writer.held = <<>> /\ q.writer.queue = r.writer.queue
       /\ q.writer.on = r.writer.on /\ q.writer.stopping = r.writer.stopping
  BY <1>8 DEF IsWritten
<1>b. IsSeq(r.disk[file].chunks)
  BY <1>7, <1>a DEF IsFile
<1>c. /\ Len(q.disk[file].chunks) = Len(r.disk[file].chunks) + 1
      /\ DOMAIN q.disk[file].chunks = DOMAIN r.disk[file].chunks \cup {Len(r.disk[file].chunks) + 1}
      /\ \A i \in DOMAIN r.disk[file].chunks : q.disk[file].chunks[i] = r.disk[file].chunks[i]
      /\ q.disk[file].chunks[Len(r.disk[file].chunks) + 1] = chunk
      /\ IsPrefix(r.disk[file].chunks, q.disk[file].chunks)
  <2>1. PICK s, t : s = r.disk[file].chunks /\ IsSeq(s) /\ t = q.disk[file].chunks /\ t = Append(s, chunk)
    BY <1>10, <1>b
  <2>2. /\ Len(t) = Len(s) + 1 /\ DOMAIN t = DOMAIN s \cup {Len(s) + 1}
        /\ \A i \in DOMAIN s : t[i] = s[i]
        /\ t[Len(s) + 1] = chunk
    <3>1. IsSeq(s) /\ t = Append(s, chunk)
      BY <2>1
    <3>2. Len(t) = Len(s) + 1
      BY <3>1, AppendIsSeq
    <3>3. DOMAIN t = DOMAIN s \cup {Len(s) + 1}
      BY <3>1, AppendIsSeq
    <3>4. \A i \in DOMAIN s : t[i] = s[i]
      BY <3>1, AppendIsSeq
    <3>5. t[Len(s) + 1] = chunk
      BY <3>1, AppendIsSeq
    <3> QED
      BY <3>2, <3>3, <3>4, <3>5
  <2>3. IsPrefix(s, t)
    BY <2>1, PrefixOfAppend
  <2> QED
    BY <2>1, <2>2, <2>3
<1>11. DiskInv(q)
  <2>1. \A s : VideoDone(r, s) => VideoDone(q, s)
    BY <1>10 DEF VideoDone
  <2>2. \A f \in Files : q.file[f] # None =>
          /\ q.session # 0 /\ q.file[f] = Handle(q, f)
          /\ q.file[f] \in DOMAIN q.disk /\ ~q.disk[q.file[f]].done
    BY <1>8, <1>10 DEF RecordInv, DiskInv, SameSession, Handle, Name, Segment
  <2> SUFFICES ASSUME NEW n \in DOMAIN r.disk
               PROVE  /\ n[1] <= q.sessions
                      /\ ~q.disk[n].done => q.disk[n].chunks = <<>> \/ q.file[n[2]] = n
                      /\ n[2] \notin {"video", "audio"} => q.disk[n].chunks = <<>>
                      /\ n[2] = "audio" /\ q.disk[n].done => VideoDone(q, n[1])
                      /\ n[2] = "video" /\ n[3] > 0 => VideoDone(q, n[1])
                      /\ q.file["video"] # None /\ n[1] = q.session /\ n[2] = "video" => n[3] <= q.segment.index
    BY <1>8, <1>10, <2>2 DEF DiskInv, SameSession, RecordInv
  <2>3. /\ n[1] <= q.sessions
        /\ n[2] = "audio" /\ q.disk[n].done => VideoDone(q, n[1])
        /\ n[2] = "video" /\ n[3] > 0 => VideoDone(q, n[1])
        /\ q.file["video"] # None /\ n[1] = q.session /\ n[2] = "video" => n[3] <= q.segment.index
    BY <1>8, <1>10, <2>1 DEF RecordInv, DiskInv, SameSession
  <2>4. CASE n = file
    <3>1. n[2] \in {"video", "audio"} /\ q.file[n[2]] = n
      BY <1>2, <1>7, <1>10, <2>4 DEF v, a
    <3> QED
      BY <2>3, <3>1
  <2>5. CASE n # file
    <3>1. /\ ~q.disk[n].done => q.disk[n].chunks = <<>> \/ q.file[n[2]] = n
          /\ n[2] \notin {"video", "audio"} => q.disk[n].chunks = <<>>
      BY <1>10, <2>5 DEF RecordInv, DiskInv
    <3> QED
      BY <2>3, <3>1
  <2> QED
    BY <2>4, <2>5
<1>d. /\ DOMAIN Tail(Pipeline(r)) = 1 .. Len(Pipeline(r)) - 1
      /\ \A i \in 1 .. Len(Pipeline(r)) - 1 : Tail(Pipeline(r))[i] = Pipeline(r)[i + 1]
      /\ DOMAIN Pipeline(r) = 1 .. Len(Pipeline(r)) /\ Len(Pipeline(r)) \in Nat \ {0}
  BY <1>3, <1>4, TailIsSeq, SeqFacts
<1>12. WriterInv(q)
  <2>1. \A i \in DOMAIN Pipeline(q) : Pipeline(q)[i] = Pipeline(r)[i + 1] /\ i + 1 \in DOMAIN Pipeline(r)
    BY <1>9, <1>d
  <2>2. \A i \in DOMAIN Pipeline(q) : /\ Pipeline(q)[i].kind \in {"video", "audio"}
                                      /\ Pipeline(q)[i].kind = "video" => Pipeline(q)[i].fmt = q.segment.fmt
    BY <1>10, <2>1 DEF RecordInv, WriterInv
  <2> QED
    BY <1>1, <1>10, <2>2 DEF WriterInv, v, a
<1>13. CountInv(q)
  <2> DEFINE F == FramesIn(Pipeline(r))
             G == FramesIn(Pipeline(q))
  <2>0. /\ r.writer.written = Len(r.disk[v].chunks) /\ r.writer.written \in Nat
        /\ r.segment.frames = r.writer.written + F /\ F \in Nat
        /\ r.segment.frames <= SegmentFrames /\ r.segment.fmt = r.disk[v].fmt
        /\ r.disk[v].head = r.writer.written - (r.writer.written % HeaderPeriod)
        /\ r.audioBytes = Len(r.disk[a].chunks) /\ r.audioBytes \in Nat
    BY <1>1, <1>3 DEF RecordInv, CountInv, IsRecorder, v, a
  <2>1. F = IF chunk.kind = "video" THEN G + 1 ELSE G
    BY <1>3, <1>4, <1>9, FramesOfTail DEF chunk
  <2>2. G \in Nat
    BY <1>8, PipelineIsSeq
  <2> HIDE DEF F, G
  <2>3. CASE chunk.kind = "audio"
    <3>1. /\ q.audioBytes = r.audioBytes + 1 /\ q.writer.written = r.writer.written /\ file = a
          /\ q.disk[v] = r.disk[v]
      BY <1>2, <1>7, <1>8, <1>10, <2>3 DEF IsWritten
    <3>2. /\ q.writer.written = Len(q.disk[v].chunks)
          /\ q.segment.frames = q.writer.written + G
          /\ q.segment.frames <= SegmentFrames /\ q.segment.fmt = q.disk[v].fmt
          /\ q.disk[v].head = q.writer.written - (q.writer.written % HeaderPeriod)
      BY <1>10, <2>0, <2>1, <2>3, <3>1
    <3>3. q.audioBytes = Len(q.disk[a].chunks)
      BY <1>c, <2>0, <3>1
    <3> QED
      BY <1>10, <3>2, <3>3 DEF CountInv, v, a, G
  <2>4. CASE chunk.kind = "video"
    <3>1. /\ q.audioBytes = r.audioBytes /\ q.writer.written = r.writer.written + 1 /\ file = v
          /\ q.disk[a] = r.disk[a]
          /\ q.disk[v].head = IF (r.writer.written + 1) % HeaderPeriod = 0 THEN r.writer.written + 1 ELSE r.disk[v].head
      BY <1>2, <1>7, <1>8, <1>10, <2>4 DEF IsWritten
    <3>2. /\ q.writer.written = Len(q.disk[v].chunks)
      BY <1>c, <2>0, <3>1
    <3>3. /\ q.segment.frames = q.writer.written + G
          /\ q.segment.frames <= SegmentFrames /\ q.segment.fmt = q.disk[v].fmt
      <4>1. q.segment = r.segment /\ q.disk[v].fmt = r.disk[v].fmt
        BY <1>2, <1>10
      <4>2. F = G + 1
        BY <2>1, <2>4
      <4>3. PICK w : w = r.writer.written /\ w \in Nat
        BY <2>0
      <4>4. r.segment.frames = w + F /\ q.writer.written = w + 1
        BY <2>0, <3>1, <4>3
      <4>5. r.segment.frames = q.writer.written + G
        BY <2>2, <4>2, <4>3, <4>4
      <4> QED
        BY <2>0, <4>1, <4>5
    <3>4. q.disk[v].head = q.writer.written - (q.writer.written % HeaderPeriod)
      BY <2>0, <3>1, HeaderStep, RecorderAssumption
    <3>5. q.audioBytes = Len(q.disk[a].chunks)
      BY <2>0, <3>1
    <3> QED
      BY <1>10, <3>2, <3>3, <3>4, <3>5 DEF CountInv, v, a, G
  <2> QED
    BY <1>6, <2>3, <2>4
<1>14. ContentInv(q)
  <2> SUFFICES ASSUME NEW n \in DOMAIN r.disk, n[2] \in {"video", "audio"}
               PROVE  /\ q.disk[n].done => q.disk[n].head = InHeader(n[2], Len(q.disk[n].chunks))
                      /\ n[2] = "video" => /\ Len(q.disk[n].chunks) <= SegmentFrames
                                           /\ \A i \in DOMAIN q.disk[n].chunks : q.disk[n].chunks[i].fmt = q.disk[n].fmt
                      /\ n[2] = "video" /\ ~q.disk[n].done /\ q.file["video"] # n => q.disk[n].head = 0
    BY <1>10 DEF ContentInv
  <2>1. CASE n # file
    BY <1>10, <2>1 DEF RecordInv, ContentInv
  <2>2. CASE n = file /\ chunk.kind = "audio"
    BY <1>2, <1>7, <1>10, <2>2
  <2>3. CASE n = file /\ chunk.kind = "video"
    <3>1. n = v /\ q.file["video"] = n /\ ~q.disk[n].done
      BY <1>6, <1>7, <1>10, <2>3 DEF v
    <3>2. Len(q.disk[n].chunks) <= SegmentFrames
      <4>1. PICK w, p : w = q.writer.written /\ p = FramesIn(Pipeline(q)) /\ w \in Nat /\ p \in Nat
        <5>1. q.writer.written \in Nat
          BY <1>8 DEF IsRecorder
        <5>2. FramesIn(Pipeline(q)) \in Nat
          BY <1>8, PipelineIsSeq
        <5> QED
          BY <5>1, <5>2
      <4>2. w = Len(q.disk[n].chunks) /\ q.segment.frames = w + p /\ q.segment.frames <= SegmentFrames
        BY <1>1, <1>10, <1>13, <3>1, <4>1 DEF CountInv
      <4> QED
        BY <4>1, <4>2, RecorderAssumption
    <3>3. \A i \in DOMAIN r.disk[n].chunks : r.disk[n].chunks[i].fmt = r.disk[n].fmt
      BY <3>1, <1>2 DEF RecordInv, ContentInv
    <3>4. chunk.fmt = r.disk[n].fmt
      BY <1>1, <1>6, <2>3, <3>1 DEF RecordInv, CountInv, v
    <3>5. \A i \in DOMAIN q.disk[n].chunks : q.disk[n].chunks[i].fmt = q.disk[n].fmt
      <4>1. PICK s, t, l : s = r.disk[n].chunks /\ t = q.disk[n].chunks /\ l = Len(s) + 1
        OBVIOUS
      <4>2. DOMAIN t = DOMAIN s \cup {l} /\ t[l] = chunk /\ \A i \in DOMAIN s : t[i] = s[i]
        BY <1>c, <2>3, <4>1
      <4>3. q.disk[n].fmt = r.disk[n].fmt
        BY <1>10
      <4> SUFFICES ASSUME NEW i \in DOMAIN t PROVE t[i].fmt = r.disk[n].fmt
        BY <4>1, <4>3
      <4>4. CASE i \in DOMAIN s
        BY <3>3, <4>1, <4>2, <4>4
      <4>5. CASE i = l
        BY <3>4, <4>2, <4>5
      <4> QED
        BY <4>2, <4>4, <4>5
    <3>6. ~q.disk[n].done /\ ~(q.file["video"] # n)
      BY <3>1
    <3> QED
      BY <3>2, <3>5, <3>6
  <2> QED
    BY <1>6, <2>1, <2>2, <2>3
<1>15. Grows(r, q)
  <2> SUFFICES ASSUME NEW n \in DOMAIN r.disk
               PROVE  IF r.disk[n].done THEN q.disk[n] = r.disk[n]
                      ELSE IsPrefix(r.disk[n].chunks, q.disk[n].chunks)
    BY <1>10 DEF Grows
  <2>1. CASE n = file
    BY <1>7, <1>c, <2>1
  <2>2. CASE n # file
    BY <1>10, <1>a, <2>2, PrefixOfItself DEF IsFile
  <2> QED
    BY <2>1, <2>2
<1> QED
  BY <1>1, <1>4, <1>7, <1>8, <1>10, <1>11, <1>12, <1>13, <1>14, <1>15 DEF RecordInv, file, chunk

\* The writer is told to stop: what is on its way stays so.
LEMMA StopWritingRecord ==
    ASSUME NEW r, IsRecorder(r), RecordInv(r), NEW q, q = StopWriting(r)
    PROVE  /\ IsRecorder(q) /\ RecordInv(q) /\ Grows(r, q)
           /\ q.writer.on = r.writer.on /\ q.writer.queue = r.writer.queue /\ q.writer.held = r.writer.held
           /\ q.writer.stopping = TRUE
           /\ SameSwitches(r, q) /\ SameSession(r, q) /\ SameFiles(r, q) /\ SameCounts(r, q) /\ SameMachine(r, q)
<1>1. /\ DOMAIN q = DOMAIN r
      /\ SameSwitches(r, q) /\ SameSession(r, q) /\ SameFiles(r, q) /\ SameCounts(r, q) /\ SameMachine(r, q)
      /\ q.writer = [r.writer EXCEPT !.stopping = TRUE]
  BY DEF StopWriting, IsRecorder, SameSwitches, SameSession, SameFiles, SameCounts, SameMachine
<1>2. /\ DOMAIN q.writer = DOMAIN r.writer
      /\ q.writer.held = r.writer.held /\ q.writer.queue = r.writer.queue /\ q.writer.on = r.writer.on
      /\ q.writer.stopping = TRUE /\ q.writer.written = r.writer.written
  BY <1>1 DEF IsRecorder
<1>3. IsRecorder(q)
  BY <1>1, <1>2 DEF IsRecorder, SameSwitches, SameSession, SameFiles, SameCounts, SameMachine
<1>4. Pipeline(q) = Pipeline(r)
  BY <1>2 DEF Pipeline
<1>5. DiskInv(q)
  BY <1>1 DEF RecordInv, DiskInv, SameSession, SameFiles, SameCounts, Handle, Name, Segment, VideoDone
<1>6. WriterInv(q)
  BY <1>1, <1>2, <1>4 DEF RecordInv, WriterInv, SameFiles, SameCounts
<1>7. CountInv(q)
  BY <1>1, <1>2, <1>4 DEF RecordInv, CountInv, SameFiles, SameCounts
<1>8. ContentInv(q)
  BY <1>1 DEF RecordInv, ContentInv, SameFiles
<1>9. Grows(r, q)
  BY <1>1, UnchangedGrows DEF SameFiles
<1> QED
  BY <1>1, <1>2, <1>3, <1>5, <1>6, <1>7, <1>8, <1>9 DEF RecordInv

----------------------------------------------------------------------------
(***************************************************************************)
(* The next segment.                                                       *)
(***************************************************************************)
\* The old file is finished, the new one is open, and so is the writer.
IsRolled(r, q, name, fmt) ==
    LET v == r.file["video"]
    IN  /\ q.writer = NewWriter /\ q.segment = NewSegment(r.segment.index + 1, fmt)
        /\ q.audioBytes = r.audioBytes /\ q.drops = r.drops
        /\ q.file["video"] = name /\ \A f \in Files \ {"video"} : q.file[f] = r.file[f]
        /\ DOMAIN q.disk = DOMAIN r.disk \cup {name}
        /\ \A n \in DOMAIN r.disk \ {v, name} : q.disk[n] = r.disk[n]
        /\ q.disk[v].chunks = r.disk[v].chunks /\ q.disk[v].fmt = r.disk[v].fmt
        /\ q.disk[v].head = InHeader("video", r.segment.frames) /\ q.disk[v].done = TRUE
        /\ q.disk[name] = [chunks |-> <<>>, fmt |-> fmt, head |-> 0, done |-> FALSE]

LEMMA NewWriterSays ==
    /\ DOMAIN NewWriter = {"on", "queue", "stopping", "held", "written"}
    /\ NewWriter.on = TRUE /\ NewWriter.stopping = FALSE /\ NewWriter.written = 0
    /\ NewWriter.queue = <<>> /\ NewWriter.held = <<>>
  BY DEF NewWriter, NoWriter

LEMMA RollSays ==
    ASSUME NEW r, IsRecorder(r), NEW fmt, NEW o \in Roll(r, fmt, 0), NEW name,
           name = <<r.session, "video", r.segment.index + 1>>,
           r.file["video"] # None, r.file["video"] \in DOMAIN r.disk, r.file["video"] # name
    PROVE  /\ IsRecorder(o.r) /\ IsRolled(r, o.r, name, fmt) /\ o.cost = 0
           /\ SameSwitches(r, o.r) /\ SameSession(r, o.r) /\ SameMachine(r, o.r)
<1> DEFINE free == FreeWriter(r)
           ended == Finish(free, "video", r.segment.frames)
           next == [ended EXCEPT !.segment.index = @ + 1]
           open == Open(next, "video", Segment(next, next.segment.index), fmt)
           opened == [open EXCEPT !.segment = NewSegment(next.segment.index, fmt)]
           written == [opened EXCEPT !.writer = IF @.on THEN @ ELSE NewWriter]
<1>0. "video" \in Files /\ r.segment.frames \in Nat /\ r.segment.index \in Nat /\ r.session \in Nat /\ name \in Names
  BY DEF Files, IsRecorder, Names
<1>1. /\ IsRecorder(free) /\ free.writer = NoWriter
      /\ SameSwitches(r, free) /\ SameSession(r, free) /\ SameFiles(r, free) /\ SameCounts(r, free) /\ SameMachine(r, free)
  BY FreeWriterSays
<1>2. o = [r |-> IF written.writer.on THEN written ELSE [written EXCEPT !.video = FALSE], cost |-> 0]
  <2>1. \A x : Failing(x, 0) = {}
    BY DEF Failing
  <2>2. PICK x \in StartWriter(opened, 0) :
          o = [r |-> IF x.r.writer.on THEN x.r ELSE [x.r EXCEPT !.video = FALSE], cost |-> x.cost]
    BY <2>1, Zenon DEF Roll
  <2>3. StartWriter(opened, 0) = {[r |-> written, cost |-> 0]}
    <3> HIDE DEF opened
    <3> QED
      BY <2>1 DEF StartWriter, Working
  <2> HIDE DEF written, opened
  <2>4. x = [r |-> written, cost |-> 0]
    BY <2>2, <2>3
  <2>5. x.r = written /\ x.cost = 0
    BY <2>4
  <2> QED
    BY <2>2, <2>5
<1> HIDE DEF free
<1>3. free.file = r.file /\ free.disk = r.disk
  BY <1>1 DEF SameFiles
<1>4. /\ IsRecorder(ended) /\ IsFinished(free, ended, "video", InHeader("video", r.segment.frames))
      /\ SameSwitches(free, ended) /\ SameSession(free, ended) /\ SameWriter(free, ended) /\ SameMachine(free, ended)
  BY <1>0, <1>1, <1>3, FinishSays
<1> HIDE DEF ended
<1>5. /\ SameSwitches(r, ended) /\ SameSession(r, ended) /\ SameMachine(r, ended)
      /\ ended.segment = r.segment /\ ended.audioBytes = r.audioBytes /\ ended.drops = r.drops /\ ended.writer = NoWriter
  BY <1>1, <1>4 DEF SameSwitches, SameSession, SameMachine, SameWriter, SameCounts
<1>6. /\ DOMAIN next = DOMAIN ended /\ next.segment = [ended.segment EXCEPT !.index = ended.segment.index + 1]
      /\ next.audioBytes = ended.audioBytes /\ next.drops = ended.drops /\ next.writer = ended.writer
      /\ SameSwitches(ended, next) /\ SameSession(ended, next) /\ SameFiles(ended, next) /\ SameMachine(ended, next)
  BY <1>4 DEF IsRecorder, SameSwitches, SameSession, SameFiles, SameMachine
<1> HIDE DEF next
<1>7. /\ DOMAIN next.segment = DOMAIN ended.segment /\ next.segment.index = r.segment.index + 1
      /\ next.segment.frames = r.segment.frames
  BY <1>4, <1>5, <1>6 DEF IsRecorder
<1>8. IsRecorder(next)
  BY <1>0, <1>4, <1>6, <1>7, <1>5 DEF IsRecorder, SameSwitches, SameSession, SameFiles, SameMachine
<1>9. Segment(next, next.segment.index) = name
  BY <1>5, <1>6, <1>7 DEF Segment, SameSession
<1>10. /\ IsRecorder(open) /\ IsOpened(next, open, "video", name, fmt)
       /\ SameSwitches(next, open) /\ SameSession(next, open) /\ SameWriter(next, open) /\ SameMachine(next, open)
  <2>1. name \in Names /\ "video" \in Files /\ Segment(next, next.segment.index) = name
    BY <1>0, <1>9
  <2> QED
    BY <1>8, <2>1, OpenSays DEF IsOpened
<1> HIDE DEF open
<1>11. /\ DOMAIN opened = DOMAIN open /\ opened.segment = NewSegment(r.segment.index + 1, fmt)
       /\ opened.audioBytes = open.audioBytes /\ opened.drops = open.drops /\ opened.writer = open.writer
       /\ SameSwitches(open, opened) /\ SameSession(open, opened) /\ SameFiles(open, opened) /\ SameMachine(open, opened)
  BY <1>7, <1>10 DEF IsRecorder, SameSwitches, SameSession, SameFiles, SameMachine
<1> HIDE DEF opened
<1>12. /\ opened.writer = NoWriter /\ ~NoWriter.on
  BY <1>5, <1>6, <1>10, <1>11 DEF SameWriter, NoWriter
<1>13. /\ DOMAIN written = DOMAIN opened /\ written.writer = NewWriter
       /\ written.segment = opened.segment
       /\ written.audioBytes = opened.audioBytes /\ written.drops = opened.drops
       /\ SameSwitches(opened, written) /\ SameSession(opened, written) /\ SameFiles(opened, written) /\ SameMachine(opened, written)
  BY <1>10, <1>11, <1>12 DEF IsRecorder, SameSwitches, SameSession, SameFiles, SameMachine
<1>14. o.r = written /\ o.cost = 0
  BY <1>2, <1>13, NewWriterSays
<1> HIDE DEF written
<1>15. /\ DOMAIN NewSegment(r.segment.index + 1, fmt) = {"index", "fmt", "frames"}
       /\ NewSegment(r.segment.index + 1, fmt).index \in Nat /\ NewSegment(r.segment.index + 1, fmt).frames \in Nat
  BY <1>0 DEF NewSegment
<1>16. /\ SameSwitches(open, written) /\ SameSession(open, written) /\ SameFiles(open, written) /\ SameMachine(open, written)
       /\ written.segment = NewSegment(r.segment.index + 1, fmt) /\ written.audioBytes = open.audioBytes
       /\ written.drops = open.drops /\ DOMAIN written = DOMAIN open
  BY <1>11, <1>13 DEF SameSwitches, SameSession, SameFiles, SameMachine
<1>17. IsRecorder(written)
  <2>1. /\ DOMAIN written.writer = {"on", "queue", "stopping", "held", "written"}
        /\ written.writer.on \in BOOLEAN /\ written.writer.stopping \in BOOLEAN /\ written.writer.written \in Nat
        /\ written.writer.queue = <<>> /\ written.writer.held = <<>>
    <3>1. written.writer = NewWriter
      BY <1>13
    <3>2. written.writer.on = TRUE /\ written.writer.stopping = FALSE
      BY <3>1, NewWriterSays
    <3>3. DOMAIN written.writer = {"on", "queue", "stopping", "held", "written"} /\ written.writer.written = 0
      BY <3>1, NewWriterSays
    <3>4. written.writer.queue = <<>> /\ written.writer.held = <<>>
      BY <3>1, NewWriterSays
    <3>5. written.writer.on \in BOOLEAN /\ written.writer.stopping \in BOOLEAN
      BY <3>2
    <3>6. written.writer.written \in Nat
      BY <3>3
    <3> QED
      BY <3>3, <3>4, <3>5, <3>6
  <2>3. IsSeq(written.writer.queue) /\ IsSeq(written.writer.held) /\ Len(written.writer.held) <= 1
    BY <2>1, EmptyIsSeq
  <2>2. /\ DOMAIN written.segment = {"index", "fmt", "frames"}
        /\ written.segment.index \in Nat /\ written.segment.frames \in Nat
    BY <1>15, <1>16
  <2> QED
    BY <1>10, <1>16, <2>1, <2>2, <2>3 DEF IsRecorder, SameSwitches, SameSession, SameFiles, SameMachine
<1>18. SameSwitches(r, written) /\ SameSession(r, written) /\ SameMachine(r, written)
  BY <1>5, <1>6, <1>10, <1>16 DEF SameSwitches, SameSession, SameMachine
<1>19. IsRolled(r, written, name, fmt)
  <2>1. written.file["video"] = name /\ \A f \in Files \ {"video"} : written.file[f] = r.file[f]
    <3>1. written.file = [next.file EXCEPT !["video"] = name] /\ next.file = [r.file EXCEPT !["video"] = None]
      BY <1>3, <1>4, <1>6, <1>10, <1>16 DEF SameFiles, IsOpened, IsFinished
    <3>2. DOMAIN r.file = Files
      BY DEF IsRecorder
    <3> QED
      BY <1>0, <3>1, <3>2
  <2>2. next.disk = ended.disk /\ written.disk = open.disk
    BY <1>6, <1>16 DEF SameFiles
  <2>3. /\ DOMAIN written.disk = DOMAIN r.disk \cup {name}
        /\ \A n \in DOMAIN r.disk \ {r.file["video"], name} : written.disk[n] = r.disk[n]
        /\ written.disk[r.file["video"]] = ended.disk[r.file["video"]]
        /\ written.disk[name] = [chunks |-> <<>>, fmt |-> fmt, head |-> 0, done |-> FALSE]
    BY <1>3, <1>4, <1>10, <2>2 DEF IsOpened, IsFinished
  <2>4. /\ ended.disk[r.file["video"]].chunks = r.disk[r.file["video"]].chunks
        /\ ended.disk[r.file["video"]].fmt = r.disk[r.file["video"]].fmt
        /\ ended.disk[r.file["video"]].head = InHeader("video", r.segment.frames) /\ ended.disk[r.file["video"]].done = TRUE
    BY <1>3, <1>4 DEF IsFinished
  <2>5. written.audioBytes = r.audioBytes /\ written.drops = r.drops
    BY <1>5, <1>6, <1>10, <1>16 DEF SameWriter
  <2> QED
    BY <1>13, <1>16, <2>1, <2>3, <2>4, <2>5 DEF IsRolled
<1> QED
  BY <1>14, <1>17, <1>18, <1>19

\* The old segment is complete, the new one begins, and the recording goes on.
LEMMA RollRecord ==
    ASSUME NEW r, IsRecorder(r), RecordInv(r), r.writer.on, r.writer.queue = <<>>, r.writer.held = <<>>,
           NEW fmt, NEW o \in Roll(r, fmt, 0)
    PROVE  /\ IsRecorder(o.r) /\ RecordInv(o.r) /\ Grows(r, o.r) /\ o.cost = 0
           /\ SameSwitches(r, o.r) /\ SameSession(r, o.r) /\ SameMachine(r, o.r)
           /\ o.r.writer = NewWriter /\ o.r.drops = r.drops /\ ~NeedsRoll(o.r, fmt)
           /\ o.r.file["video"] # None /\ \A f \in Files \ {"video"} : o.r.file[f] = r.file[f]
           /\ \A n \in DOMAIN o.r.disk : o.r.disk[n].done => n[2] = "video" \/ (n \in DOMAIN r.disk /\ r.disk[n].done)
<1> DEFINE q == o.r
           v == r.file["video"]
           a == r.file["audio"]
           name == <<r.session, "video", r.segment.index + 1>>
<1>1. r.segment.index \in Nat /\ r.session \in Nat /\ r.segment.frames \in Nat /\ "video" \in Files /\ "audio" \in Files
  BY DEF IsRecorder, Files
<1>2. v # None /\ a # None
  BY DEF RecordInv, WriterInv
<1>3. /\ v \in DOMAIN r.disk /\ a \in DOMAIN r.disk /\ ~r.disk[v].done /\ ~r.disk[a].done
      /\ v = Handle(r, "video") /\ a = Handle(r, "audio") /\ r.session # 0
  BY <1>1, <1>2 DEF RecordInv, DiskInv
<1>4. v = <<r.session, "video", r.segment.index>> /\ a = <<r.session, "audio", 0>>
  BY <1>3 DEF Handle, Segment, Name
<1>5. name # v /\ name # a /\ v # a /\ name \in Names /\ name # None /\ name[1] = r.session /\ name[2] = "video"
      /\ name[3] = r.segment.index + 1 /\ v[1] = r.session /\ v[2] = "video" /\ v[3] = r.segment.index
      /\ a[1] = r.session /\ a[2] = "audio"
  BY <1>1, <1>4, NameFacts DEF Names
<1>6. name \notin DOMAIN r.disk
  <2>1. \A n \in DOMAIN r.disk : n[1] = r.session /\ n[2] = "video" => n[3] <= r.segment.index
    BY <1>2 DEF RecordInv, DiskInv
  <2> QED
    BY <1>1, <1>5, <2>1
<1>7. /\ IsRecorder(q) /\ IsRolled(r, q, name, fmt) /\ o.cost = 0
      /\ SameSwitches(r, q) /\ SameSession(r, q) /\ SameMachine(r, q)
  BY <1>2, <1>3, <1>5, RollSays
<1>a. \A n \in DOMAIN r.disk : n \in Names /\ n # None /\ n[1] \in Nat /\ n[2] \in Files /\ n[3] \in Nat /\ IsFile(r.disk[n])
  BY NameFacts DEF IsRecorder
<1> HIDE DEF q, v, a, name
<1>8. /\ q.writer = NewWriter /\ q.segment = NewSegment(r.segment.index + 1, fmt)
      /\ q.audioBytes = r.audioBytes /\ q.drops = r.drops
      /\ q.file["video"] = name /\ \A f \in Files \ {"video"} : q.file[f] = r.file[f]
      /\ DOMAIN q.disk = DOMAIN r.disk \cup {name}
      /\ \A n \in DOMAIN r.disk \ {v} : q.disk[n] = r.disk[n]
      /\ q.disk[v].chunks = r.disk[v].chunks /\ q.disk[v].fmt = r.disk[v].fmt
      /\ q.disk[v].head = InHeader("video", r.segment.frames) /\ q.disk[v].done = TRUE
      /\ q.disk[name] = [chunks |-> <<>>, fmt |-> fmt, head |-> 0, done |-> FALSE]
  BY <1>6, <1>7 DEF IsRolled, v
<1>9. q.segment.index = r.segment.index + 1 /\ q.segment.fmt = fmt /\ q.segment.frames = 0
  BY <1>8 DEF NewSegment
<1>10. q.session = r.session /\ q.sessions = r.sessions
  BY <1>7 DEF SameSession
<1>11. VideoDone(q, r.session)
  <2>1. CASE r.segment.index = 0
    <3>1. v = <<r.session, "video", 0>>
      BY <1>4, <2>1 DEF v
    <3> QED
      BY <1>3, <1>8, <3>1 DEF VideoDone, v
  <2>2. CASE r.segment.index > 0
    <3>1. VideoDone(r, r.session)
      BY <1>3, <1>5, <2>2 DEF RecordInv, DiskInv
    <3> QED
      BY <1>8, <3>1 DEF VideoDone
  <2> QED
    BY <1>1, <2>1, <2>2
<1>12. \A s : VideoDone(r, s) => VideoDone(q, s)
  BY <1>8 DEF VideoDone
<1>13. \A f \in Files : q.file[f] # None =>
          /\ q.session # 0 /\ q.file[f] = Handle(q, f)
          /\ q.file[f] \in DOMAIN q.disk /\ ~q.disk[q.file[f]].done
  <2> SUFFICES ASSUME NEW f \in Files, q.file[f] # None
               PROVE  /\ q.file[f] = Handle(q, f)
                      /\ q.file[f] \in DOMAIN q.disk /\ ~q.disk[q.file[f]].done
    BY <1>3, <1>10
  <2>1. CASE f = "video"
    BY <1>8, <1>9, <1>10, <2>1 DEF Handle, Segment, name
  <2>2. CASE f # "video"
    <3>1. q.file[f] = r.file[f] /\ r.file[f] = Handle(r, f) /\ r.file[f] \in DOMAIN r.disk /\ ~r.disk[r.file[f]].done
      BY <1>8, <2>2 DEF RecordInv, DiskInv
    <3>2. Handle(q, f) = Handle(r, f) /\ Handle(r, f)[2] = f
      BY <1>10, <2>2 DEF Handle, Name
    <3>3. r.file[f] # v
      BY <1>5, <2>2, <3>1, <3>2
    <3> QED
      BY <1>8, <3>1, <3>2, <3>3
  <2> QED
    BY <2>1, <2>2
<1>14. DiskInv(q)
  <2> SUFFICES ASSUME NEW n \in DOMAIN q.disk
               PROVE  /\ n[1] <= q.sessions
                      /\ ~q.disk[n].done => q.disk[n].chunks = <<>> \/ q.file[n[2]] = n
                      /\ n[2] \notin {"video", "audio"} => q.disk[n].chunks = <<>>
                      /\ n[2] = "audio" /\ q.disk[n].done => VideoDone(q, n[1])
                      /\ n[2] = "video" /\ n[3] > 0 => VideoDone(q, n[1])
                      /\ q.file["video"] # None /\ n[1] = q.session /\ n[2] = "video" => n[3] <= q.segment.index
    BY <1>10, <1>13 DEF DiskInv, RecordInv
  <2>0. r.session <= r.sessions
    BY DEF RecordInv, DiskInv
  <2>1. CASE n = name
    BY <1>1, <1>5, <1>8, <1>9, <1>10, <1>11, <2>0, <2>1
  <2>2. CASE n = v
    <3>1. n[1] <= q.sessions /\ n[3] <= q.segment.index
      BY <1>1, <1>5, <1>9, <1>10, <2>0, <2>2
    <3> QED
      BY <1>5, <1>8, <1>11, <2>2, <3>1
  <2>3. CASE n \notin {v, name}
    <3>1. n \in DOMAIN r.disk /\ q.disk[n] = r.disk[n]
      BY <1>8, <2>3
    <3>2. n[1] <= q.sessions
      BY <1>10, <3>1 DEF RecordInv, DiskInv
    <3>3. /\ n[2] \notin {"video", "audio"} => q.disk[n].chunks = <<>>
          /\ n[2] = "audio" /\ q.disk[n].done => VideoDone(q, n[1])
          /\ n[2] = "video" /\ n[3] > 0 => VideoDone(q, n[1])
      BY <1>12, <3>1 DEF RecordInv, DiskInv
    <3>4. ~q.disk[n].done => q.disk[n].chunks = <<>> \/ q.file[n[2]] = n
      <4> SUFFICES ASSUME ~r.disk[n].done, r.disk[n].chunks # <<>>
                   PROVE  q.file[n[2]] = n
        BY <3>1
      <4>1. r.file[n[2]] = n /\ n[2] \in Files
        BY <1>a, <3>1 DEF RecordInv, DiskInv
      <4>2. n[2] # "video"
        BY <2>3, <4>1 DEF v
      <4> QED
        BY <1>8, <4>1, <4>2
    <3>5. n[1] = q.session /\ n[2] = "video" => n[3] <= q.segment.index
      <4> SUFFICES ASSUME n[1] = q.session, n[2] = "video"
                   PROVE  n[3] <= q.segment.index
        OBVIOUS
      <4>1. n[3] <= r.segment.index /\ n[3] \in Nat
        BY <1>2, <1>10, <1>a, <3>1 DEF RecordInv, DiskInv, v
      <4> QED
        BY <1>1, <1>9, <4>1
    <3> QED
      BY <3>2, <3>3, <3>4, <3>5
  <2> QED
    BY <2>1, <2>2, <2>3
<1>15. q.writer.on = TRUE /\ q.writer.written = 0 /\ q.writer.queue = <<>> /\ q.writer.held = <<>>
  BY <1>8, NewWriterSays
<1>16. DOMAIN Pipeline(q) = {} /\ FramesIn(Pipeline(q)) = 0
  <2>1. Pipeline(q) = <<>> \o <<>>
    BY <1>15 DEF Pipeline
  <2>2. DOMAIN Pipeline(q) = {}
    BY <2>1
  <2>3. {i \in DOMAIN Pipeline(q) : Pipeline(q)[i].kind = "video"} = {}
    BY <2>2
  <2> QED
    BY <2>2, <2>3, FS_EmptySet DEF FramesIn
<1>17. q.file["audio"] = a /\ q.file["video"] = name
  BY <1>1, <1>8 DEF a
<1>18. WriterInv(q)
  BY <1>2, <1>5, <1>15, <1>16, <1>17 DEF WriterInv
<1>19. CountInv(q)
  <2>1. r.audioBytes = Len(r.disk[a].chunks)
    BY DEF RecordInv, CountInv, a
  <2>2. q.audioBytes = Len(q.disk[a].chunks)
    BY <1>3, <1>5, <1>8, <2>1
  <2>3. q.disk[name].chunks = <<>> /\ q.disk[name].head = 0 /\ q.disk[name].fmt = fmt
    BY <1>8
  <2>4. 0 - (0 % HeaderPeriod) = 0 /\ 0 <= SegmentFrames
    BY RecorderAssumption
  <2> QED
    BY <1>9, <1>15, <1>16, <1>17, <2>2, <2>3, <2>4, EmptyIsSeq DEF CountInv
<1>20. ContentInv(q)
  <2> SUFFICES ASSUME NEW n \in DOMAIN q.disk, n[2] \in {"video", "audio"}
               PROVE  /\ q.disk[n].done => q.disk[n].head = InHeader(n[2], Len(q.disk[n].chunks))
                      /\ n[2] = "video" => /\ Len(q.disk[n].chunks) <= SegmentFrames
                                           /\ \A i \in DOMAIN q.disk[n].chunks : q.disk[n].chunks[i].fmt = q.disk[n].fmt
                      /\ n[2] = "video" /\ ~q.disk[n].done /\ q.file["video"] # n => q.disk[n].head = 0
    BY DEF ContentInv
  <2>1. CASE n = name
    <3>1. q.disk[n].chunks = <<>> /\ q.disk[n].head = 0 /\ ~q.disk[n].done
      BY <1>8, <2>1
    <3> QED
      BY <3>1, EmptyIsSeq, RecorderAssumption
  <2>2. CASE n = v
    <3>1. r.segment.frames = Len(r.disk[v].chunks)
      <4>1. FramesIn(Pipeline(r)) = 0
        <5>1. Pipeline(r) = <<>> \o <<>>
          BY DEF Pipeline
        <5>2. {i \in DOMAIN Pipeline(r) : Pipeline(r)[i].kind = "video"} = {}
          BY <5>1
        <5> QED
          BY <5>2, FS_EmptySet DEF FramesIn
      <4>2. r.writer.written \in Nat
        BY DEF IsRecorder
      <4> QED
        BY <4>1, <4>2 DEF RecordInv, CountInv, v
    <3>2. /\ Len(q.disk[n].chunks) <= SegmentFrames
          /\ \A i \in DOMAIN q.disk[n].chunks : q.disk[n].chunks[i].fmt = q.disk[n].fmt
      BY <1>3, <1>5, <1>8, <2>2 DEF RecordInv, ContentInv
    <3> QED
      BY <1>5, <1>8, <2>2, <3>1, <3>2
  <2>3. CASE n \notin {v, name}
    <3>1. n \in DOMAIN r.disk /\ q.disk[n] = r.disk[n] /\ r.file["video"] # n
      BY <1>8, <2>3 DEF v
    <3> QED
      BY <3>1 DEF RecordInv, ContentInv
  <2> QED
    BY <2>1, <2>2, <2>3
<1>21. Grows(r, q)
  <2> SUFFICES ASSUME NEW n \in DOMAIN r.disk
               PROVE  IF r.disk[n].done THEN q.disk[n] = r.disk[n]
                      ELSE IsPrefix(r.disk[n].chunks, q.disk[n].chunks)
    BY <1>8 DEF Grows
  <2>1. IsPrefix(r.disk[n].chunks, r.disk[n].chunks)
    BY <1>a, PrefixOfItself DEF IsFile
  <2>2. CASE n = v
    BY <1>3, <1>8, <2>1, <2>2
  <2>3. CASE n # v
    BY <1>8, <2>1, <2>3
  <2> QED
    BY <2>2, <2>3
<1>22. ~NeedsRoll(q, fmt)
  BY <1>9, RecorderAssumption DEF NeedsRoll
<1>23. \A n \in DOMAIN q.disk : q.disk[n].done => n[2] = "video" \/ (n \in DOMAIN r.disk /\ r.disk[n].done)
  BY <1>5, <1>8
<1> QED
  BY <1>5, <1>7, <1>8, <1>14, <1>18, <1>19, <1>20, <1>21, <1>22, <1>23 DEF RecordInv, q

----------------------------------------------------------------------------
(***************************************************************************)
(* The start of a recording.                                               *)
(***************************************************************************)
LEMMA PrefixSays ==
    ASSUME NEW s, IsSeq(s), NEW t, IsSeq(t)
    PROVE  IsPrefix(s, t) <=> Len(s) <= Len(t) /\ \A i \in 1 .. Len(s) : s[i] = t[i]
<1> DEFINE S == Range(s) \cup Range(t)
<1>1. s \in Seq(S) /\ t \in Seq(S)
  BY DEF IsSeq
<1>2. CASE Len(s) <= Len(t)
  <2>1. PICK u : u = SubSeq(t, 1, Len(s))
    OBVIOUS
  <2>2. u \in Seq(S) /\ Len(u) = Len(s) /\ \A i \in 1 .. Len(s) : u[i] = t[i]
    BY <1>1, <1>2, <2>1
  <2>3. SubSeq(s, 1, Len(s)) = s
    BY <1>1
  <2>4. s = u <=> \A i \in 1 .. Len(s) : s[i] = t[i]
    BY <1>1, <2>2
  <2> QED
    BY <1>2, <2>1, <2>3, <2>4 DEF IsPrefix
<1>3. CASE ~(Len(s) <= Len(t))
  BY <1>3 DEF IsPrefix
<1> QED
  BY <1>2, <1>3

LEMMA GrowsTwice ==
    ASSUME NEW r, IsRecorder(r), NEW p, IsRecorder(p), NEW q, IsRecorder(q), Grows(r, p), Grows(p, q)
    PROVE  Grows(r, q)
<1> SUFFICES ASSUME NEW n \in DOMAIN r.disk
             PROVE  /\ n \in DOMAIN q.disk
                    /\ IF r.disk[n].done THEN q.disk[n] = r.disk[n]
                       ELSE IsPrefix(r.disk[n].chunks, q.disk[n].chunks)
  BY DEF Grows
<1>1. n \in DOMAIN p.disk /\ n \in DOMAIN q.disk
  BY DEF Grows
<1>2. CASE r.disk[n].done
  BY <1>1, <1>2 DEF Grows
<1>3. CASE ~r.disk[n].done
  <2>1. PICK s, t, u : s = r.disk[n].chunks /\ t = p.disk[n].chunks /\ u = q.disk[n].chunks
    OBVIOUS
  <2>2. IsSeq(s) /\ IsSeq(t) /\ IsSeq(u)
    BY <1>1, <2>1 DEF IsRecorder, IsFile
  <2>3. IsPrefix(s, t)
    BY <1>3, <2>1 DEF Grows
  <2>4. IsPrefix(t, u)
    BY <1>1, <2>1, <2>2, PrefixOfItself DEF Grows
  <2>5. Len(s) \in Nat /\ Len(t) \in Nat /\ Len(u) \in Nat
    BY <2>2, SeqFacts
  <2>6. Len(s) <= Len(t) /\ \A i \in 1 .. Len(s) : s[i] = t[i]
    BY <2>2, <2>3, PrefixSays
  <2>7. Len(t) <= Len(u) /\ \A i \in 1 .. Len(t) : t[i] = u[i]
    BY <2>2, <2>4, PrefixSays
  <2>8. Len(s) <= Len(u) /\ \A i \in 1 .. Len(s) : s[i] = u[i]
    BY <2>5, <2>6, <2>7
  <2>9. IsPrefix(s, u)
    BY <2>2, <2>8, PrefixSays
  <2> QED
    BY <1>1, <1>3, <2>1, <2>9
<1> QED
  BY <1>2, <1>3

\* Nothing was finished.
NoneFinished(r, q) == \A n \in DOMAIN q.disk : q.disk[n].done => n \in DOMAIN r.disk /\ r.disk[n].done

LEMMA FinishedBefore ==
    ASSUME NEW r, IsRecorder(r), RecordInv(r), NEW q, SessionStep(r, q), NEW kind,
           Name(q, kind) \in DOMAIN q.disk /\ q.disk[Name(q, kind)].done
              => Name(q, kind) \in DOMAIN r.disk /\ r.disk[Name(q, kind)].done,
           Finished(q, kind)
    PROVE  Finished(r, kind)
<1>1. Name(q, kind) \in DOMAIN r.disk /\ r.disk[Name(q, kind)].done
  BY DEF Finished
<1>2. CASE SameSession(r, q)
  BY <1>1, <1>2 DEF Finished, Name, SameSession
<1>3. CASE r.session = 0 /\ q.session = r.sessions + 1 /\ q.sessions = r.sessions + 1
  <2>1. Name(q, kind)[1] = r.sessions + 1
    BY <1>3 DEF Name
  <2>2. Name(q, kind)[1] <= r.sessions
    BY <1>1 DEF RecordInv, DiskInv
  <2> QED
    BY <2>1, <2>2 DEF IsRecorder
<1> QED
  BY <1>2, <1>3 DEF SessionStep

\* What starting a CSV recording leaves, whether or not its file could be opened.
CsvStarted(r, q, kind) ==
    /\ IsRecorder(q) /\ RecordInv(q) /\ Grows(r, q) /\ NoneFinished(r, q) /\ SessionStep(r, q)
    /\ SameSwitches(r, q) /\ SameWriter(r, q) /\ SameMachine(r, q)
    /\ \A f \in Files \ {kind} : q.file[f] = r.file[f]

LEMMA StartCsvRecord ==
    ASSUME NEW r, IsRecorder(r), RecordInv(r), NEW kind \in {"obs", "net", "sync"}, NEW n,
           NEW o \in StartCsv(r, kind, TRUE, n), ~Finished(r, kind)
    PROVE  CsvStarted(r, o.r, kind)
<1>1. PICK q : q = o.r
  OBVIOUS
<1>2. /\ IsRecorder(q) /\ SessionStep(r, q)
      /\ SameSwitches(r, q) /\ SameWriter(r, q) /\ SameMachine(r, q)
      /\ \/ SameFiles(r, q)
         \/ /\ r.file[kind] = None /\ q.session # 0
            /\ IsOpened(r, q, kind, Name(q, kind), None)
  BY <1>1, StartCsvSays
<1>3. CASE SameFiles(r, q)
  <2>1. RecordInv(q)
    BY <1>2, <1>3, SessionRecord
  <2>2. Grows(r, q) /\ NoneFinished(r, q) /\ \A f \in Files : q.file[f] = r.file[f]
    BY <1>3, UnchangedGrows DEF SameFiles, NoneFinished
  <2>3. kind \in Files
    BY DEF Files
  <2> QED
    BY <1>1, <1>2, <2>1, <2>2, <2>3 DEF CsvStarted
<1>4. CASE r.file[kind] = None /\ q.session # 0 /\ IsOpened(r, q, kind, Name(q, kind), None)
  <2>1. RecordInv(q) /\ Grows(r, q)
    BY <1>2, <1>4, CsvRecord
  <2>2. NoneFinished(r, q)
    BY <1>4 DEF IsOpened, NoneFinished
  <2>3. \A f \in Files \ {kind} : q.file[f] = r.file[f]
    BY <1>4 DEF IsOpened, IsRecorder
  <2> QED
    BY <1>1, <1>2, <2>1, <2>2, <2>3 DEF CsvStarted
<1> QED
  BY <1>2, <1>3, <1>4

LEMMA SessionTwice ==
    ASSUME NEW r, IsRecorder(r), NEW p, NEW q, SessionStep(r, p), SessionStep(p, q)
    PROVE  SessionStep(r, q)
<1>1. r.session \in Nat /\ r.sessions \in Nat
  BY DEF IsRecorder
<1> QED
  BY <1>1 DEF SessionStep, SameSession

\* Only the CSV files, and only with CSV on.
OnlyCsv(r, q) ==
    /\ \A f \in Files \ {"obs", "net"} : q.file[f] = r.file[f]
    /\ ~r.csv => q = r

\* With CSV on, its files are opened too.
LEMMA WithCsvRecord ==
    ASSUME NEW o, NEW r, r = o.r, IsRecorder(r), RecordInv(r), r.csv => ~Finished(r, "obs") /\ ~Finished(r, "net"),
           NEW n, NEW c \in WithCsv(o, TRUE, n)
    PROVE  /\ IsRecorder(c.r) /\ RecordInv(c.r) /\ Grows(r, c.r) /\ NoneFinished(r, c.r) /\ SessionStep(r, c.r)
           /\ SameSwitches(r, c.r) /\ SameWriter(r, c.r) /\ SameMachine(r, c.r) /\ OnlyCsv(r, c.r)
<1>1. CASE ~r.csv
  <2>1. c.r = r
    BY <1>1 DEF WithCsv
  <2>2. NoneFinished(r, r) /\ SessionStep(r, r) /\ SameSwitches(r, r) /\ SameWriter(r, r) /\ SameMachine(r, r)
    BY DEF NoneFinished, SessionStep, SameSession, SameSwitches, SameWriter, SameMachine
  <2>3. Grows(r, r)
    BY UnchangedGrows
  <2> QED
    BY <2>1, <2>2, <2>3 DEF OnlyCsv
<1>2. CASE r.csv
  <2>1. PICK k, l, a, b : /\ a \in StartCsv(r, "obs", TRUE, k) /\ b \in StartCsv(a.r, "net", TRUE, l) /\ c.r = b.r
    <3>1. PICK a \in StartCsv(o.r, "obs", TRUE, n - o.cost) :
            c \in {[r |-> b.r, cost |-> o.cost + a.cost + b.cost]
                    : b \in StartCsv(a.r, "net", TRUE, n - o.cost - a.cost)}
      BY <1>2 DEF WithCsv
    <3>2. PICK b \in StartCsv(a.r, "net", TRUE, n - o.cost - a.cost) : c = [r |-> b.r, cost |-> o.cost + a.cost + b.cost]
      BY <3>1
    <3>3. c.r = b.r
      BY <3>2
    <3>4. PICK k, l : k = n - o.cost /\ l = n - o.cost - a.cost
      OBVIOUS
    <3> QED
      BY <3>1, <3>2, <3>3, <3>4
  <2>2. PICK p, q : p = a.r /\ q = b.r
    OBVIOUS
  <2>3. /\ IsRecorder(p) /\ RecordInv(p) /\ Grows(r, p) /\ NoneFinished(r, p) /\ SessionStep(r, p)
        /\ SameSwitches(r, p) /\ SameWriter(r, p) /\ SameMachine(r, p)
        /\ \A f \in Files \ {"obs"} : p.file[f] = r.file[f]
    <3>1. a \in StartCsv(r, "obs", TRUE, k) /\ ~Finished(r, "obs") /\ "obs" \in {"obs", "net", "sync"}
      BY <1>2, <2>1
    <3>2. CsvStarted(r, a.r, "obs")
      BY <3>1, StartCsvRecord
    <3>3. CsvStarted(r, p, "obs")
      BY <2>2, <3>2
    <3> QED
      BY <3>3 DEF CsvStarted
  <2>4. ~Finished(p, "net")
    BY <1>2, <2>3, FinishedBefore DEF NoneFinished
  <2>5. /\ IsRecorder(q) /\ RecordInv(q) /\ Grows(p, q) /\ NoneFinished(p, q) /\ SessionStep(p, q)
        /\ SameSwitches(p, q) /\ SameWriter(p, q) /\ SameMachine(p, q)
        /\ \A f \in Files \ {"net"} : q.file[f] = p.file[f]
    <3>1. b \in StartCsv(p, "net", TRUE, l)
      BY <2>1, <2>2
    <3>2. IsRecorder(p) /\ RecordInv(p) /\ "net" \in {"obs", "net", "sync"}
      BY <2>3
    <3>3. CsvStarted(p, b.r, "net")
      BY <2>4, <3>1, <3>2, StartCsvRecord
    <3>4. CsvStarted(p, q, "net")
      BY <2>2, <3>3
    <3> QED
      BY <3>4 DEF CsvStarted
  <2>6. Grows(r, q)
    BY <2>3, <2>5, GrowsTwice
  <2>7. SessionStep(r, q)
    BY <2>3, <2>5, SessionTwice
  <2>8. NoneFinished(r, q)
    BY <2>3, <2>5 DEF NoneFinished
  <2>9. SameSwitches(r, q) /\ SameWriter(r, q) /\ SameMachine(r, q) /\ \A f \in Files \ {"obs", "net"} : q.file[f] = r.file[f]
    BY <2>3, <2>5 DEF SameSwitches, SameWriter, SameMachine
  <2> QED
    BY <1>2, <2>1, <2>2, <2>5, <2>6, <2>7, <2>8, <2>9 DEF OnlyCsv
<1> QED
  BY <1>1, <1>2

\* Some of the two files were made; both are open, with a writer, or none is.
IsStarted(r, q, X, fmt) ==
    LET v == Segment(r, 0)
        a == Name(r, "audio")
    IN  /\ X \subseteq {v, a}
        /\ DOMAIN q.disk = DOMAIN r.disk \cup X
        /\ \A n \in DOMAIN r.disk \ X : q.disk[n] = r.disk[n]
        /\ \A n \in X : q.disk[n].chunks = <<>> /\ q.disk[n].head = 0 /\ q.disk[n].done = FALSE
        /\ \A f \in Files \ {"video", "audio"} : q.file[f] = r.file[f]
        /\ q.drops = r.drops /\ q.segment \in {r.segment, NewSegment(0, fmt)}
        /\ \/ q.file["video"] = None /\ q.file["audio"] = None /\ q.writer = r.writer
           \/ /\ q.file["video"] = v /\ q.file["audio"] = a /\ X = {v, a}
              /\ q.writer = NewWriter /\ q.segment = NewSegment(0, fmt) /\ q.audioBytes = 0 /\ q.disk[v].fmt = fmt

AreOpened(r, q, X, fmt) ==
    /\ DOMAIN q.disk = DOMAIN r.disk \cup X
    /\ \A n \in DOMAIN r.disk \ X : q.disk[n] = r.disk[n]
    /\ \A n \in X : q.disk[n].chunks = <<>> /\ q.disk[n].head = 0 /\ q.disk[n].done = FALSE
    /\ \A f \in Files \ {"video", "audio"} : q.file[f] = r.file[f]
    /\ \/ q.file["video"] = None /\ q.file["audio"] = None
       \/ /\ q.file["video"] = Segment(r, 0) /\ q.file["audio"] = Name(r, "audio")
          /\ X = {Segment(r, 0), Name(r, "audio")} /\ q.disk[Segment(r, 0)].fmt = fmt

LEMMA OpenBothSays ==
    ASSUME NEW c, NEW r, r = c.r, IsRecorder(r), r.file["video"] = None, r.file["audio"] = None,
           NEW fmt, NEW n, NEW p \in OpenBoth(c, fmt, n)
    PROVE  /\ IsRecorder(p.r) /\ SameSwitches(r, p.r) /\ SameSession(r, p.r) /\ SameWriter(r, p.r) /\ SameMachine(r, p.r)
           /\ \E X \in SUBSET {Segment(r, 0), Name(r, "audio")} : AreOpened(r, p.r, X, fmt)
<1> DEFINE v == Segment(r, 0)
           a == Name(r, "audio")
           video == Open(r, "video", v, fmt)
           audio == Open(r, "audio", a, None)
           both == Open(video, "audio", Name(video, "audio"), None)
           q == p.r
<1>0. /\ "video" \in Files /\ "audio" \in Files /\ v \in Names /\ a \in Names /\ v # a
  BY DEF Files, Names, Segment, Name, IsRecorder
<1>1. q = both \/ q = Forget(video, "video") \/ q = Forget(audio, "audio")
  BY DEF OpenBoth, Failing
<1> HIDE DEF q
<1>2. /\ IsRecorder(video) /\ IsOpened(r, video, "video", v, fmt)
      /\ SameSwitches(r, video) /\ SameSession(r, video) /\ SameWriter(r, video) /\ SameMachine(r, video)
  BY <1>0, OpenSays DEF IsOpened
<1>3. /\ IsRecorder(audio) /\ IsOpened(r, audio, "audio", a, None)
      /\ SameSwitches(r, audio) /\ SameSession(r, audio) /\ SameWriter(r, audio) /\ SameMachine(r, audio)
  BY <1>0, OpenSays DEF IsOpened
<1> HIDE DEF video, audio
<1>4. Name(video, "audio") = a
  BY <1>2 DEF Name, SameSession
<1>a. DOMAIN r.file = Files
  BY DEF IsRecorder
<1>b. v \in {v, a} /\ a \in {v, a}
  OBVIOUS
<1> HIDE DEF v, a
<1>5. CASE q = both
  <2>1. /\ IsRecorder(q) /\ IsOpened(video, q, "audio", a, None)
        /\ SameSwitches(video, q) /\ SameSession(video, q) /\ SameWriter(video, q) /\ SameMachine(video, q)
    BY <1>0, <1>2, <1>4, <1>5, OpenSays DEF IsOpened
  <2>2. SameSwitches(r, q) /\ SameSession(r, q) /\ SameWriter(r, q) /\ SameMachine(r, q)
    BY <1>2, <2>1 DEF SameSwitches, SameSession, SameWriter, SameMachine
  <2>3. /\ q.file["video"] = v /\ q.file["audio"] = a /\ \A f \in Files \ {"video", "audio"} : q.file[f] = r.file[f]
    BY <1>0, <1>2, <1>a, <2>1 DEF IsOpened
  <2>4. /\ DOMAIN q.disk = DOMAIN r.disk \cup {v, a}
        /\ \A m \in DOMAIN r.disk \ {v, a} : q.disk[m] = r.disk[m]
        /\ q.disk[v] = [chunks |-> <<>>, fmt |-> fmt, head |-> 0, done |-> FALSE]
        /\ q.disk[a] = [chunks |-> <<>>, fmt |-> None, head |-> 0, done |-> FALSE]
    BY <1>0, <1>2, <2>1 DEF IsOpened
  <2>5. \A m \in {v, a} : q.disk[m].chunks = <<>> /\ q.disk[m].head = 0 /\ q.disk[m].done = FALSE
    BY <2>4
  <2>6. q.disk[v].fmt = fmt
    BY <2>4
  <2>7. {v, a} \in SUBSET {v, a}
    OBVIOUS
  <2>8. AreOpened(r, q, {v, a}, fmt)
    BY <2>3, <2>4, <2>5, <2>6 DEF AreOpened, v, a
  <2> QED
    BY <2>1, <2>2, <2>7, <2>8 DEF q, v, a
<1>6. CASE q = Forget(video, "video")
  <2>1. /\ IsRecorder(q) /\ q.file = [video.file EXCEPT !["video"] = None] /\ q.disk = video.disk
        /\ SameSwitches(video, q) /\ SameSession(video, q) /\ SameWriter(video, q) /\ SameMachine(video, q)
    BY <1>0, <1>2, <1>6, ForgetSays
  <2>2. SameSwitches(r, q) /\ SameSession(r, q) /\ SameWriter(r, q) /\ SameMachine(r, q)
    BY <1>2, <2>1 DEF SameSwitches, SameSession, SameWriter, SameMachine
  <2>3. /\ q.file["video"] = None /\ q.file["audio"] = None /\ \A f \in Files \ {"video", "audio"} : q.file[f] = r.file[f]
    BY <1>0, <1>2, <1>a, <2>1 DEF IsOpened
  <2>4. /\ DOMAIN q.disk = DOMAIN r.disk \cup {v}
        /\ \A m \in DOMAIN r.disk \ {v} : q.disk[m] = r.disk[m]
        /\ q.disk[v] = [chunks |-> <<>>, fmt |-> fmt, head |-> 0, done |-> FALSE]
    BY <1>2, <2>1 DEF IsOpened
  <2>5. \A m \in {v} : q.disk[m].chunks = <<>> /\ q.disk[m].head = 0 /\ q.disk[m].done = FALSE
    BY <2>4
  <2>7. {v} \in SUBSET {v, a}
    OBVIOUS
  <2>8. AreOpened(r, q, {v}, fmt)
    BY <2>3, <2>4, <2>5 DEF AreOpened
  <2> QED
    BY <2>1, <2>2, <2>7, <2>8 DEF q, v, a
<1>7. CASE q = Forget(audio, "audio")
  <2>1. /\ IsRecorder(q) /\ q.file = [audio.file EXCEPT !["audio"] = None] /\ q.disk = audio.disk
        /\ SameSwitches(audio, q) /\ SameSession(audio, q) /\ SameWriter(audio, q) /\ SameMachine(audio, q)
    BY <1>0, <1>3, <1>7, ForgetSays
  <2>2. SameSwitches(r, q) /\ SameSession(r, q) /\ SameWriter(r, q) /\ SameMachine(r, q)
    BY <1>3, <2>1 DEF SameSwitches, SameSession, SameWriter, SameMachine
  <2>3. /\ q.file["video"] = None /\ q.file["audio"] = None /\ \A f \in Files \ {"video", "audio"} : q.file[f] = r.file[f]
    BY <1>0, <1>3, <1>a, <2>1 DEF IsOpened
  <2>4. /\ DOMAIN q.disk = DOMAIN r.disk \cup {a}
        /\ \A m \in DOMAIN r.disk \ {a} : q.disk[m] = r.disk[m]
        /\ q.disk[a] = [chunks |-> <<>>, fmt |-> None, head |-> 0, done |-> FALSE]
    BY <1>3, <2>1 DEF IsOpened
  <2>5. \A m \in {a} : q.disk[m].chunks = <<>> /\ q.disk[m].head = 0 /\ q.disk[m].done = FALSE
    BY <2>4
  <2>7. {a} \in SUBSET {v, a}
    OBVIOUS
  <2>8. AreOpened(r, q, {a}, fmt)
    BY <2>3, <2>4, <2>5 DEF AreOpened
  <2> QED
    BY <2>1, <2>2, <2>7, <2>8 DEF q, v, a
<1> QED
  BY <1>1, <1>5, <1>6, <1>7

LEMMA WithWriterSays ==
    ASSUME NEW p, IsRecorder(p.r), NEW r, p.r.writer = r.writer, p.r.drops = r.drops, ~r.writer.on,
           NEW fmt, NEW n, NEW o \in WithWriter(p, fmt, n)
    PROVE  /\ IsRecorder(o.r)
           /\ SameSwitches(p.r, o.r) /\ SameSession(p.r, o.r) /\ SameMachine(p.r, o.r) /\ o.r.disk = p.r.disk
           /\ \A f \in Files \ {"video", "audio"} : o.r.file[f] = p.r.file[f]
           /\ o.r.drops = p.r.drops /\ o.r.segment \in {p.r.segment, NewSegment(0, fmt)}
           /\ \/ p.r.file["video"] = None /\ o.r = p.r
              \/ o.r.file["video"] = None /\ o.r.file["audio"] = None /\ o.r.writer = r.writer
              \/ /\ p.r.file["video"] # None
                 /\ o.r.file = p.r.file /\ o.r.writer = NewWriter /\ o.r.segment = NewSegment(0, fmt) /\ o.r.audioBytes = 0
<1> DEFINE e == [p.r EXCEPT !.segment = NewSegment(0, fmt), !.audioBytes = 0]
           s == [e EXCEPT !.writer = NewWriter]
           q == o.r
<1>1. CASE p.r.file["video"] = None
  <2>1. o = p
    BY <1>1 DEF WithWriter
  <2> QED
    BY <1>1, <2>1 DEF SameSwitches, SameSession, SameMachine
<1>2. CASE p.r.file["video"] # None
  <2>1. /\ DOMAIN e = DOMAIN p.r /\ e.segment = NewSegment(0, fmt) /\ e.audioBytes = 0 /\ e.writer = p.r.writer /\ e.drops = p.r.drops
        /\ SameSwitches(p.r, e) /\ SameSession(p.r, e) /\ SameFiles(p.r, e) /\ SameMachine(p.r, e)
    BY DEF IsRecorder, SameSwitches, SameSession, SameFiles, SameMachine
  <2>2. /\ DOMAIN NewSegment(0, fmt) = {"index", "fmt", "frames"}
        /\ NewSegment(0, fmt).index = 0 /\ NewSegment(0, fmt).frames = 0
    BY DEF NewSegment
  <2>3. PICK x \in StartWriter(e, n - p.cost) :
          o = [r |-> IF x.r.writer.on THEN x.r ELSE Forget(Forget(x.r, "video"), "audio"), cost |-> p.cost + x.cost]
    BY <1>2 DEF WithWriter
  <2>4. q = IF x.r.writer.on THEN x.r ELSE Forget(Forget(x.r, "video"), "audio")
    BY <2>3
  <2> HIDE DEF e
  <2>5. x.r = [e EXCEPT !.writer = IF @.on THEN @ ELSE NewWriter] \/ x.r = e
    BY DEF StartWriter, Working, Failing
  <2>6. ~e.writer.on
    BY <2>1
  <2>7. x.r = s \/ x.r = e
    BY <2>1, <2>5, <2>6 DEF IsRecorder
  <2>8. IsRecorder(e)
    BY <2>1, <2>2 DEF IsRecorder, SameSwitches, SameSession, SameFiles, SameMachine
  <2>9. /\ DOMAIN s = DOMAIN e /\ s.writer = NewWriter
        /\ s.segment = e.segment /\ s.audioBytes = e.audioBytes /\ s.drops = e.drops
        /\ SameSwitches(e, s) /\ SameSession(e, s) /\ SameFiles(e, s) /\ SameMachine(e, s)
    BY <2>8 DEF IsRecorder, SameSwitches, SameSession, SameFiles, SameMachine
  <2> HIDE DEF s, q
  <2>10. IsRecorder(s)
    <3>1. s.writer.on = TRUE /\ s.writer.stopping = FALSE
      BY <2>9, NewWriterSays
    <3>2. DOMAIN s.writer = {"on", "queue", "stopping", "held", "written"} /\ s.writer.written = 0
      BY <2>9, NewWriterSays
    <3>3. s.writer.queue = <<>> /\ s.writer.held = <<>>
      BY <2>9, NewWriterSays
    <3>4. s.writer.on \in BOOLEAN /\ s.writer.stopping \in BOOLEAN
      BY <3>1
    <3>5. s.writer.written \in Nat
      BY <3>2
    <3>6. IsSeq(s.writer.queue)
      BY <3>3, EmptyIsSeq
    <3>7. s.file = e.file /\ s.disk = e.disk
      BY <2>9 DEF SameFiles
    <3>8. DOMAIN e.writer = DOMAIN s.writer /\ s.audioBytes \in Nat
      BY <2>8, <2>9, <3>2 DEF IsRecorder
    <3>9. \A f \in DOMAIN s.disk : f \in Names /\ IsFile(s.disk[f])
      BY <2>8, <3>7 DEF IsRecorder
    <3> QED
      BY <2>8, <2>9, <3>3, <3>4, <3>5, <3>6, <3>7, <3>8, <3>9, WriterKeepsRecorder
  <2>11. CASE x.r = s
    <3>1. q = s
      BY <2>4, <2>9, <2>11, NewWriterSays
    <3> QED
      BY <1>2, <2>1, <2>9, <2>10, <3>1 DEF q, SameSwitches, SameSession, SameFiles, SameMachine
  <2>12. CASE x.r = e
    <3>0. "video" \in Files /\ "audio" \in Files
      BY DEF Files
    <3>1. q = Forget(Forget(e, "video"), "audio")
      BY <2>4, <2>6, <2>12
    <3>2. PICK g : g = Forget(e, "video")
      OBVIOUS
    <3>3. /\ IsRecorder(g) /\ g.file = [e.file EXCEPT !["video"] = None] /\ g.disk = e.disk
          /\ SameSwitches(e, g) /\ SameSession(e, g) /\ SameWriter(e, g) /\ SameMachine(e, g)
      BY <2>8, <3>0, <3>2, ForgetSays
    <3>4. q = Forget(g, "audio")
      BY <3>1, <3>2
    <3>5. /\ IsRecorder(q) /\ q.file = [g.file EXCEPT !["audio"] = None] /\ q.disk = g.disk
          /\ SameSwitches(g, q) /\ SameSession(g, q) /\ SameWriter(g, q) /\ SameMachine(g, q)
      BY <3>0, <3>3, <3>4, ForgetSays
    <3>6. DOMAIN e.file = Files
      BY <2>8 DEF IsRecorder
    <3>7. /\ q.file["video"] = None /\ q.file["audio"] = None
          /\ \A f \in Files \ {"video", "audio"} : q.file[f] = p.r.file[f]
      BY <2>1, <3>0, <3>3, <3>5, <3>6 DEF SameFiles
    <3>8. /\ SameSwitches(p.r, q) /\ SameSession(p.r, q) /\ SameMachine(p.r, q) /\ q.disk = p.r.disk
          /\ q.drops = p.r.drops /\ q.writer = r.writer /\ q.segment = NewSegment(0, fmt)
      BY <2>1, <3>3, <3>5 DEF SameSwitches, SameSession, SameMachine, SameFiles, SameWriter
    <3> QED
      BY <3>5, <3>7, <3>8 DEF q
  <2> QED
    BY <2>7, <2>11, <2>12
<1> QED
  BY <1>1, <1>2

LEMMA StartSays ==
    ASSUME NEW c, NEW r, r = c.r, IsRecorder(r), r.file["video"] = None, r.file["audio"] = None, ~r.writer.on,
           NEW fmt, NEW n, NEW p \in OpenBoth(c, fmt, n), NEW l, NEW o \in WithWriter(p, fmt, l)
    PROVE  /\ IsRecorder(o.r) /\ SameSwitches(r, o.r) /\ SameSession(r, o.r) /\ SameMachine(r, o.r)
           /\ \E X \in SUBSET {Segment(r, 0), Name(r, "audio")} : IsStarted(r, o.r, X, fmt)
<1> DEFINE v == Segment(r, 0)
           a == Name(r, "audio")
<1>1. PICK X \in SUBSET {v, a} : AreOpened(r, p.r, X, fmt)
  BY OpenBothSays
<1>2. /\ IsRecorder(p.r) /\ SameSwitches(r, p.r) /\ SameSession(r, p.r) /\ SameWriter(r, p.r) /\ SameMachine(r, p.r)
  BY OpenBothSays
<1>3. p.r.writer = r.writer /\ p.r.drops = r.drops /\ p.r.segment = r.segment
  BY <1>2 DEF SameWriter
<1>4. /\ IsRecorder(o.r)
      /\ SameSwitches(p.r, o.r) /\ SameSession(p.r, o.r) /\ SameMachine(p.r, o.r) /\ o.r.disk = p.r.disk
      /\ \A f \in Files \ {"video", "audio"} : o.r.file[f] = p.r.file[f]
      /\ o.r.drops = p.r.drops /\ o.r.segment \in {p.r.segment, NewSegment(0, fmt)}
      /\ \/ p.r.file["video"] = None /\ o.r = p.r
         \/ o.r.file["video"] = None /\ o.r.file["audio"] = None /\ o.r.writer = r.writer
         \/ /\ p.r.file["video"] # None
            /\ o.r.file = p.r.file /\ o.r.writer = NewWriter /\ o.r.segment = NewSegment(0, fmt) /\ o.r.audioBytes = 0
  BY <1>2, <1>3, WithWriterSays
<1>5. SameSwitches(r, o.r) /\ SameSession(r, o.r) /\ SameMachine(r, o.r)
  BY <1>2, <1>4 DEF SameSwitches, SameSession, SameMachine
<1>6. v # None
  <2>1. v \in Names
    BY DEF Names, Files, Segment, IsRecorder
  <2> QED
    BY <2>1, NameFacts
<1> HIDE DEF v, a
<1>7. \/ o.r.file["video"] = None /\ o.r.file["audio"] = None /\ o.r.writer = r.writer
      \/ /\ o.r.file["video"] = v /\ o.r.file["audio"] = a /\ X = {v, a} /\ o.r.disk[v].fmt = fmt
         /\ o.r.writer = NewWriter /\ o.r.segment = NewSegment(0, fmt) /\ o.r.audioBytes = 0
  BY <1>1, <1>3, <1>4, <1>6 DEF AreOpened, v, a
<1>8. IsStarted(r, o.r, X, fmt)
  BY <1>1, <1>3, <1>4, <1>7 DEF IsStarted, AreOpened, v, a
<1> QED
  BY <1>1, <1>4, <1>5, <1>8 DEF v, a

\* Names that are new, or of files that hold nothing.
LEMMA StartedRecord ==
    ASSUME NEW r, IsRecorder(r), RecordInv(r), r.session # 0, r.file["video"] = None, ~Finished(r, "video"),
           NEW q, IsRecorder(q), SameSession(r, q), NEW fmt, NEW X, IsStarted(r, q, X, fmt)
    PROVE  RecordInv(q) /\ Grows(r, q) /\ NoneFinished(r, q)
<1> DEFINE v == Segment(r, 0)
           a == Name(r, "audio")
<1>0. /\ "video" \in Files /\ "audio" \in Files /\ v \in Names /\ a \in Names /\ v # None /\ a # None
      /\ v[1] = r.session /\ v[2] = "video" /\ v[3] = 0 /\ a[1] = r.session /\ a[2] = "audio"
      /\ r.session \in Nat /\ r.sessions \in Nat /\ v # a
  <2>1. "video" \in Files /\ "audio" \in Files /\ v \in Names /\ a \in Names
    <3>1. "video" \in Files /\ "audio" \in Files
      BY DEF Files
    <3>2. PICK k \in Nat : k = r.session
      BY DEF IsRecorder
    <3>3. v = <<k, "video", 0>> /\ a = <<k, "audio", 0>>
      BY <3>2 DEF Segment, Name
    <3> QED
      BY <3>1, <3>3 DEF Names
  <2>2. v[1] = r.session /\ v[2] = "video" /\ v[3] = 0 /\ a[1] = r.session /\ a[2] = "audio"
    BY DEF Segment, Name
  <2>3. v # None /\ a # None
    BY <2>1, NameFacts
  <2> QED
    BY <2>1, <2>2, <2>3 DEF IsRecorder
<1>a. \A n \in DOMAIN r.disk : n \in Names /\ n # None /\ n[1] \in Nat /\ n[2] \in Files /\ n[3] \in Nat /\ IsFile(r.disk[n])
  BY NameFacts DEF IsRecorder
<1>1. ~r.writer.on /\ r.file["audio"] = None /\ r.writer.queue = <<>> /\ r.writer.held = <<>>
  BY DEF RecordInv, WriterInv
<1>2. ~VideoDone(r, r.session)
  BY DEF VideoDone, Finished, Name
<1>3. v \in DOMAIN r.disk => ~r.disk[v].done /\ r.disk[v].chunks = <<>>
  <2>1. v = <<r.session, "video", 0>>
    BY DEF Segment
  <2>2. v \in DOMAIN r.disk => ~r.disk[v].done
    BY <1>2, <2>1 DEF VideoDone
  <2> QED
    BY <1>0, <2>2 DEF RecordInv, DiskInv
<1>4. a \in DOMAIN r.disk => ~r.disk[a].done /\ r.disk[a].chunks = <<>>
  BY <1>0, <1>1, <1>2 DEF RecordInv, DiskInv
<1> HIDE DEF v, a
<1>5. /\ X \subseteq {v, a}
      /\ DOMAIN q.disk = DOMAIN r.disk \cup X
      /\ \A n \in DOMAIN r.disk \ X : q.disk[n] = r.disk[n]
      /\ \A n \in X : q.disk[n].chunks = <<>> /\ q.disk[n].head = 0 /\ q.disk[n].done = FALSE
      /\ \A f \in Files \ {"video", "audio"} : q.file[f] = r.file[f]
  BY DEF IsStarted, v, a
<1>6. \/ q.file["video"] = None /\ q.file["audio"] = None /\ q.writer = r.writer
      \/ /\ q.file["video"] = v /\ q.file["audio"] = a /\ X = {v, a} /\ q.disk[v].fmt = fmt
         /\ q.writer = NewWriter /\ q.segment = NewSegment(0, fmt) /\ q.audioBytes = 0
  BY DEF IsStarted, v, a
<1>7. \A n \in DOMAIN r.disk \cap X : ~r.disk[n].done /\ r.disk[n].chunks = <<>>
  BY <1>3, <1>4, <1>5
<1>8. \A n \in DOMAIN r.disk : n[1] = r.session /\ n[2] = "video" => n[3] = 0
  BY <1>2, <1>a DEF RecordInv, DiskInv
<1>9. \A s : VideoDone(r, s) => VideoDone(q, s)
  BY <1>5, <1>7 DEF VideoDone
<1>10. q.session = r.session /\ q.sessions = r.sessions /\ r.session <= r.sessions
  BY DEF SameSession, RecordInv, DiskInv
<1>11. \A f \in Files : q.file[f] # None =>
          /\ q.session # 0 /\ q.file[f] = Handle(q, f)
          /\ q.file[f] \in DOMAIN q.disk /\ ~q.disk[q.file[f]].done
  <2> SUFFICES ASSUME NEW f \in Files, q.file[f] # None
               PROVE  /\ q.file[f] = Handle(q, f)
                      /\ q.file[f] \in DOMAIN q.disk /\ ~q.disk[q.file[f]].done
    BY <1>10
  <2>1. CASE f = "video"
    <3>1. q.segment.index = 0 /\ q.file[f] = v /\ v \in X
      BY <1>6, <2>1 DEF NewSegment
    <3>2. Handle(q, f) = v
      BY <1>10, <2>1, <3>1 DEF Handle, Segment, v
    <3> QED
      BY <1>5, <3>1, <3>2
  <2>2. CASE f = "audio"
    <3>1. q.file[f] = a /\ a \in X
      BY <1>6, <2>2
    <3>2. Handle(q, f) = a
      BY <1>10, <2>2 DEF Handle, Name, a
    <3> QED
      BY <1>5, <3>1, <3>2
  <2>3. CASE f \notin {"video", "audio"}
    <3>1. q.file[f] = r.file[f] /\ r.file[f] = Handle(r, f) /\ r.file[f] \in DOMAIN r.disk /\ ~r.disk[r.file[f]].done
      BY <1>5, <2>3 DEF RecordInv, DiskInv
    <3>2. Handle(q, f) = Handle(r, f) /\ Handle(r, f)[2] = f
      BY <1>10, <2>3 DEF Handle, Name
    <3>3. r.file[f] \notin X
      BY <1>0, <1>5, <2>3, <3>1, <3>2
    <3> QED
      BY <1>5, <3>1, <3>2, <3>3
  <2> QED
    BY <2>1, <2>2, <2>3
<1>12. DiskInv(q)
  <2> SUFFICES ASSUME NEW n \in DOMAIN q.disk
               PROVE  /\ n[1] <= q.sessions
                      /\ ~q.disk[n].done => q.disk[n].chunks = <<>> \/ q.file[n[2]] = n
                      /\ n[2] \notin {"video", "audio"} => q.disk[n].chunks = <<>>
                      /\ n[2] = "audio" /\ q.disk[n].done => VideoDone(q, n[1])
                      /\ n[2] = "video" /\ n[3] > 0 => VideoDone(q, n[1])
                      /\ q.file["video"] # None /\ n[1] = q.session /\ n[2] = "video" => n[3] <= q.segment.index
    BY <1>10, <1>11 DEF DiskInv
  <2>0. q.file["video"] # None => q.segment.index = 0
    BY <1>6 DEF NewSegment
  <2>1. CASE n \in X
    <3>1. n \in {v, a}
      BY <1>5, <2>1
    <3>2. n[1] <= q.sessions /\ ~(n[2] = "video" /\ n[3] > 0)
      BY <1>0, <1>10, <3>1
    <3>3. n[2] = "video" => n[3] = 0
      BY <1>0, <3>1
    <3> QED
      BY <1>5, <2>0, <2>1, <3>2, <3>3
  <2>2. CASE n \notin X
    <3>1. n \in DOMAIN r.disk /\ q.disk[n] = r.disk[n]
      BY <1>5, <2>2
    <3>2. n[1] <= q.sessions
      BY <1>10, <3>1 DEF RecordInv, DiskInv
    <3>3. /\ n[2] \notin {"video", "audio"} => q.disk[n].chunks = <<>>
          /\ n[2] = "audio" /\ q.disk[n].done => VideoDone(q, n[1])
          /\ n[2] = "video" /\ n[3] > 0 => VideoDone(q, n[1])
      BY <1>9, <3>1 DEF RecordInv, DiskInv
    <3>4. ~q.disk[n].done => q.disk[n].chunks = <<>> \/ q.file[n[2]] = n
      <4> SUFFICES ASSUME ~r.disk[n].done, r.disk[n].chunks # <<>>
                   PROVE  q.file[n[2]] = n
        BY <3>1
      <4>1. r.file[n[2]] = n /\ n[2] \in Files /\ n # None
        BY <1>a, <3>1 DEF RecordInv, DiskInv
      <4>2. n[2] \notin {"video", "audio"}
        BY <1>1, <4>1
      <4> QED
        BY <1>5, <4>1, <4>2
    <3>5. q.file["video"] # None /\ n[1] = q.session /\ n[2] = "video" => n[3] <= q.segment.index
      BY <1>8, <1>10, <2>0, <3>1
    <3> QED
      BY <3>2, <3>3, <3>4, <3>5
  <2> QED
    BY <2>1, <2>2
<1>13. q.writer.queue = <<>> /\ q.writer.held = <<>>
  BY <1>1, <1>6, NewWriterSays
<1>14. DOMAIN Pipeline(q) = {} /\ FramesIn(Pipeline(q)) = 0
  <2>1. Pipeline(q) = <<>> \o <<>>
    BY <1>13 DEF Pipeline
  <2>2. DOMAIN Pipeline(q) = {}
    BY <2>1
  <2>3. {i \in DOMAIN Pipeline(q) : Pipeline(q)[i].kind = "video"} = {}
    BY <2>2
  <2> QED
    BY <2>2, <2>3, FS_EmptySet DEF FramesIn
<1>15. WriterInv(q)
  <2>1. /\ q.writer.on <=> q.file["video"] # None
        /\ q.writer.on <=> q.file["audio"] # None
    <3>1. CASE q.file["video"] = None /\ q.file["audio"] = None /\ q.writer = r.writer
      BY <1>1, <3>1
    <3>2. CASE q.file["video"] = v /\ q.file["audio"] = a /\ q.writer = NewWriter
      BY <1>0, <3>2, NewWriterSays
    <3> QED
      BY <1>6, <3>1, <3>2
  <2> QED
    BY <1>13, <1>14, <2>1 DEF WriterInv
<1>16. CountInv(q)
  <2> SUFFICES ASSUME q.writer.on
               PROVE  CountInv(q)
    BY DEF CountInv
  <2>1. /\ q.file["video"] = v /\ q.file["audio"] = a /\ X = {v, a} /\ q.disk[v].fmt = fmt
        /\ q.writer = NewWriter /\ q.segment = NewSegment(0, fmt) /\ q.audioBytes = 0
    BY <1>1, <1>6
  <2>2. q.segment.frames = 0 /\ q.segment.fmt = fmt
    BY <2>1 DEF NewSegment
  <2>3. q.writer.written = 0
    BY <2>1, NewWriterSays
  <2>4. q.disk[v].chunks = <<>> /\ q.disk[v].head = 0 /\ q.disk[a].chunks = <<>>
    BY <1>5, <2>1
  <2>5. 0 - (0 % HeaderPeriod) = 0 /\ 0 <= SegmentFrames
    BY RecorderAssumption
  <2> QED
    BY <1>14, <2>1, <2>2, <2>3, <2>4, <2>5, EmptyIsSeq DEF CountInv
<1>17. ContentInv(q)
  <2> SUFFICES ASSUME NEW n \in DOMAIN q.disk, n[2] \in {"video", "audio"}
               PROVE  /\ q.disk[n].done => q.disk[n].head = InHeader(n[2], Len(q.disk[n].chunks))
                      /\ n[2] = "video" => /\ Len(q.disk[n].chunks) <= SegmentFrames
                                           /\ \A i \in DOMAIN q.disk[n].chunks : q.disk[n].chunks[i].fmt = q.disk[n].fmt
                      /\ n[2] = "video" /\ ~q.disk[n].done /\ q.file["video"] # n => q.disk[n].head = 0
    BY DEF ContentInv
  <2>1. CASE n \in X
    <3>1. q.disk[n].chunks = <<>> /\ q.disk[n].head = 0 /\ ~q.disk[n].done
      BY <1>5, <2>1
    <3> QED
      BY <3>1, EmptyIsSeq, RecorderAssumption
  <2>2. CASE n \notin X
    <3>1. n \in DOMAIN r.disk /\ q.disk[n] = r.disk[n] /\ r.file["video"] # n
      BY <1>5, <1>a, <2>2
    <3> QED
      BY <3>1 DEF RecordInv, ContentInv
  <2> QED
    BY <2>1, <2>2
<1>18. Grows(r, q)
  <2> SUFFICES ASSUME NEW n \in DOMAIN r.disk
               PROVE  IF r.disk[n].done THEN q.disk[n] = r.disk[n]
                      ELSE IsPrefix(r.disk[n].chunks, q.disk[n].chunks)
    BY <1>5 DEF Grows
  <2>1. IsPrefix(r.disk[n].chunks, r.disk[n].chunks)
    BY <1>a, PrefixOfItself DEF IsFile
  <2>2. CASE n \in X
    <3>1. ~r.disk[n].done /\ r.disk[n].chunks = <<>> /\ q.disk[n].chunks = <<>>
      BY <1>5, <1>7, <2>2
    <3> QED
      BY <2>1, <3>1
  <2>3. CASE n \notin X
    BY <1>5, <2>1, <2>3
  <2> QED
    BY <2>2, <2>3
<1>19. NoneFinished(r, q)
  BY <1>5 DEF NoneFinished
<1> QED
  BY <1>12, <1>15, <1>16, <1>17, <1>18, <1>19 DEF RecordInv

LEMMA StartVideoRecord ==
    ASSUME NEW r, IsRecorder(r), RecordInv(r), r.file["video"] = None, ~Finished(r, "video"),
           r.csv => ~Finished(r, "obs") /\ ~Finished(r, "net"),
           NEW fmt, NEW n, NEW o \in StartVideo(r, fmt, TRUE, n)
    PROVE  /\ IsRecorder(o.r) /\ RecordInv(o.r) /\ Grows(r, o.r) /\ NoneFinished(r, o.r) /\ SessionStep(r, o.r)
           /\ SameSwitches(r, o.r) /\ SameMachine(r, o.r)
           /\ o.r.file["sync"] = r.file["sync"] /\ o.r.drops = r.drops
           /\ ~r.csv => o.r.file["obs"] = r.file["obs"] /\ o.r.file["net"] = r.file["net"]
           /\ o.r.writer \in {r.writer, NewWriter} /\ o.r.segment \in {r.segment, NewSegment(0, fmt)}
<1>1. PICK e \in EnsureSession(r, TRUE, n) :
        o \in IF e.r.session = 0 THEN {e}
              ELSE UNION {UNION {WithWriter(p, fmt, n) : p \in OpenBoth(c, fmt, n)} : c \in WithCsv(e, TRUE, n)}
  BY DEF StartVideo
<1>2. /\ IsRecorder(e.r) /\ SessionStep(r, e.r)
      /\ SameSwitches(r, e.r) /\ SameFiles(r, e.r) /\ SameWriter(r, e.r) /\ SameMachine(r, e.r)
  BY EnsureSays
<1>3. PICK s : s = e.r
  OBVIOUS
<1>4. RecordInv(s) /\ Grows(r, s) /\ NoneFinished(r, s)
  BY <1>2, <1>3, SessionRecord, UnchangedGrows DEF SameFiles, NoneFinished
<1>5. CASE o = e
  BY <1>2, <1>3, <1>4, <1>5 DEF SameFiles, SameWriter
<1>6. CASE /\ s.session # 0
           /\ o \in UNION {UNION {WithWriter(p, fmt, n) : p \in OpenBoth(c, fmt, n)} : c \in WithCsv(e, TRUE, n)}
  <2>0. PICK c \in WithCsv(e, TRUE, n) : o \in UNION {WithWriter(p, fmt, n) : p \in OpenBoth(c, fmt, n)}
    BY <1>6
  <2>1. PICK p \in OpenBoth(c, fmt, n) : o \in WithWriter(p, fmt, n)
    BY <2>0
  <2>2. s.csv = r.csv
    BY <1>2, <1>3 DEF SameSwitches
  <2>3. s.csv => ~Finished(s, "obs") /\ ~Finished(s, "net")
    BY <1>2, <1>3, <1>4, <2>2, FinishedBefore DEF NoneFinished
  <2>4. PICK t : t = c.r
    OBVIOUS
  <2>5. /\ IsRecorder(t) /\ RecordInv(t) /\ Grows(s, t) /\ NoneFinished(s, t) /\ SessionStep(s, t)
        /\ SameSwitches(s, t) /\ SameWriter(s, t) /\ SameMachine(s, t)
        /\ \A f \in Files \ {"obs", "net"} : t.file[f] = s.file[f]
        /\ ~s.csv => t = s
    <3>1. IsRecorder(s) /\ s = e.r /\ RecordInv(s)
      BY <1>2, <1>3, <1>4
    <3>2. /\ IsRecorder(c.r) /\ RecordInv(c.r) /\ Grows(s, c.r) /\ NoneFinished(s, c.r) /\ SessionStep(s, c.r)
          /\ SameSwitches(s, c.r) /\ SameWriter(s, c.r) /\ SameMachine(s, c.r)
          /\ \A f \in Files \ {"obs", "net"} : c.r.file[f] = s.file[f]
          /\ ~s.csv => c.r = s
      <4>1. c \in WithCsv(e, TRUE, n)
        BY <2>0
      <4>2. s.csv => ~Finished(s, "obs") /\ ~Finished(s, "net")
        BY <2>3
      <4>3. IsRecorder(c.r) /\ RecordInv(c.r) /\ Grows(s, c.r) /\ NoneFinished(s, c.r) /\ SessionStep(s, c.r)
        BY <3>1, <4>1, <4>2, WithCsvRecord
      <4>4. SameSwitches(s, c.r) /\ SameWriter(s, c.r) /\ SameMachine(s, c.r)
        BY <3>1, <4>1, <4>2, WithCsvRecord
      <4>5. OnlyCsv(s, c.r)
        BY <3>1, <4>1, <4>2, WithCsvRecord
      <4> QED
        BY <4>3, <4>4, <4>5 DEF OnlyCsv
    <3> QED
      BY <2>4, <3>2
  <2>6. SessionStep(r, t) /\ NoneFinished(r, t)
    BY <1>2, <1>3, <1>4, <2>5, SessionTwice DEF NoneFinished
  <2>7. ~Finished(t, "video")
    BY <2>6, FinishedBefore DEF NoneFinished
  <2>8. t.file["video"] = None /\ t.session # 0
    BY <1>2, <1>3, <1>6, <2>5 DEF Files, SameFiles, SessionStep, SameSession
  <2>9. t.file["audio"] = None /\ ~t.writer.on
    BY <2>5, <2>8 DEF RecordInv, WriterInv
  <2>10. PICK q : q = o.r
    OBVIOUS
  <2>11. /\ IsRecorder(q) /\ SameSwitches(t, q) /\ SameSession(t, q) /\ SameMachine(t, q)
         /\ \E X \in SUBSET {Segment(t, 0), Name(t, "audio")} : IsStarted(t, q, X, fmt)
    BY <2>1, <2>4, <2>5, <2>8, <2>9, <2>10, StartSays
  <2>12. PICK X : IsStarted(t, q, X, fmt)
    BY <2>11
  <2>13. RecordInv(q) /\ Grows(t, q) /\ NoneFinished(t, q)
    BY <2>5, <2>7, <2>8, <2>11, <2>12, StartedRecord
  <2>14. /\ \A f \in Files \ {"video", "audio"} : q.file[f] = t.file[f]
         /\ q.drops = t.drops /\ q.writer \in {t.writer, NewWriter} /\ q.segment \in {t.segment, NewSegment(0, fmt)}
    BY <2>12 DEF IsStarted
  <2>15. Grows(r, q)
    <3>1. Grows(r, t)
      BY <1>2, <1>3, <1>4, <2>5, GrowsTwice
    <3> QED
      BY <2>5, <2>11, <2>13, <3>1, GrowsTwice
  <2>16. SessionStep(r, q) /\ NoneFinished(r, q)
    BY <2>6, <2>11, <2>13 DEF SessionStep, SameSession, NoneFinished
  <2>17. SameSwitches(r, q) /\ SameMachine(r, q)
    BY <1>2, <1>3, <2>5, <2>11 DEF SameSwitches, SameMachine
  <2>18. /\ q.file["sync"] = r.file["sync"] /\ q.drops = r.drops
         /\ q.writer \in {r.writer, NewWriter} /\ q.segment \in {r.segment, NewSegment(0, fmt)}
         /\ ~r.csv => q.file["obs"] = r.file["obs"] /\ q.file["net"] = r.file["net"]
    BY <1>2, <1>3, <2>2, <2>5, <2>14 DEF Files, SameFiles, SameWriter
  <2> QED
    BY <2>10, <2>11, <2>13, <2>15, <2>16, <2>17, <2>18
<1> QED
  BY <1>1, <1>3, <1>5, <1>6

----------------------------------------------------------------------------
(***************************************************************************)
(* Steps that leave the recorder alone.                                    *)
(***************************************************************************)
\* What a step of the processor that records nothing leaves alone.
kept == <<rec, ui, ret, lock, alive, setting, owed, stray>>

LEMMA NothingHappens ==
    ASSUME IInv, UNCHANGED <<kept, proc, vid>>
    PROVE  IInv'
<1> USE DEF kept
<1>1. ShapeInv'
  BY DEF IInv, ShapeInv
<1>2. LockInv'
  BY DEF IInv, LockInv
<1>3. DiskInv(rec)' /\ WriterInv(rec)' /\ CountInv(rec)' /\ ContentInv(rec)'
  BY DEF IInv
<1>4. SwitchInv' /\ SessionInv'
  BY DEF IInv, SwitchInv, SessionInv, VideoOpen
<1>5. NoReuseInv'
  BY DEF IInv, NoReuseInv, Heading
<1>6. RollInv'
  BY DEF IInv, RollInv, VideoOpen, Format
<1>7. MachineInv'
  BY DEF IInv, MachineInv, Heading
<1>8. NothingSilentlyLost'
  BY DEF IInv, NothingSilentlyLost
<1> QED
  BY <1>1, <1>2, <1>3, <1>4, <1>5, <1>6, <1>7, <1>8 DEF IInv

\* The processor goes on.
LEMMA ProcessorMoves ==
    ASSUME IInv, UNCHANGED kept,
           DOMAIN proc' = DOMAIN proc, proc'.pc \in ProcPcs \ {"bmp", "roll"}, proc.pc # "roll",
           proc'.pc = "shot" => rec.frames,
           proc'.pc = "frame" => rec.video /\ VideoOpen,
           proc.pc # "idle" \/ alive
    PROVE  IInv'
<1> USE DEF kept
<1>1. ShapeInv'
  BY DEF IInv, ShapeInv
<1>2. LockInv'
  BY DEF IInv, LockInv
<1>3. DiskInv(rec)' /\ WriterInv(rec)' /\ CountInv(rec)' /\ ContentInv(rec)'
  BY DEF IInv
<1>4. SwitchInv'
  BY DEF IInv, SwitchInv, VideoOpen
<1>9. SessionInv'
  BY DEF IInv, SessionInv
<1>5. NoReuseInv'
  BY DEF IInv, NoReuseInv, Heading
<1>6. RollInv'
  <2>1. proc'.pc = "frame" => VideoOpen /\ ui.pc # "join"
    BY DEF IInv, SwitchInv
  <2> QED
    BY <2>1 DEF RollInv, VideoOpen
<1>7. MachineInv'
  BY DEF IInv, MachineInv, Heading
<1>8. NothingSilentlyLost'
  BY DEF IInv, NothingSilentlyLost
<1> QED
  BY <1>1, <1>2, <1>3, <1>4, <1>5, <1>6, <1>7, <1>8, <1>9 DEF IInv

LEMMA IdleSays ==
    /\ DOMAIN IdleProc = {"pc", "packet", "todo"} /\ IdleProc.pc = "idle"
    /\ DOMAIN IdleUi = {"pc", "want", "back"} /\ IdleUi.pc = "idle" /\ IdleUi.back = "idle"
  BY DEF IdleProc, IdleUi

\* A packet of the picture.
LEMMA TakeStep ==
    ASSUME IInv, NEW packet, Take(packet)
    PROVE  IInv'
<1>1. UNCHANGED kept /\ alive /\ proc.pc = "idle"
  BY DEF Take, kept
<1>2. DOMAIN proc' = {"pc", "packet", "todo"} /\ proc'.pc \in {"idle", "publish", "frames"}
  <2>1. \/ proc' = IdleProc
        \/ proc' = [IdleProc EXCEPT !.pc = "publish"]
        \/ proc' = [IdleProc EXCEPT !.pc = "frames", !.packet = packet]
    BY DEF Take, Assemble
  <2> QED
    BY <2>1, IdleSays
<1>3. DOMAIN proc = {"pc", "packet", "todo"}
  BY DEF IInv, ShapeInv
<1> QED
  BY <1>1, <1>2, <1>3, ProcessorMoves DEF ProcPcs

LEMMA SubmitStep ==
    ASSUME IInv, Submit
    PROVE  IInv'
<1>1. UNCHANGED kept /\ proc.pc = "out"
  BY DEF Submit, kept
<1>2. DOMAIN proc' = {"pc", "packet", "todo"} /\ proc'.pc \in {"idle", "publish"}
  <2>1. \/ proc' = IdleProc
        \/ proc' = [IdleProc EXCEPT !.pc = "publish"]
    BY DEF Submit, Assemble
  <2> QED
    BY <2>1, IdleSays
<1>3. DOMAIN proc = {"pc", "packet", "todo"}
  BY DEF IInv, ShapeInv
<1> QED
  BY <1>1, <1>2, <1>3, ProcessorMoves DEF ProcPcs

LEMMA RecvSoundStep ==
    ASSUME IInv, RecvSound
    PROVE  IInv'
<1>1. UNCHANGED kept /\ alive /\ proc.pc = "idle"
  BY DEF RecvSound, kept
<1>2. DOMAIN proc' = {"pc", "packet", "todo"} /\ proc'.pc \in {"idle", "sound"}
  <2>1. proc' = proc \/ \E told : proc' = [IdleProc EXCEPT !.pc = "sound", !.todo = told]
    BY Zenon DEF RecvSound
  <2>2. DOMAIN proc = {"pc", "packet", "todo"}
    BY DEF IInv, ShapeInv
  <2> QED
    BY <1>1, <2>1, <2>2, IdleSays
<1>3. DOMAIN proc = {"pc", "packet", "todo"}
  BY DEF IInv, ShapeInv
<1> QED
  BY <1>1, <1>2, <1>3, ProcessorMoves DEF ProcPcs

\* The tests of the processor, and what it does without the recorder.
LEMMA ProcessorTests ==
    ASSUME IInv, PublishSize \/ TestFrames \/ TestVideo \/ TestSound
    PROVE  IInv'
<1>1. UNCHANGED kept
  BY DEF PublishSize, TestFrames, TestVideo, TestSound, kept, procFrame
<1>2. DOMAIN proc = {"pc", "packet", "todo"}
  BY DEF IInv, ShapeInv
<1>3. CASE PublishSize
  <2>1. proc.pc = "publish" /\ proc' = IdleProc
    BY <1>3 DEF PublishSize
  <2> QED
    BY <1>1, <1>2, <2>1, IdleSays, ProcessorMoves DEF ProcPcs
<1>4. CASE TestFrames
  <2>1. proc.pc = "frames" /\ proc' = [proc EXCEPT !.pc = IF rec.frames THEN "shot" ELSE "video"]
    BY <1>4 DEF TestFrames, Goto
  <2>2. DOMAIN proc' = {"pc", "packet", "todo"} /\ proc'.pc = IF rec.frames THEN "shot" ELSE "video"
    BY <1>2, <2>1
  <2> QED
    BY <1>1, <1>2, <2>1, <2>2, ProcessorMoves DEF ProcPcs
<1>5. CASE TestVideo
  <2>1. proc.pc = "video" /\ proc' = [proc EXCEPT !.pc = IF rec.video /\ rec.file["video"] # None THEN "frame" ELSE "out"]
    BY <1>5 DEF TestVideo, Goto
  <2>2. /\ DOMAIN proc' = {"pc", "packet", "todo"}
        /\ proc'.pc = IF rec.video /\ rec.file["video"] # None THEN "frame" ELSE "out"
    BY <1>2, <2>1
  <2> QED
    BY <1>1, <1>2, <2>1, <2>2, ProcessorMoves DEF ProcPcs, VideoOpen
<1>6. CASE TestSound
  <2>1. /\ proc.pc = "sound"
        /\ \/ proc' = IdleProc
           \/ proc' = [proc EXCEPT !.pc = "chunk"]
           \/ proc' = [proc EXCEPT !.todo = Tail(@)]
    BY <1>6 DEF TestSound, Goto
  <2>2. DOMAIN proc' = {"pc", "packet", "todo"} /\ proc'.pc \in {"idle", "chunk", "sound"}
    BY <1>2, <2>1, IdleSays
  <2> QED
    BY <1>1, <1>2, <2>1, <2>2, ProcessorMoves DEF ProcPcs
<1> QED
  BY <1>3, <1>4, <1>5, <1>6

\* Everything that leaves the recorder alone.
LEMMA OtherSteps ==
    ASSUME IInv,
           \/ KeepBack \/ DeviceJumps \/ RecvStrip \/ RecvLate \/ RecvInvalid \/ RecvSound
           \/ PublishSize \/ TestFrames \/ TestVideo \/ TestSound \/ Submit
           \/ RestartStream \/ PopTick \/ SeePop
    PROVE  IInv' /\ rec' = rec
<1>1. CASE KeepBack \/ DeviceJumps \/ RestartStream \/ PopTick \/ SeePop
  <2>1. UNCHANGED <<kept, proc, vid>>
    BY <1>1 DEF KeepBack, DeviceJumps, RestartStream, PopTick, SeePop, measureVars, mediaVars, threadVars, kept
  <2> QED
    BY <2>1, NothingHappens DEF kept
<1>2. CASE RecvStrip \/ RecvLate \/ RecvInvalid
  <2>1. PICK packet : Take(packet)
    BY <1>2 DEF RecvStrip, RecvLate, RecvInvalid
  <2>2. rec' = rec
    BY <2>1 DEF Take
  <2> QED
    BY <2>1, <2>2, TakeStep
<1>3. CASE RecvSound
  BY <1>3, RecvSoundStep DEF RecvSound
<1>4. CASE PublishSize \/ TestFrames \/ TestVideo \/ TestSound
  <2>1. rec' = rec
    BY <1>4 DEF PublishSize, TestFrames, TestVideo, TestSound
  <2> QED
    BY <1>4, <2>1, ProcessorTests
<1>5. CASE Submit
  BY <1>5, SubmitStep DEF Submit
<1> QED
  BY <1>1, <1>2, <1>3, <1>4, <1>5

----------------------------------------------------------------------------
(***************************************************************************)
(* The end of the files, and of the session.                               *)
(***************************************************************************)
\* A handle is the name of a file on disk, and two handles are two files.
LEMMA HandleFacts ==
    ASSUME NEW r, IsRecorder(r), RecordInv(r), r.writer.on
    PROVE  /\ r.file["video"] # None /\ r.file["audio"] # None /\ r.file["video"] # r.file["audio"]
           /\ r.file["video"] \in DOMAIN r.disk /\ r.file["audio"] \in DOMAIN r.disk
           /\ r.file["video"][2] = "video" /\ r.file["audio"][2] = "audio"
<1>1. r.file["video"] # None /\ r.file["audio"] # None
  BY DEF RecordInv, WriterInv
<1>2. /\ r.file["video"] = Segment(r, r.segment.index) /\ r.file["video"] \in DOMAIN r.disk
      /\ r.file["audio"] = Name(r, "audio") /\ r.file["audio"] \in DOMAIN r.disk
  BY <1>1 DEF RecordInv, DiskInv, Handle, Files
<1>3. r.file["video"][2] = "video" /\ r.file["audio"][2] = "audio"
  BY <1>2 DEF Segment, Name
<1> QED
  BY <1>1, <1>2, <1>3

\* Whether it records or not.
LEMMA StopVideoRecord ==
    ASSUME NEW r, IsRecorder(r), RecordInv(r), r.writer.on => r.writer.queue = <<>> /\ r.writer.held = <<>>,
           NEW q, q = StopVideo(r)
    PROVE  /\ IsRecorder(q) /\ RecordInv(q) /\ Grows(r, q) /\ q.writer = NoWriter
           /\ SameSwitches(r, q) /\ SameSession(r, q) /\ SameCounts(r, q) /\ SameMachine(r, q)
           /\ q.file["video"] = None /\ q.file["audio"] = None
           /\ \A f \in Files \ {"video", "audio"} : q.file[f] = r.file[f]
           /\ \A n \in DOMAIN q.disk : q.disk[n].done => n[2] \in {"video", "audio"} \/ (n \in DOMAIN r.disk /\ r.disk[n].done)
<1>1. CASE r.writer.on
  <2>1. /\ r.file["video"] # None /\ r.file["audio"] # None /\ r.file["video"] # r.file["audio"]
        /\ r.file["video"] \in DOMAIN r.disk /\ r.file["audio"] \in DOMAIN r.disk
        /\ r.file["video"][2] = "video" /\ r.file["audio"][2] = "audio"
    BY <1>1, HandleFacts
  <2>2. /\ IsRecorder(q) /\ q.writer = NoWriter /\ IsStopped(r, q)
        /\ SameSwitches(r, q) /\ SameSession(r, q) /\ SameCounts(r, q) /\ SameMachine(r, q)
    BY <2>1, StopVideoSays
  <2>3. RecordInv(q) /\ Grows(r, q)
    BY <1>1, <2>1, <2>2, StopRecord
  <2>4. /\ q.file["video"] = None /\ q.file["audio"] = None
        /\ \A f \in Files \ {"video", "audio"} : q.file[f] = r.file[f]
    BY <2>2 DEF IsStopped
  <2>5. ASSUME NEW n \in DOMAIN q.disk, q.disk[n].done
        PROVE  n[2] \in {"video", "audio"} \/ (n \in DOMAIN r.disk /\ r.disk[n].done)
    BY <2>1, <2>2, <2>5 DEF IsStopped
  <2> QED
    BY <2>2, <2>3, <2>4, <2>5
<1>2. CASE ~r.writer.on
  <2>1. r.file["video"] = None /\ r.file["audio"] = None
    BY <1>2 DEF RecordInv, WriterInv
  <2>2. q = FreeWriter(r)
    BY <2>1, StopNothing
  <2>3. /\ IsRecorder(q) /\ q.writer = NoWriter
        /\ SameSwitches(r, q) /\ SameSession(r, q) /\ SameFiles(r, q) /\ SameCounts(r, q) /\ SameMachine(r, q)
    BY <2>2, FreeWriterSays
  <2>4. ~q.writer.on /\ q.writer.queue = <<>> /\ q.writer.held = <<>>
    BY <2>3 DEF NoWriter
  <2>5. DiskInv(q)
    BY <2>3 DEF RecordInv, DiskInv, SameSession, SameFiles, SameCounts, Handle, Segment, Name, VideoDone
  <2>6. WriterInv(q)
    <3>1. q.file["video"] = None /\ q.file["audio"] = None
      BY <2>1, <2>3 DEF SameFiles
    <3>2. DOMAIN Pipeline(q) = {}
      BY <2>4 DEF Pipeline
    <3> QED
      BY <2>4, <3>1, <3>2 DEF WriterInv
  <2>7. CountInv(q)
    BY <2>4 DEF CountInv
  <2>8. ContentInv(q)
    BY <2>3 DEF RecordInv, ContentInv, SameFiles
  <2>9. Grows(r, q)
    BY <2>3, UnchangedGrows DEF SameFiles
  <2>10. /\ q.file["video"] = None /\ q.file["audio"] = None
         /\ \A f \in Files \ {"video", "audio"} : q.file[f] = r.file[f]
         /\ q.disk = r.disk
    BY <2>1, <2>3 DEF SameFiles
  <2> QED
    BY <2>3, <2>5, <2>6, <2>7, <2>8, <2>9, <2>10 DEF RecordInv
<1>3. r.writer.on \in BOOLEAN
  BY DEF IsRecorder
<1> QED
  BY <1>1, <1>2

\* Everything is closed.
LEMMA CloseAllRecord ==
    ASSUME NEW r, IsRecorder(r), RecordInv(r), r.writer.on => r.writer.queue = <<>> /\ r.writer.held = <<>>,
           NEW q, q = CloseAll(r)
    PROVE  /\ IsRecorder(q) /\ RecordInv(q) /\ Grows(r, q) /\ q.writer = NoWriter /\ q.drops = r.drops
           /\ SameSwitches(r, q) /\ SameSession(r, q) /\ SameMachine(r, q)
           /\ \A f \in Files : q.file[f] = None
<1> DEFINE s == StopVideo(r)
           a == Close(s, "obs")
           b == Close(a, "net")
<1>1. /\ IsRecorder(s) /\ RecordInv(s) /\ Grows(r, s) /\ s.writer = NoWriter
      /\ SameSwitches(r, s) /\ SameSession(r, s) /\ SameCounts(r, s) /\ SameMachine(r, s)
      /\ s.file["video"] = None /\ s.file["audio"] = None
  BY StopVideoRecord
<1>2. q = Close(b, "sync")
  BY DEF CloseAll
<1> HIDE DEF s
<1>3. /\ IsRecorder(a) /\ RecordInv(a) /\ Grows(s, a)
      /\ SameSwitches(s, a) /\ SameSession(s, a) /\ SameWriter(s, a) /\ SameMachine(s, a)
      /\ a.file["obs"] = None /\ \A f \in Files \ {"obs"} : a.file[f] = s.file[f]
  BY <1>1, CloseCsv
<1> HIDE DEF a
<1>4. /\ IsRecorder(b) /\ RecordInv(b) /\ Grows(a, b)
      /\ SameSwitches(a, b) /\ SameSession(a, b) /\ SameWriter(a, b) /\ SameMachine(a, b)
      /\ b.file["net"] = None /\ \A f \in Files \ {"net"} : b.file[f] = a.file[f]
  BY <1>3, CloseCsv
<1> HIDE DEF b
<1>5. /\ IsRecorder(q) /\ RecordInv(q) /\ Grows(b, q)
      /\ SameSwitches(b, q) /\ SameSession(b, q) /\ SameWriter(b, q) /\ SameMachine(b, q)
      /\ q.file["sync"] = None /\ \A f \in Files \ {"sync"} : q.file[f] = b.file[f]
  BY <1>2, <1>4, CloseCsv
<1>6. Grows(r, q)
  <2>1. Grows(r, a)
    BY <1>1, <1>3, GrowsTwice
  <2>2. Grows(r, b)
    BY <2>1, <1>3, <1>4, GrowsTwice
  <2> QED
    BY <2>2, <1>4, <1>5, GrowsTwice
<1>7. q.writer = NoWriter /\ q.drops = r.drops
  BY <1>1, <1>3, <1>4, <1>5 DEF SameWriter, SameCounts
<1>8. SameSwitches(r, q) /\ SameSession(r, q)
  BY <1>1, <1>3, <1>4, <1>5 DEF SameSwitches, SameSession
<1>9. SameMachine(r, q)
  BY <1>1, <1>3, <1>4, <1>5 DEF SameMachine
<1>10. \A f \in Files : q.file[f] = None
  BY <1>1, <1>3, <1>4, <1>5 DEF Files
<1> QED
  BY <1>5, <1>6, <1>7, <1>8, <1>9, <1>10

\* A session whose files are closed.
LEMMA CleanupRecord ==
    ASSUME NEW r, IsRecorder(r), RecordInv(r), \A f \in Files : r.file[f] = None, NEW q, q = Cleanup(r)
    PROVE  /\ IsRecorder(q) /\ RecordInv(q) /\ Grows(r, q) /\ q.session = 0 /\ q.sessions = r.sessions
           /\ SameSwitches(r, q) /\ SameFiles(r, q) /\ SameWriter(r, q) /\ SameMachine(r, q)
<1>1. q = [r EXCEPT !.session = 0]
  <2>1. Close(r, "obs") = r /\ Close(r, "net") = r /\ Close(r, "sync") = r
    BY DEF Close, Files
  <2> QED
    BY <2>1 DEF Cleanup
<1>2. /\ q.session = 0 /\ q.sessions = r.sessions
      /\ SameSwitches(r, q) /\ SameFiles(r, q) /\ SameWriter(r, q) /\ SameMachine(r, q)
  BY <1>1 DEF IsRecorder, SameSwitches, SameFiles, SameWriter, SameMachine
<1>3. IsRecorder(q)
  BY <1>1, 0 \in Nat DEF IsRecorder
<1>4. WriterInv(q) /\ CountInv(q) /\ ContentInv(q)
  BY <1>2, SameContent DEF RecordInv
<1>5. DiskInv(q)
  <2>1. q.session <= q.sessions
    BY <1>2 DEF IsRecorder
  <2>2. \A f \in Files : q.file[f] = None
    BY <1>2 DEF SameFiles
  <2>3. ASSUME NEW n \in DOMAIN q.disk
        PROVE  /\ n[1] <= q.sessions
               /\ ~q.disk[n].done => q.disk[n].chunks = <<>> \/ q.file[n[2]] = n
               /\ n[2] \notin {"video", "audio"} => q.disk[n].chunks = <<>>
               /\ n[2] = "audio" /\ q.disk[n].done => VideoDone(q, n[1])
               /\ n[2] = "video" /\ n[3] > 0 => VideoDone(q, n[1])
    <3>1. q.disk = r.disk /\ q.file = r.file /\ q.sessions = r.sessions
      BY <1>2 DEF SameFiles
    <3>2. VideoDone(q, n[1]) <=> VideoDone(r, n[1])
      BY <3>1 DEF VideoDone
    <3>3. /\ n[1] <= r.sessions
          /\ ~r.disk[n].done => r.disk[n].chunks = <<>> \/ r.file[n[2]] = n
          /\ n[2] \notin {"video", "audio"} => r.disk[n].chunks = <<>>
          /\ n[2] = "audio" /\ r.disk[n].done => VideoDone(r, n[1])
          /\ n[2] = "video" /\ n[3] > 0 => VideoDone(r, n[1])
      BY <3>1 DEF RecordInv, DiskInv
    <3> QED
      BY <3>1, <3>2, <3>3
  <2>4. q.file["video"] = None
    BY <2>2 DEF Files
  <2> QED
    BY <2>1, <2>2, <2>3, <2>4 DEF DiskInv
<1>6. Grows(r, q)
  BY <1>2, UnchangedGrows DEF SameFiles
<1> QED
  BY <1>2, <1>3, <1>4, <1>5, <1>6 DEF RecordInv

----------------------------------------------------------------------------
(***************************************************************************)
(* The mixer and the program: the files are not touched.                   *)
(***************************************************************************)
\* Only the switches and the machine.
OnlyMachine(r, q) == SameSession(r, q) /\ SameFiles(r, q) /\ SameWriter(r, q)

LEMMA ZeroDbSays ==
    ASSUME NEW r, IsRecorder(r), NEW n, NEW o \in ApplyZeroDb(r, n)
    PROVE  /\ IsRecorder(o.r) /\ SameSwitches(r, o.r) /\ OnlyMachine(r, o.r)
           /\ o.r.prg = r.prg /\ o.r.jobs = r.jobs /\ o.r.playing = r.playing /\ o.r.host = r.host
           /\ \A d \in Devices \ {r.host} : o.r.mixer[d] = r.mixer[d]
           /\ \/ o.r.snapshot = r.snapshot /\ o.r.mixer = r.mixer
              \/ r.snapshot = None /\ o.r.snapshot = r.mixer[r.host]
<1>1. \/ o.r = r
      \/ r.snapshot = None /\ o.r = [r EXCEPT !.snapshot = r.mixer[r.host], !.mixer[r.host] = ZeroDb]
      \/ r.snapshot = None /\ o.r = [r EXCEPT !.snapshot = r.mixer[r.host]]
  BY DEF ApplyZeroDb, Working, Failing
<1> HIDE DEF IsRecorder
<1>2. CASE o.r = r
  BY <1>2 DEF SameSwitches, OnlyMachine, SameSession, SameFiles, SameWriter
<1> DEFINE q == o.r
<1>3. CASE r.snapshot = None /\ q = [r EXCEPT !.snapshot = r.mixer[r.host], !.mixer[r.host] = ZeroDb]
  <2> HIDE DEF q
  <2>1. IsRecorder(q)
    BY <1>3 DEF IsRecorder
  <2>2. SameSwitches(r, q) /\ OnlyMachine(r, q)
    BY <1>3 DEF IsRecorder, SameSwitches, OnlyMachine, SameSession, SameFiles, SameWriter
  <2>3. /\ q.prg = r.prg /\ q.jobs = r.jobs /\ q.playing = r.playing /\ q.host = r.host
        /\ \A d \in Devices \ {r.host} : q.mixer[d] = r.mixer[d]
        /\ q.snapshot = r.mixer[r.host]
    BY <1>3 DEF IsRecorder
  <2> QED
    BY <1>3, <2>1, <2>2, <2>3 DEF q
<1>4. CASE r.snapshot = None /\ q = [r EXCEPT !.snapshot = r.mixer[r.host]]
  <2> HIDE DEF q
  <2>1. IsRecorder(q)
    BY <1>4 DEF IsRecorder
  <2>2. SameSwitches(r, q) /\ OnlyMachine(r, q)
    BY <1>4 DEF IsRecorder, SameSwitches, OnlyMachine, SameSession, SameFiles, SameWriter
  <2>3. /\ q.prg = r.prg /\ q.jobs = r.jobs /\ q.playing = r.playing /\ q.host = r.host
        /\ \A d \in Devices \ {r.host} : q.mixer[d] = r.mixer[d]
        /\ q.snapshot = r.mixer[r.host]
    BY <1>4 DEF IsRecorder
  <2> QED
    BY <1>4, <2>1, <2>2, <2>3 DEF q
<1> QED
  BY <1>1, <1>2, <1>3, <1>4

LEMMA RestoreSays ==
    ASSUME NEW r, IsRecorder(r), NEW q, q = RestoreMixer(r)
    PROVE  /\ IsRecorder(q) /\ SameSwitches(r, q) /\ OnlyMachine(r, q)
           /\ q.prg = r.prg /\ q.jobs = r.jobs /\ q.playing = r.playing /\ q.host = r.host
           /\ q.snapshot = None
           /\ \A d \in Devices : q.mixer[d] = IF d = r.host /\ r.snapshot # None THEN r.snapshot ELSE r.mixer[d]
<1>1. CASE r.snapshot = None
  BY <1>1 DEF RestoreMixer, SameSwitches, OnlyMachine, SameSession, SameFiles, SameWriter
<1>2. CASE r.snapshot # None
  <2>1. q = [r EXCEPT !.mixer[r.host] = r.snapshot, !.snapshot = None]
    BY <1>2 DEF RestoreMixer
  <2>2. IsRecorder(q)
    BY <2>1 DEF IsRecorder
  <2>3. SameSwitches(r, q) /\ OnlyMachine(r, q)
    BY <2>1 DEF IsRecorder, SameSwitches, OnlyMachine, SameSession, SameFiles, SameWriter
  <2>4. /\ q.prg = r.prg /\ q.jobs = r.jobs /\ q.playing = r.playing /\ q.host = r.host
        /\ q.snapshot = None
        /\ \A d \in Devices : q.mixer[d] = IF d = r.host THEN r.snapshot ELSE r.mixer[d]
    BY <2>1 DEF IsRecorder
  <2> QED
    BY <1>2, <2>2, <2>3, <2>4
<1> QED
  BY <1>1, <1>2

\* A job more, at the end of the jobs.
IsAsked(r, q, job) == q.jobs = Append(r.jobs, job) /\ q.playing = r.playing

LEMMA JobsOfAppend ==
    ASSUME NEW r, IsRecorder(r), NEW q, NEW a \in {"run", "reset"}, NEW d \in Devices, IsAsked(r, q, Job(a, d))
    PROVE  /\ IsSeq(q.jobs) /\ \A i \in DOMAIN q.jobs : q.jobs[i] \in {Job(b, e) : b \in {"run", "reset"}, e \in Devices}
<1>1. IsSeq(r.jobs) /\ \A i \in DOMAIN r.jobs : r.jobs[i] \in {Job(b, e) : b \in {"run", "reset"}, e \in Devices}
  BY DEF IsRecorder
<1> DEFINE w == r.jobs
           j == Job(a, d)
<1>2. q.jobs = Append(w, j) /\ j \in {Job(b, e) : b \in {"run", "reset"}, e \in Devices}
  BY DEF IsAsked
<1> HIDE DEF w, j
<1>3. /\ IsSeq(Append(w, j))
      /\ DOMAIN Append(w, j) = DOMAIN w \cup {Len(w) + 1}
      /\ \A i \in DOMAIN w : Append(w, j)[i] = w[i]
      /\ Append(w, j)[Len(w) + 1] = j
  BY <1>1, AppendIsSeq DEF w
<1> QED
  BY <1>1, <1>2, <1>3 DEF w

LEMMA RunSays ==
    ASSUME NEW r, IsRecorder(r), NEW n, NEW o \in RunPrg(r, n)
    PROVE  /\ IsRecorder(o.r) /\ SameSwitches(r, o.r) /\ OnlyMachine(r, o.r)
           /\ o.r.snapshot = r.snapshot /\ o.r.mixer = r.mixer /\ o.r.host = r.host
           /\ \/ o.r.prg = r.prg /\ o.r.jobs = r.jobs /\ o.r.playing = r.playing
              \/ o.r.prg = TRUE /\ IsAsked(r, o.r, Job("run", r.host))
<1> DEFINE q == o.r
<1>1. q = r \/ q = [r EXCEPT !.prg = TRUE, !.jobs = Append(@, Job("run", r.host))]
  BY DEF RunPrg, Working, Failing
<1>2. CASE q = r
  BY <1>2 DEF SameSwitches, OnlyMachine, SameSession, SameFiles, SameWriter
<1>3. CASE q = [r EXCEPT !.prg = TRUE, !.jobs = Append(@, Job("run", r.host))]
  <2> HIDE DEF q
  <2>1. /\ q.prg = TRUE /\ IsAsked(r, q, Job("run", r.host))
        /\ q.snapshot = r.snapshot /\ q.mixer = r.mixer /\ q.host = r.host
    BY <1>3 DEF IsRecorder, IsAsked
  <2>2. SameSwitches(r, q) /\ OnlyMachine(r, q)
    BY <1>3 DEF IsRecorder, SameSwitches, OnlyMachine, SameSession, SameFiles, SameWriter
  <2>3. IsSeq(q.jobs) /\ \A i \in DOMAIN q.jobs : q.jobs[i] \in {Job(b, e) : b \in {"run", "reset"}, e \in Devices}
    BY <2>1, JobsOfAppend DEF IsRecorder
  <2>4. IsRecorder(q)
    <3>1. q.prg \in BOOLEAN
      BY <2>1
    <3> QED
      BY <1>3, <2>3, <3>1 DEF IsRecorder
  <2> QED
    BY <2>1, <2>2, <2>4 DEF q
<1> QED
  BY <1>1, <1>2, <1>3

LEMMA ResetSays ==
    ASSUME NEW r, IsRecorder(r), NEW q, q = Reset(r)
    PROVE  /\ IsRecorder(q) /\ SameSwitches(r, q) /\ OnlyMachine(r, q)
           /\ q.snapshot = r.snapshot /\ q.mixer = r.mixer /\ q.host = r.host /\ ~q.prg
           /\ \/ ~r.prg /\ q.jobs = r.jobs /\ q.playing = r.playing
              \/ IsAsked(r, q, Job("reset", r.host))
<1>1. CASE ~r.prg
  BY <1>1 DEF Reset, SameSwitches, OnlyMachine, SameSession, SameFiles, SameWriter
<1>2. CASE r.prg
  <2>0. q = [r EXCEPT !.prg = FALSE, !.jobs = Append(@, Job("reset", r.host))]
    BY <1>2 DEF Reset
  <2>1. /\ ~q.prg /\ IsAsked(r, q, Job("reset", r.host))
        /\ q.snapshot = r.snapshot /\ q.mixer = r.mixer /\ q.host = r.host
    BY <2>0 DEF IsRecorder, IsAsked
  <2>2. SameSwitches(r, q) /\ OnlyMachine(r, q)
    BY <2>0 DEF IsRecorder, SameSwitches, OnlyMachine, SameSession, SameFiles, SameWriter
  <2>3. IsSeq(q.jobs) /\ \A i \in DOMAIN q.jobs : q.jobs[i] \in {Job(b, e) : b \in {"run", "reset"}, e \in Devices}
    BY <2>1, JobsOfAppend DEF IsRecorder
  <2>4. IsRecorder(q)
    BY <2>0, <2>3 DEF IsRecorder
  <2> QED
    BY <2>1, <2>2, <2>4
<1> QED
  BY <1>1, <1>2

\* The first job is done, or it failed.
LEMMA TakeJobSays ==
    ASSUME NEW r, IsRecorder(r), r.jobs # <<>>, NEW q,
           q = DoJob(r, 1) \/ (r.jobs[1].action = "run" /\ q = JobFails(r, 1))
    PROVE  /\ IsRecorder(q) /\ SameSwitches(r, q) /\ OnlyMachine(r, q)
           /\ q.snapshot = r.snapshot /\ q.mixer = r.mixer /\ q.host = r.host /\ q.prg = r.prg
           /\ q.jobs = Tail(r.jobs)
           /\ \A d \in q.playing : r.jobs[1] = Job("run", d) \/ (d \in r.playing /\ r.jobs[1] # Job("reset", d))
<1> DEFINE w == r.jobs
<1>1. IsSeq(w) /\ \A i \in DOMAIN w : w[i] \in {Job(b, e) : b \in {"run", "reset"}, e \in Devices}
  BY DEF IsRecorder
<1>2. /\ IsSeq(Tail(w)) /\ Len(w) \in Nat \ {0} /\ DOMAIN Tail(w) = 1 .. Len(w) - 1
      /\ \A i \in 1 .. Len(w) - 1 : Tail(w)[i] = w[i + 1]
  BY <1>1, TailIsSeq
<1>3. DOMAIN w = 1 .. Len(w)
  BY <1>1, SeqFacts
<1>4. RemoveAt(w, 1) = Tail(w)
  <2> HIDE DEF w
  <2>1. w \in Seq(Range(w))
    BY <1>1 DEF IsSeq
  <2>2. SubSeq(w, 1, 0) = <<>> /\ SubSeq(w, 2, Len(w)) = Tail(w)
    BY <1>2, <2>1
  <2>3. Tail(w) \in Seq(Range(w))
    BY <1>2, <2>1
  <2>4. <<>> \o Tail(w) = Tail(w)
    BY <2>3
  <2> QED
    BY <2>2, <2>4 DEF RemoveAt
<1>5. \A i \in DOMAIN Tail(w) : Tail(w)[i] \in {Job(b, e) : b \in {"run", "reset"}, e \in Devices}
  <2> HIDE DEF w
  <2> QED
    BY <1>1, <1>2, <1>3
<1>6. w[1] \in {Job(b, e) : b \in {"run", "reset"}, e \in Devices}
  BY <1>1, <1>2, <1>3
<1>7. w[1].host \in Devices
  BY <1>6 DEF Job
<1> DEFINE new == IF w[1].action = "run" THEN r.playing \cup {w[1].host} ELSE r.playing \ {w[1].host}
<1>8. new \subseteq Devices
  BY <1>7 DEF IsRecorder
<1>9. \/ q = [r EXCEPT !.jobs = Tail(w), !.playing = new]
      \/ w[1].action = "run" /\ q = [r EXCEPT !.jobs = Tail(w)]
  BY <1>4 DEF DoJob, JobFails
<1>10. PICK t, s : t = Tail(w) /\ s = new
  OBVIOUS
<1>11. \/ q = [r EXCEPT !.jobs = t, !.playing = s]
       \/ w[1].action = "run" /\ q = [r EXCEPT !.jobs = t]
  BY <1>9, <1>10
<1>12. IsRecorder(q)
  <2>1. IsSeq(t) /\ \A i \in DOMAIN t : t[i] \in {Job(b, e) : b \in {"run", "reset"}, e \in Devices}
    BY <1>2, <1>5, <1>10
  <2>2. s \subseteq Devices
    BY <1>8, <1>10
  <2>3. CASE q = [r EXCEPT !.jobs = t, !.playing = s]
    BY <2>1, <2>2, <2>3 DEF IsRecorder
  <2>4. CASE q = [r EXCEPT !.jobs = t]
    BY <2>1, <2>4 DEF IsRecorder
  <2> QED
    BY <1>11, <2>3, <2>4
<1>13. SameSwitches(r, q) /\ OnlyMachine(r, q)
  BY <1>11 DEF IsRecorder, SameSwitches, OnlyMachine, SameSession, SameFiles, SameWriter
<1>14. q.snapshot = r.snapshot /\ q.mixer = r.mixer /\ q.host = r.host /\ q.prg = r.prg /\ q.jobs = t
  BY <1>11 DEF IsRecorder
<1>15. ASSUME NEW d \in q.playing
       PROVE  w[1] = Job("run", d) \/ (d \in r.playing /\ w[1] # Job("reset", d))
  <2>1. q.playing = s \/ (w[1].action = "run" /\ q.playing = r.playing)
    BY <1>11 DEF IsRecorder
  <2>2. PICK a \in {"run", "reset"}, e \in Devices : w[1] = Job(a, e)
    BY <1>6
  <2>3. w[1].action = a /\ w[1].host = e /\ Job("reset", d).action = "reset" /\ Job("reset", d).host = d
    BY <2>2 DEF Job
  <2> HIDE DEF w, new
  <2>4. CASE q.playing = s
    <3>1. d \in new
      BY <1>10, <2>4
    <3>2. CASE a = "run"
      <4>1. d \in r.playing \/ d = e
        BY <2>3, <3>1, <3>2 DEF new
      <4> QED
        BY <2>2, <2>3, <3>2, <4>1
    <3>3. CASE a = "reset"
      <4>1. d \in r.playing /\ d # e
        BY <2>3, <3>1, <3>3 DEF new
      <4> QED
        BY <2>3, <4>1
    <3> QED
      BY <3>2, <3>3
  <2>5. CASE w[1].action = "run" /\ q.playing = r.playing
    BY <2>3, <2>5
  <2> QED
    BY <2>1, <2>4, <2>5
<1>16. q.jobs = Tail(r.jobs)
  BY <1>10, <1>14
<1>17. \A d \in q.playing : r.jobs[1] = Job("run", d) \/ (d \in r.playing /\ r.jobs[1] # Job("reset", d))
  BY <1>15
<1> QED
  BY <1>12, <1>13, <1>14, <1>16, <1>17

\* A device plays pops later only if it would have played them without the step.
LEMMA PlaysLess ==
    ASSUME NEW r, IsRecorder(r), r.jobs # <<>>, NEW q,
           q = DoJob(r, 1) \/ (r.jobs[1].action = "run" /\ q = JobFails(r, 1)),
           NEW d \in Devices, WillPlay(q, d)
    PROVE  WillPlay(r, d)
<1> DEFINE w == r.jobs
<1>1. q.jobs = Tail(w) /\ (d \in q.playing => w[1] = Job("run", d) \/ (d \in r.playing /\ w[1] # Job("reset", d)))
  BY TakeJobSays
<1>2. IsSeq(w)
  BY DEF IsRecorder
<1>3. /\ Len(w) \in Nat \ {0} /\ DOMAIN Tail(w) = 1 .. Len(w) - 1 /\ DOMAIN w = 1 .. Len(w)
      /\ \A i \in 1 .. Len(w) - 1 : Tail(w)[i] = w[i + 1]
  BY <1>2, TailIsSeq, SeqFacts
<1> DEFINE run == Job("run", d)
           reset == Job("reset", d)
<1>4. WillPlay(r, d) <=> \/ \E i \in DOMAIN w : w[i] = run /\ \A j \in DOMAIN w : j > i => w[j] # reset
                         \/ d \in r.playing /\ \A j \in DOMAIN w : w[j] # reset
  BY DEF WillPlay
<1>5. \/ \E i \in DOMAIN Tail(w) : Tail(w)[i] = run /\ \A j \in DOMAIN Tail(w) : j > i => Tail(w)[j] # reset
      \/ d \in q.playing /\ \A j \in DOMAIN Tail(w) : Tail(w)[j] # reset
  BY <1>1 DEF WillPlay
<1> HIDE DEF w, run, reset
<1>6. ASSUME NEW j \in DOMAIN w, j > 1
      PROVE  j - 1 \in DOMAIN Tail(w) /\ Tail(w)[j - 1] = w[j]
  <2>1. j - 1 \in 1 .. Len(w) - 1 /\ (j - 1) + 1 = j
    BY <1>3, <1>6
  <2> QED
    BY <1>3, <2>1
<1>7. CASE \E i \in DOMAIN Tail(w) : Tail(w)[i] = run /\ \A j \in DOMAIN Tail(w) : j > i => Tail(w)[j] # reset
  <2>1. PICK i \in DOMAIN Tail(w) : Tail(w)[i] = run /\ \A j \in DOMAIN Tail(w) : j > i => Tail(w)[j] # reset
    BY <1>7
  <2>2. i + 1 \in DOMAIN w /\ w[i + 1] = run
    BY <1>3, <2>1
  <2>3. ASSUME NEW j \in DOMAIN w, j > i + 1
        PROVE  w[j] # reset
    <3>1. j > 1 /\ j - 1 > i
      BY <1>3, <2>3
    <3> QED
      BY <1>6, <2>1, <3>1
  <2> QED
    BY <1>4, <2>2, <2>3
<1>8. CASE d \in q.playing /\ \A j \in DOMAIN Tail(w) : Tail(w)[j] # reset
  <2>1. \A j \in DOMAIN w : j > 1 => w[j] # reset
    BY <1>6, <1>8
  <2>2. w[1] = run \/ (d \in r.playing /\ w[1] # reset)
    BY <1>1, <1>8 DEF run, reset
  <2>3. 1 \in DOMAIN w /\ \A j \in DOMAIN w : j = 1 \/ j > 1
    BY <1>3
  <2> QED
    BY <1>4, <2>1, <2>2, <2>3
<1> QED
  BY <1>5, <1>7, <1>8

\* Once the program runs on a device, only that device will play.
LEMMA RunPlays ==
    ASSUME NEW r, IsRecorder(r), NEW q, NEW e \in Devices, IsAsked(r, q, Job("run", e)), NEW d \in Devices \ {e},
           WillPlay(q, d)
    PROVE  WillPlay(r, d)
<1> DEFINE w == r.jobs
           job == Job("run", e)
           v == Append(w, job)
<1>1. IsSeq(w) /\ q.jobs = v /\ q.playing = r.playing
  BY DEF IsRecorder, IsAsked
<1>2. job # Job("run", d) /\ job # Job("reset", d)
  BY DEF Job
<1> HIDE DEF job
<1>3. /\ DOMAIN v = DOMAIN w \cup {Len(w) + 1} /\ v[Len(w) + 1] = job
      /\ \A i \in DOMAIN w : v[i] = w[i]
  BY <1>1, AppendIsSeq
<1> HIDE DEF w, v
<1> QED
  BY <1>1, <1>2, <1>3 DEF WillPlay, w

\* Once the machine is reset, it will not.
LEMMA ResetPlays ==
    ASSUME NEW r, IsRecorder(r), NEW q, NEW e \in Devices, IsAsked(r, q, Job("reset", e)), NEW d \in Devices,
           WillPlay(q, d)
    PROVE  WillPlay(r, d) /\ d # e
<1> DEFINE w == r.jobs
           job == Job("reset", e)
           v == Append(w, job)
<1>1. IsSeq(w) /\ q.jobs = v /\ q.playing = r.playing
  BY DEF IsRecorder, IsAsked
<1>2. job # Job("run", d) /\ (d # e => job # Job("reset", d))
  BY DEF Job
<1>3. /\ DOMAIN v = DOMAIN w \cup {Len(w) + 1} /\ v[Len(w) + 1] = job
      /\ \A i \in DOMAIN w : v[i] = w[i]
  <2> HIDE DEF job
  <2> QED
    BY <1>1, AppendIsSeq
<1>4. DOMAIN w = 1 .. Len(w) /\ Len(w) \in Nat
  BY <1>1, SeqFacts
<1>5. d # e
  <2>1. ASSUME d = e PROVE FALSE
    <3>1. job = Job("reset", d)
      BY <2>1
    <3>2. Len(w) + 1 \in DOMAIN v /\ v[Len(w) + 1] = Job("reset", d)
      BY <1>3, <3>1
    <3>3. ASSUME NEW i \in DOMAIN v, v[i] = Job("run", d), \A j \in DOMAIN v : j > i => v[j] # Job("reset", d)
          PROVE  FALSE
      <4>1. i # Len(w) + 1
        BY <1>2, <1>3, <3>3
      <4>2. Len(w) + 1 > i
        BY <1>3, <1>4, <4>1
      <4> QED
        BY <3>2, <3>3, <4>2
    <3> QED
      BY <1>1, <3>2, <3>3 DEF WillPlay
  <2> QED
    BY <2>1
<1>6. WillPlay(r, d)
  <2> HIDE DEF job, v, w
  <2> QED
    BY <1>1, <1>2, <1>3 DEF WillPlay, w
<1> QED
  BY <1>5, <1>6

----------------------------------------------------------------------------
(***************************************************************************)
(* The processor and the writer.                                           *)
(***************************************************************************)
LEMMA TheRecorder ==
    ASSUME IInv
    PROVE  IsRecorder(rec) /\ RecordInv(rec)
  BY DEF IInv, ShapeInv, RecordInv

\* The parts of the invariant after a step.
LEMMA Together ==
    ASSUME ShapeInv', LockInv', RecordInv(rec'), SwitchInv', SessionInv', NoReuseInv', RollInv', MachineInv',
           NothingSilentlyLost'
    PROVE  IInv'
  BY DEF IInv, RecordInv

\* The settings are as they were, and so are the device and the file of the measurement.
LEMMA SettingsKept ==
    ASSUME IInv, UNCHANGED <<ui, ret>>, SameSwitches(rec, rec'), SameMachine(rec, rec'), ui.pc # "end",
           VideoOpen' <=> VideoOpen, rec'.file["sync"] = rec.file["sync"],
           ~rec.csv => rec'.file["obs"] = rec.file["obs"] /\ rec'.file["net"] = rec.file["net"],
           \A kind \in Files : Finished(rec', kind) => Finished(rec, kind) \/ (kind = "video" /\ VideoOpen)
    PROVE  SwitchInv' /\ NoReuseInv' /\ MachineInv'
<1>1. SwitchInv'
  <2>1. SwitchInv
    BY DEF IInv
  <2>2. rec'.csv = rec.csv /\ rec'.av = rec.av /\ rec'.video = rec.video
    BY DEF SameSwitches
  <2>3. /\ IF ui'.pc \in {"start", "open"} THEN rec'.video /\ ~VideoOpen'
           ELSE IF ui'.pc \in {"stop", "lock", "join"} THEN ~rec'.video /\ VideoOpen'
           ELSE ui'.pc # "end" => (rec'.video <=> VideoOpen')
        /\ ui'.pc \in {"obs", "net"} => rec'.csv
        /\ ui'.pc \in {"obsoff", "netoff"} => ~rec'.csv
        /\ IF ui'.pc \in {"avset", "avstop"} THEN ~rec'.av /\ rec'.file["sync"] # None
           ELSE ui'.pc # "end" => (rec'.av <=> rec'.file["sync"] # None)
        /\ ui'.pc = "avfile" => ~rec'.av
        /\ ui'.pc \in {"run", "avoff"} => rec'.av
    BY <2>1, <2>2 DEF SwitchInv
  <2>4. /\ rec'.file["obs"] # None => rec'.csv \/ ui'.pc = "obsoff"
        /\ rec'.file["net"] # None => rec'.csv \/ ui'.pc \in {"obsoff", "netoff"}
    BY <2>1, <2>2 DEF SwitchInv
  <2> QED
    BY <2>3, <2>4 DEF SwitchInv
<1>2. NoReuseInv'
  <2>1. NoReuseInv /\ SwitchInv
    BY DEF IInv
  <2>2. rec'.csv = rec.csv /\ rec'.av = rec.av /\ rec'.video = rec.video
    BY DEF SameSwitches
  <2>3. Heading' = Heading
    BY DEF Heading
  <2>4. /\ Finished(rec', "obs") => Finished(rec, "obs")
        /\ Finished(rec', "net") => Finished(rec, "net")
        /\ Finished(rec', "sync") => Finished(rec, "sync")
        /\ Finished(rec', "video") => Finished(rec, "video") \/ VideoOpen
    BY DEF Files
  <2>5. /\ rec'.csv /\ ui'.pc # "end" => ~Finished(rec', "obs") /\ ~Finished(rec', "net")
        /\ Heading' \in BeforeCsv /\ ui'.want.csv /\ ~rec'.csv => ~Finished(rec', "obs") /\ ~Finished(rec', "net")
        /\ Heading' \in BeforeAv /\ ui'.want.av /\ ~rec'.av => ~Finished(rec', "sync")
        /\ ui'.pc = "avfile" => ~Finished(rec', "sync")
    BY <2>1, <2>2, <2>3, <2>4 DEF NoReuseInv
  <2>6. Heading \in BeforeVideo /\ VideoOpen => rec.video
    <3>1. Heading \in BeforeVideo => ui.pc \notin {"start", "open", "stop", "lock", "join", "end"}
      BY DEF Heading, BeforeVideo, BeforeAv, BeforeCsv
    <3> QED
      BY <2>1, <3>1 DEF SwitchInv
  <2>7. ui.pc \in {"start", "open"} => ~VideoOpen
    BY <2>1 DEF SwitchInv
  <2>8. /\ Heading' \in BeforeVideo /\ ui'.want.video /\ ~rec'.video => ~Finished(rec', "video")
        /\ ui'.pc \in {"start", "open"} => ~Finished(rec', "video")
    BY <2>1, <2>2, <2>3, <2>4, <2>6, <2>7 DEF NoReuseInv
  <2>9. \A kind : Finished(rec, kind)' <=> Finished(rec', kind)
    BY DEF Finished, Name
  <2> QED
    BY <2>5, <2>8, <2>9 DEF NoReuseInv
<1>3. MachineInv'
  <2>1. \A d \in Devices : WillPlay(rec', d) <=> WillPlay(rec, d)
    BY DEF SameMachine, WillPlay
  <2>2. /\ rec'.snapshot = rec.snapshot /\ rec'.host = rec.host /\ rec'.mixer = rec.mixer /\ rec'.prg = rec.prg
        /\ rec'.av = rec.av
    BY DEF SameMachine, SameSwitches
  <2>3. Heading' = Heading
    BY DEF Heading
  <2>4. \A d \in Devices : WillPlay(rec, d)' <=> WillPlay(rec', d)
    BY DEF WillPlay
  <2> QED
    BY <2>1, <2>2, <2>3, <2>4 DEF IInv, MachineInv
<1> QED
  BY <1>1, <1>2, <1>3

\* What is on its way after a step that neither queues nor drops.
LEMMA OwedKept ==
    ASSUME IInv, SameWriter(rec, rec'), owed' = owed
    PROVE  NothingSilentlyLost'
  BY DEF IInv, NothingSilentlyLost, SameWriter

\* Saving a picture starts a session, and with CSV on its files.
LEMMA SaveShotRecord ==
    ASSUME IInv, Renewed = {TRUE}, SaveShot
    PROVE  /\ IsRecorder(rec') /\ RecordInv(rec') /\ Grows(rec, rec') /\ SessionStep(rec, rec')
           /\ SameSwitches(rec, rec') /\ SameWriter(rec, rec') /\ SameMachine(rec, rec')
           /\ \A f \in Files \ {"obs", "net"} : rec'.file[f] = rec.file[f]
           /\ ~rec.csv => rec'.file["obs"] = rec.file["obs"] /\ rec'.file["net"] = rec.file["net"]
           /\ \A kind : Finished(rec', kind) => Finished(rec, kind)
           /\ DOMAIN proc' = DOMAIN proc
           /\ proc'.pc = "video" \/ (proc'.pc = "bmp" /\ rec'.session # 0)
<1>1. PICK o \in EnsureSession(rec, TRUE, left.faults) :
         IF o.r.session = 0
         THEN rec' = o.r /\ Goto("video")
         ELSE \E c \in WithCsv(o, TRUE, left.faults) : rec' = c.r /\ Goto("bmp")
  BY DEF SaveShot
<1>2. IsRecorder(rec) /\ RecordInv(rec) /\ DOMAIN proc = {"pc", "packet", "todo"} /\ ui.pc # "end"
  BY TheRecorder DEF IInv, ShapeInv, LockInv, SaveShot
<1>3. /\ IsRecorder(o.r) /\ SessionStep(rec, o.r)
      /\ SameSwitches(rec, o.r) /\ SameFiles(rec, o.r) /\ SameWriter(rec, o.r) /\ SameMachine(rec, o.r)
  BY <1>1, <1>2, EnsureSays
<1>4. RecordInv(o.r)
  BY <1>2, <1>3, SessionRecord
<1>5. Grows(rec, o.r)
  BY <1>2, <1>3, UnchangedGrows DEF SameFiles
<1>6. ASSUME NEW kind, Finished(o.r, kind)
      PROVE  Finished(rec, kind)
  <2>1. Name(o.r, kind) \in DOMAIN o.r.disk /\ o.r.disk[Name(o.r, kind)].done
          => Name(o.r, kind) \in DOMAIN rec.disk /\ rec.disk[Name(o.r, kind)].done
    BY <1>3 DEF SameFiles
  <2> QED
    BY <1>2, <1>3, <1>6, <2>1, FinishedBefore
<1>7. CASE o.r.session = 0
  <2>1. rec' = o.r /\ proc' = [proc EXCEPT !.pc = "video"]
    BY <1>1, <1>7 DEF Goto
  <2>2. DOMAIN proc' = DOMAIN proc /\ proc'.pc = "video"
    BY <1>2, <2>1
  <2>3. \A f \in Files : rec'.file[f] = rec.file[f]
    BY <1>3, <2>1 DEF SameFiles
  <2> QED
    BY <1>3, <1>4, <1>5, <1>6, <2>1, <2>2, <2>3 DEF Files
<1>8. CASE o.r.session # 0
  <2>1. PICK c \in WithCsv(o, TRUE, left.faults) : rec' = c.r /\ proc' = [proc EXCEPT !.pc = "bmp"]
    BY <1>1, <1>8 DEF Goto
  <2>2. PICK r : r = o.r
    OBVIOUS
  <2>3. rec.csv = r.csv
    BY <1>3, <2>2 DEF SameSwitches
  <2>4. r.csv => ~Finished(r, "obs") /\ ~Finished(r, "net")
    BY <1>2, <1>6, <2>2, <2>3 DEF IInv, NoReuseInv
  <2>5. IsRecorder(r) /\ RecordInv(r)
    BY <1>3, <1>4, <2>2
  <2>6. /\ IsRecorder(c.r) /\ RecordInv(c.r) /\ Grows(r, c.r) /\ NoneFinished(r, c.r) /\ SessionStep(r, c.r)
        /\ SameSwitches(r, c.r) /\ SameWriter(r, c.r) /\ SameMachine(r, c.r) /\ OnlyCsv(r, c.r)
    BY <2>1, <2>2, <2>4, <2>5, WithCsvRecord
  <2>7. PICK q : q = c.r
    OBVIOUS
  <2>8. /\ IsRecorder(q) /\ RecordInv(q) /\ Grows(r, q) /\ NoneFinished(r, q) /\ SessionStep(r, q)
        /\ SameSwitches(r, q) /\ SameWriter(r, q) /\ SameMachine(r, q) /\ OnlyCsv(r, q) /\ rec' = q
    BY <2>1, <2>6, <2>7
  <2>9. /\ SessionStep(rec, r) /\ SameSwitches(rec, r) /\ SameFiles(rec, r) /\ SameWriter(rec, r) /\ SameMachine(rec, r)
        /\ Grows(rec, r) /\ r.session # 0
    BY <1>3, <1>5, <1>8, <2>2
  <2>10. SessionStep(rec, q) /\ Grows(rec, q)
    BY <1>2, <2>5, <2>8, <2>9, SessionTwice, GrowsTwice
  <2>11. SameSwitches(rec, q) /\ SameWriter(rec, q)
    BY <2>8, <2>9 DEF SameSwitches, SameWriter
  <2>12. SameMachine(rec, q)
    BY <2>8, <2>9 DEF SameMachine
  <2>13. /\ \A f \in Files \ {"obs", "net"} : q.file[f] = rec.file[f]
         /\ ~rec.csv => q.file["obs"] = rec.file["obs"] /\ q.file["net"] = rec.file["net"]
    BY <2>3, <2>8, <2>9 DEF OnlyCsv, SameFiles
  <2>14. ASSUME NEW kind, Finished(q, kind)
         PROVE  Finished(rec, kind)
    <3>1. Name(q, kind) \in DOMAIN q.disk /\ q.disk[Name(q, kind)].done
            => Name(q, kind) \in DOMAIN r.disk /\ r.disk[Name(q, kind)].done
      BY <2>8 DEF NoneFinished
    <3>2. Finished(r, kind)
      BY <2>5, <2>8, <2>14, <3>1, FinishedBefore
    <3> QED
      BY <1>6, <2>2, <3>2
  <2>15. q.session # 0
    BY <2>8, <2>9 DEF SessionStep, SameSession
  <2>16. DOMAIN proc' = DOMAIN proc /\ proc'.pc = "bmp"
    BY <1>2, <2>1
  <2> QED
    BY <2>8, <2>10, <2>11, <2>12, <2>13, <2>14, <2>15, <2>16
<1> QED
  BY <1>7, <1>8

LEMMA SaveShotStep ==
    ASSUME IInv, Renewed = {TRUE}, SaveShot
    PROVE  IInv' /\ Grows(rec, rec')
<1>1. /\ IsRecorder(rec') /\ RecordInv(rec') /\ Grows(rec, rec') /\ SessionStep(rec, rec')
      /\ SameSwitches(rec, rec') /\ SameWriter(rec, rec') /\ SameMachine(rec, rec')
      /\ \A f \in Files \ {"obs", "net"} : rec'.file[f] = rec.file[f]
      /\ ~rec.csv => rec'.file["obs"] = rec.file["obs"] /\ rec'.file["net"] = rec.file["net"]
      /\ \A kind : Finished(rec', kind) => Finished(rec, kind)
      /\ DOMAIN proc' = DOMAIN proc
      /\ proc'.pc = "video" \/ (proc'.pc = "bmp" /\ rec'.session # 0)
  BY SaveShotRecord
<1>2. proc.pc = "shot" /\ lock = "none" /\ UNCHANGED <<ui, ret, lock, alive, setting, owed, stray>>
  BY DEF SaveShot, procFrame, Free
<1>3. rec.frames /\ ui.pc # "end"
  BY <1>2 DEF IInv, SessionInv, LockInv
<1>4. ShapeInv'
  BY <1>1, <1>2 DEF IInv, ShapeInv, ProcPcs
<1>5. LockInv'
  BY <1>1, <1>2 DEF IInv, LockInv, SameWriter
<1>6. rec'.file["video"] = rec.file["video"] /\ rec'.file["sync"] = rec.file["sync"]
  BY <1>1 DEF Files
<1>7. SwitchInv' /\ NoReuseInv' /\ MachineInv'
  BY <1>1, <1>2, <1>3, <1>6, SettingsKept DEF VideoOpen
<1>8. SessionInv'
  BY <1>1, <1>2, <1>3 DEF IInv, SessionInv, SameSwitches, AnyActive
<1>9. RollInv'
  BY <1>1 DEF RollInv
<1>10. NothingSilentlyLost'
  BY <1>1, <1>2, OwedKept
<1> QED
  BY <1>1, <1>4, <1>5, <1>7, <1>8, <1>9, <1>10, Together

LEMMA WriteShotStep ==
    ASSUME IInv, WriteShot
    PROVE  IInv' /\ Grows(rec, rec')
<1>1. proc.pc = "bmp" /\ proc' = [proc EXCEPT !.pc = "video"] /\ rec.session # 0 /\ ~stray
  BY DEF WriteShot, Goto, IInv, SessionInv
<1>2. UNCHANGED kept
  <2>1. stray = FALSE
    BY <1>1 DEF IInv, ShapeInv
  <2>2. stray' = FALSE
    BY <1>1, <2>1 DEF WriteShot
  <2> QED
    BY <2>1, <2>2 DEF WriteShot, procFrame, kept
<1>3. DOMAIN proc = {"pc", "packet", "todo"}
  BY DEF IInv, ShapeInv
<1>4. DOMAIN proc' = DOMAIN proc /\ proc'.pc = "video"
  BY <1>1, <1>3
<1>5. IInv'
  BY <1>1, <1>2, <1>4, ProcessorMoves DEF ProcPcs
<1>6. Grows(rec, rec')
  BY <1>2, TheRecorder, UnchangedGrows DEF kept
<1> QED
  BY <1>5, <1>6

\* A step of the processor or the writer within a session.
LEMMA RecordsOn ==
    ASSUME IInv, UNCHANGED <<ui, ret, alive, setting, stray>>, ui.pc # "end",
           IsRecorder(rec'), RecordInv(rec'), SameSwitches(rec, rec'), SameSession(rec, rec'), SameMachine(rec, rec'),
           VideoOpen' <=> VideoOpen, \A f \in Files \ {"video"} : rec'.file[f] = rec.file[f],
           \A kind \in Files : Finished(rec', kind) => Finished(rec, kind) \/ (kind = "video" /\ VideoOpen),
           DOMAIN proc' = DOMAIN proc, proc'.pc \in ProcPcs, proc'.pc \in {"shot", "bmp"} => proc'.pc = proc.pc,
           lock' \in {"none", "ui", "proc"}, LockInv', RollInv', NothingSilentlyLost'
    PROVE  IInv'
<1>1. ShapeInv'
  BY DEF IInv, ShapeInv
<1>2. SwitchInv' /\ NoReuseInv' /\ MachineInv'
  BY SettingsKept DEF Files
<1>3. SessionInv'
  BY DEF IInv, SessionInv, SameSwitches, SameSession, AnyActive
<1> QED
  BY <1>1, <1>2, <1>3, Together

\* The same files, the same content: what was finished is finished.
LEMMA FinishedKept ==
    ASSUME NEW r, NEW q, SameSession(r, q), q.disk = r.disk, NEW kind
    PROVE  Finished(q, kind) <=> Finished(r, kind)
  BY DEF Finished, Name, SameSession

\* A chunk more is due, and it is on its way or dropped.
LEMMA OneMoreOwed ==
    ASSUME IInv, NEW chunk, rec.writer.on, IsDropped(rec, rec') \/ IsQueued(rec, rec', chunk), owed' = owed + 1
    PROVE  NothingSilentlyLost'
<1>1. /\ IsSeq(rec.writer.queue) /\ IsSeq(rec.writer.held) /\ rec.drops \in Nat
      /\ owed = rec.drops + Len(rec.writer.queue) + Len(rec.writer.held)
  BY TheRecorder DEF IsRecorder, IInv, NothingSilentlyLost
<1>2. Len(rec.writer.queue) \in Nat /\ Len(rec.writer.held) \in Nat
  BY <1>1, SeqFacts
<1>3. PICK d \in Nat, a \in Nat, b \in Nat :
        d = rec.drops /\ a = Len(rec.writer.queue) /\ b = Len(rec.writer.held) /\ owed = d + a + b
  BY <1>1, <1>2
<1>6. PICK x, y : x = owed /\ y = owed' /\ y = x + 1 /\ x = d + a + b /\ y = (d + 1) + a + b /\ y = d + (a + 1) + b
  <2>1. owed = d + a + b
    BY <1>3
  <2>2. owed + 1 = (d + 1) + a + b /\ owed + 1 = d + (a + 1) + b
    BY <2>1
  <2> QED
    BY <2>1, <2>2
<1>4. CASE IsDropped(rec, rec')
  <2>1. rec'.drops = d + 1 /\ Len(rec'.writer.queue) = a /\ Len(rec'.writer.held) = b
    BY <1>3, <1>4 DEF IsDropped
  <2>2. owed' = (d + 1) + a + b
    BY <1>3, <1>6
  <2> QED
    BY <2>1, <2>2 DEF NothingSilentlyLost
<1>5. CASE IsQueued(rec, rec', chunk)
  <2>1. Len(Append(rec.writer.queue, chunk)) = a + 1
    BY <1>1, <1>3, AppendIsSeq
  <2>2. rec'.drops = d /\ Len(rec'.writer.queue) = a + 1 /\ Len(rec'.writer.held) = b
    BY <1>3, <1>5, <2>1 DEF IsQueued
  <2>3. owed' = d + (a + 1) + b
    BY <1>3, <1>6
  <2> QED
    BY <2>2, <2>3 DEF NothingSilentlyLost
<1> QED
  BY <1>4, <1>5

LEMMA RecordStep ==
    ASSUME IInv, Record
    PROVE  IInv' /\ Grows(rec, rec')
<1>1. /\ proc.pc = "frame" /\ lock = "none" /\ UNCHANGED <<ui, ret, alive, setting, stray, vid>>
      /\ DOMAIN proc = {"pc", "packet", "todo"} /\ ui.pc \notin {"end", "join", "last"}
      /\ ~rec.writer.stopping
  BY DEF Record, procFrame, mediaVars, Free, IInv, LockInv, ShapeInv
<1>2. IsRecorder(rec) /\ RecordInv(rec)
  BY TheRecorder
<1>3. CASE NeedsRoll(rec, Format)
  <2>1. rec' = StopWriting(rec) /\ lock' = "proc" /\ proc' = [proc EXCEPT !.pc = "roll"] /\ owed' = owed
    BY <1>3 DEF Record, Goto
  <2>2. VideoOpen
    BY <1>1, <1>3 DEF IInv, RollInv
  <2>3. PICK q : q = rec'
    OBVIOUS
  <2>4. /\ IsRecorder(q) /\ RecordInv(q) /\ Grows(rec, q)
        /\ q.writer.on = rec.writer.on /\ q.writer.queue = rec.writer.queue /\ q.writer.held = rec.writer.held
        /\ q.writer.stopping = TRUE
        /\ SameSwitches(rec, q) /\ SameSession(rec, q) /\ SameFiles(rec, q) /\ SameCounts(rec, q) /\ SameMachine(rec, q)
    BY <1>2, <2>1, <2>3, StopWritingRecord
  <2>5. DOMAIN proc' = DOMAIN proc /\ proc'.pc = "roll"
    BY <1>1, <2>1
  <2>6. \A f \in Files : rec'.file[f] = rec.file[f]
    BY <2>3, <2>4 DEF SameFiles
  <2>7. VideoOpen' <=> VideoOpen
    BY <2>6 DEF VideoOpen, Files
  <2>8. \A kind : Finished(rec', kind) => Finished(rec, kind)
    BY <2>3, <2>4, FinishedKept DEF SameFiles
  <2>9. LockInv'
    BY <1>1, <2>1, <2>5 DEF IInv, LockInv
  <2>10. RollInv'
    BY <2>2, <2>5, <2>7 DEF RollInv
  <2>11. NothingSilentlyLost'
    BY <2>1, <2>3, <2>4 DEF IInv, NothingSilentlyLost, SameCounts
  <2>12. IInv'
    BY <1>1, <2>1, <2>3, <2>4, <2>5, <2>6, <2>7, <2>8, <2>9, <2>10, <2>11, RecordsOn DEF ProcPcs
  <2> QED
    BY <2>3, <2>4, <2>12
<1>4. CASE ~NeedsRoll(rec, Format)
  <2>1. /\ rec' = RecordFrame(rec, Format, vid.cur.num) /\ lock' = lock /\ proc' = [proc EXCEPT !.pc = "out"]
        /\ owed' = Due(rec, "video")
    BY <1>4 DEF Record, Goto
  <2>2. PICK q, fmt, frame : q = rec' /\ fmt = Format /\ frame = vid.cur.num
    OBVIOUS
  <2>3. q = RecordFrame(rec, fmt, frame) /\ ~NeedsRoll(rec, fmt)
    BY <1>4, <2>1, <2>2
  <2>4. IsRecorder(q) /\ RecordInv(q) /\ Grows(rec, q)
    BY <1>2, <2>3, RecordFrameRecord
  <2>5. /\ SameSwitches(rec, q) /\ SameSession(rec, q) /\ SameFiles(rec, q) /\ SameMachine(rec, q)
        /\ \/ ~rec.writer.on /\ q = rec
           \/ IsDropped(rec, q)
           \/ IsQueued(rec, q, [kind |-> "video", id |-> frame, fmt |-> fmt, cut |-> FALSE])
    BY <1>2, <2>3, RecordFrameSays
  <2>6. DOMAIN proc' = DOMAIN proc /\ proc'.pc = "out"
    BY <1>1, <2>1
  <2>7. \A f \in Files : rec'.file[f] = rec.file[f]
    BY <2>2, <2>5 DEF SameFiles
  <2>8. VideoOpen' <=> VideoOpen
    BY <2>7 DEF VideoOpen, Files
  <2>9. \A kind : Finished(rec', kind) => Finished(rec, kind)
    BY <2>2, <2>5, FinishedKept DEF SameFiles
  <2>10. LockInv'
    <3>1. rec'.writer.stopping = rec.writer.stopping
      BY <2>2, <2>5 DEF IsDropped, IsQueued
    <3> QED
      BY <1>1, <2>1, <2>6, <3>1 DEF IInv, LockInv
  <2>11. RollInv'
    BY <2>6 DEF RollInv
  <2>12. NothingSilentlyLost'
    <3>1. rec.writer.on <=> rec.file["video"] # None
      BY DEF IInv, WriterInv
    <3>2. CASE rec.writer.on
      <4>1. owed' = owed + 1
        BY <2>1, <3>1, <3>2 DEF Due
      <4> QED
        BY <2>2, <2>5, <3>2, <4>1, OneMoreOwed
    <3>3. CASE ~rec.writer.on
      <4>1. owed' = owed /\ rec' = rec
        BY <2>1, <2>2, <2>5, <3>1, <3>3 DEF Due, IsDropped, IsQueued
      <4> QED
        BY <4>1 DEF IInv, NothingSilentlyLost
    <3> QED
      BY <3>2, <3>3
  <2>13. IInv'
    BY <1>1, <2>1, <2>2, <2>4, <2>5, <2>6, <2>7, <2>8, <2>9, <2>10, <2>11, <2>12, RecordsOn DEF ProcPcs
  <2> QED
    BY <2>2, <2>4, <2>13
<1> QED
  BY <1>3, <1>4

LEMMA RecordSoundStep ==
    ASSUME IInv, RecordSound
    PROVE  IInv' /\ Grows(rec, rec')
<1>1. /\ proc.pc = "chunk" /\ lock = "none" /\ lock' = lock /\ UNCHANGED <<ui, ret, alive, setting, stray>>
      /\ DOMAIN proc = {"pc", "packet", "todo"} /\ ui.pc # "end"
  BY DEF RecordSound, procFrame, Free, IInv, LockInv, ShapeInv
<1>2. IsRecorder(rec) /\ RecordInv(rec)
  BY TheRecorder
<1>3. PICK chunk, q : /\ chunk = [kind |-> "audio", id |-> proc.todo[1].id, fmt |-> None, cut |-> proc.todo[1].cut]
                      /\ q = rec'
  OBVIOUS
<1>4. q = Enqueue(rec, chunk) /\ owed' = Due(rec, "audio") /\ chunk.kind = "audio"
  BY <1>3 DEF RecordSound
<1>5. IsRecorder(q) /\ RecordInv(q) /\ Grows(rec, q)
  BY <1>2, <1>4, EnqueueRecord
<1>6. /\ SameSwitches(rec, q) /\ SameSession(rec, q) /\ SameFiles(rec, q) /\ SameMachine(rec, q)
      /\ (~rec.writer.on /\ q = rec) \/ IsDropped(rec, q) \/ IsQueued(rec, q, chunk)
  BY <1>2, <1>4, EnqueueSays
<1>7. DOMAIN proc' = DOMAIN proc /\ proc'.pc \in {"idle", "sound"}
  <2>1. proc' = IdleProc \/ proc' = [proc EXCEPT !.pc = "sound", !.todo = Tail(@)]
    BY DEF RecordSound
  <2> QED
    BY <1>1, <2>1, IdleSays
<1>8. \A f \in Files : rec'.file[f] = rec.file[f]
  BY <1>3, <1>6 DEF SameFiles
<1>9. VideoOpen' <=> VideoOpen
  BY <1>8 DEF VideoOpen, Files
<1>10. \A kind : Finished(rec', kind) => Finished(rec, kind)
  BY <1>3, <1>6, FinishedKept DEF SameFiles
<1>11. LockInv'
  <2>1. rec'.writer.stopping = rec.writer.stopping
    BY <1>3, <1>6 DEF IsDropped, IsQueued
  <2> QED
    BY <1>1, <1>7, <2>1 DEF IInv, LockInv
<1>12. RollInv'
  BY <1>7 DEF RollInv
<1>13. NothingSilentlyLost'
  <2>1. rec.writer.on <=> rec.file["audio"] # None
    BY DEF IInv, WriterInv
  <2>2. CASE rec.writer.on
    <3>1. owed' = owed + 1
      <4>1. Due(rec, "audio") = owed + 1
        BY <2>1, <2>2, Zenon DEF Due
      <4> QED
        BY <1>4, <4>1
    <3> QED
      BY <1>3, <1>6, <2>2, <3>1, OneMoreOwed
  <2>3. CASE ~rec.writer.on
    <3>1. owed' = owed /\ rec' = rec
      BY <1>3, <1>4, <1>6, <2>1, <2>3 DEF Due, IsDropped, IsQueued
    <3> QED
      BY <3>1 DEF IInv, NothingSilentlyLost
  <2> QED
    BY <2>2, <2>3
<1>14. IInv'
  BY <1>1, <1>3, <1>5, <1>6, <1>7, <1>8, <1>9, <1>10, <1>11, <1>12, <1>13, RecordsOn DEF ProcPcs
<1> QED
  BY <1>3, <1>5, <1>14

LEMMA TakeFromQueueStep ==
    ASSUME IInv, TakeFromQueue
    PROVE  IInv' /\ Grows(rec, rec')
<1>1. /\ rec.writer.on /\ rec.writer.queue # <<>> /\ rec.writer.held = <<>> /\ rec' = TakeChunk(rec)
      /\ UNCHANGED <<proc, ui, ret, lock, alive, setting, stray, owed, vid>>
  BY DEF TakeFromQueue, otherVars, threadVars, mediaVars
<1>2. IsRecorder(rec) /\ RecordInv(rec)
  BY TheRecorder
<1>3. PICK q : q = rec'
  OBVIOUS
<1>4. IsRecorder(q) /\ RecordInv(q) /\ Grows(rec, q)
  BY <1>1, <1>2, <1>3, TakeRecord
<1>5. /\ Len(q.writer.held) + Len(q.writer.queue) = Len(rec.writer.held) + Len(rec.writer.queue)
      /\ q.writer.on = rec.writer.on /\ q.writer.stopping = rec.writer.stopping
      /\ SameSwitches(rec, q) /\ SameSession(rec, q) /\ SameFiles(rec, q) /\ SameCounts(rec, q) /\ SameMachine(rec, q)
  BY <1>1, <1>2, <1>3, TakeSays
<1>6. \A f \in Files : rec'.file[f] = rec.file[f]
  BY <1>3, <1>5 DEF SameFiles
<1>7. VideoOpen' <=> VideoOpen
  BY <1>6 DEF VideoOpen, Files
<1>8. \A kind : Finished(rec', kind) => Finished(rec, kind)
  BY <1>3, <1>5, FinishedKept DEF SameFiles
<1>9. LockInv'
  BY <1>1, <1>3, <1>5 DEF IInv, LockInv
<1>10. RollInv'
  BY <1>1, <1>3, <1>5, <1>7 DEF IInv, RollInv, NeedsRoll, SameCounts, Format
<1>11. NothingSilentlyLost'
  <2>1. /\ Len(q.writer.held) \in Nat /\ Len(q.writer.queue) \in Nat
        /\ Len(rec.writer.held) \in Nat /\ Len(rec.writer.queue) \in Nat /\ rec.drops \in Nat
    BY <1>2, <1>4, SeqFacts DEF IsRecorder
  <2>2. owed = rec.drops + Len(rec.writer.queue) + Len(rec.writer.held) /\ q.drops = rec.drops
    BY <1>5 DEF IInv, NothingSilentlyLost, SameCounts
  <2>3. PICK d \in Nat, a \in Nat, b \in Nat, c \in Nat, e \in Nat :
          /\ d = rec.drops /\ a = Len(rec.writer.queue) /\ b = Len(rec.writer.held)
          /\ c = Len(q.writer.queue) /\ e = Len(q.writer.held)
    BY <2>1
  <2>4. owed = d + a + b /\ e + c = b + a
    BY <1>5, <2>2, <2>3
  <2>5. owed = d + c + e
    BY <2>4
  <2>6. owed = q.drops + Len(q.writer.queue) + Len(q.writer.held)
    BY <2>2, <2>3, <2>5
  <2> QED
    BY <1>1, <1>3, <2>6 DEF NothingSilentlyLost
<1>12. ui.pc # "end"
  BY <1>1 DEF IInv, SwitchInv, WriterInv, Files
<1>13. IInv'
  <2>1. lock \in {"none", "ui", "proc"} /\ proc.pc \in ProcPcs
    BY DEF IInv, ShapeInv
  <2> QED
    BY <1>1, <1>3, <1>4, <1>5, <1>6, <1>7, <1>8, <1>9, <1>10, <1>11, <1>12, <2>1, RecordsOn
<1> QED
  BY <1>3, <1>4, <1>13

LEMMA WriteToDiskStep ==
    ASSUME IInv, "diskfull" \notin Windows, WriteToDisk
    PROVE  IInv' /\ Grows(rec, rec')
<1>1. /\ rec.writer.held # <<>> /\ rec' = WriteChunk(rec)
      /\ owed' = IF rec.file[rec.writer.held[1].kind] # None THEN owed - 1 ELSE owed
      /\ UNCHANGED <<proc, ui, ret, lock, alive, setting, stray, vid>>
  BY DEF WriteToDisk, Window, otherVars, threadVars, mediaVars
<1>2. IsRecorder(rec) /\ RecordInv(rec)
  BY TheRecorder
<1>3. PICK q : q = rec'
  OBVIOUS
<1>4. /\ IsRecorder(q) /\ RecordInv(q) /\ Grows(rec, q)
      /\ SameSwitches(rec, q) /\ SameSession(rec, q) /\ SameMachine(rec, q)
      /\ rec.file[rec.writer.held[1].kind] # None /\ rec.writer.on /\ Len(rec.writer.held) = 1
      /\ q.writer.held = <<>> /\ q.writer.queue = rec.writer.queue /\ q.drops = rec.drops
      /\ q.writer.on = rec.writer.on /\ q.writer.stopping = rec.writer.stopping /\ q.file = rec.file
      /\ q.segment = rec.segment
      /\ \A n \in DOMAIN q.disk : n \in DOMAIN rec.disk /\ q.disk[n].done = rec.disk[n].done
  BY <1>1, <1>2, <1>3, WriteRecord
<1>6. \A f \in Files : rec'.file[f] = rec.file[f]
  BY <1>3, <1>4
<1>7. VideoOpen' <=> VideoOpen
  BY <1>6 DEF VideoOpen, Files
<1>8. ASSUME NEW kind, Finished(rec', kind)
      PROVE  Finished(rec, kind)
  BY <1>3, <1>4, <1>8 DEF Finished, Name, SameSession
<1>9. LockInv'
  BY <1>1, <1>3, <1>4 DEF IInv, LockInv
<1>10. RollInv'
  BY <1>1, <1>3, <1>4, <1>7 DEF IInv, RollInv, NeedsRoll, Format
<1>11. NothingSilentlyLost'
  <2>1. Len(rec.writer.queue) \in Nat /\ rec.drops \in Nat
    BY <1>2, SeqFacts DEF IsRecorder
  <2>2. owed = rec.drops + Len(rec.writer.queue) + 1 /\ owed' = owed - 1
    BY <1>1, <1>4 DEF IInv, NothingSilentlyLost
  <2>3. owed' = q.drops + Len(q.writer.queue) + 0 /\ Len(q.writer.held) = 0
    BY <1>4, <2>1, <2>2, EmptyIsSeq
  <2> QED
    BY <1>3, <2>3 DEF NothingSilentlyLost
<1>12. ui.pc # "end"
  BY <1>4 DEF IInv, SwitchInv, WriterInv, Files
<1>13. IInv'
  <2>1. lock \in {"none", "ui", "proc"} /\ proc.pc \in ProcPcs
    BY DEF IInv, ShapeInv
  <2> QED
    BY <1>1, <1>3, <1>4, <1>6, <1>7, <1>8, <1>9, <1>10, <1>11, <1>12, <2>1, RecordsOn
<1> QED
  BY <1>3, <1>4, <1>13

LEMMA RollSegmentStep ==
    ASSUME IInv, "rollfail" \notin Windows, RollSegment
    PROVE  IInv' /\ Grows(rec, rec')
<1>1. /\ proc.pc = "roll" /\ Gone(rec) /\ proc' = [proc EXCEPT !.pc = "out"] /\ lock' = "none"
      /\ UNCHANGED <<ui, ret, alive, setting, stray>>
      /\ DOMAIN proc = {"pc", "packet", "todo"} /\ lock = "proc" /\ ui.pc \notin {"end", "join", "last"}
  BY DEF RollSegment, Goto, procFrame, IInv, LockInv, ShapeInv
<1>2. IsRecorder(rec) /\ RecordInv(rec)
  BY TheRecorder
<1>3. PICK fmt, frame : fmt = Format /\ frame = vid.cur.num
  OBVIOUS
<1>4. PICK o \in Roll(rec, fmt, 0) :
        /\ rec' = IF o.r.writer.on THEN RecordFrame(o.r, fmt, frame) ELSE o.r
        /\ owed' = IF o.r.writer.on THEN Due(o.r, "video") ELSE owed
  BY <1>3 DEF RollSegment, Window
<1>5. VideoOpen /\ rec.writer.on /\ rec.writer.queue = <<>> /\ rec.writer.held = <<>>
  BY <1>1 DEF IInv, RollInv, WriterInv, VideoOpen, Gone
<1>6. /\ IsRecorder(o.r) /\ RecordInv(o.r) /\ Grows(rec, o.r) /\ o.cost = 0
      /\ SameSwitches(rec, o.r) /\ SameSession(rec, o.r) /\ SameMachine(rec, o.r)
      /\ o.r.writer = NewWriter /\ o.r.drops = rec.drops /\ ~NeedsRoll(o.r, fmt)
      /\ o.r.file["video"] # None /\ \A f \in Files \ {"video"} : o.r.file[f] = rec.file[f]
      /\ \A n \in DOMAIN o.r.disk : o.r.disk[n].done => n[2] = "video" \/ (n \in DOMAIN rec.disk /\ rec.disk[n].done)
  BY <1>2, <1>4, <1>5, RollRecord
<1>7. PICK r, q : r = o.r /\ q = rec'
  OBVIOUS
<1>8. r.writer.on /\ ~r.writer.stopping /\ r.writer.queue = <<>> /\ r.writer.held = <<>>
  BY <1>6, <1>7, NewWriterSays
<1>9. q = RecordFrame(r, fmt, frame) /\ owed' = owed + 1
  BY <1>4, <1>6, <1>7, <1>8 DEF Due
<1>10. IsRecorder(r) /\ RecordInv(r) /\ ~NeedsRoll(r, fmt) /\ Grows(rec, r) /\ r.drops = rec.drops
  BY <1>6, <1>7
<1>11. IsRecorder(q) /\ RecordInv(q) /\ Grows(r, q)
  BY <1>9, <1>10, RecordFrameRecord
<1>12. /\ SameSwitches(r, q) /\ SameSession(r, q) /\ SameFiles(r, q) /\ SameMachine(r, q)
       /\ \/ ~r.writer.on /\ q = r
          \/ IsDropped(r, q)
          \/ IsQueued(r, q, [kind |-> "video", id |-> frame, fmt |-> fmt, cut |-> FALSE])
  BY <1>9, <1>10, RecordFrameSays
<1>13. SameSwitches(rec, q) /\ SameSession(rec, q)
  BY <1>6, <1>7, <1>12 DEF SameSwitches, SameSession
<1>14. SameMachine(rec, q)
  BY <1>6, <1>7, <1>12 DEF SameMachine
<1>15. Grows(rec, q)
  BY <1>2, <1>10, <1>11, GrowsTwice
<1>16. q.file["video"] # None /\ \A f \in Files \ {"video"} : q.file[f] = rec.file[f]
  BY <1>6, <1>7, <1>12 DEF SameFiles
<1>17. ASSUME NEW kind, Finished(q, kind)
       PROVE  Finished(rec, kind) \/ kind = "video"
  <2>1. /\ q.session # 0 /\ Name(q, kind) \in DOMAIN r.disk /\ r.disk[Name(q, kind)].done
        /\ Name(q, kind) = Name(rec, kind) /\ q.session = rec.session
    BY <1>12, <1>13, <1>17 DEF Finished, Name, SameSession, SameFiles
  <2>2. Name(q, kind)[2] = kind
    BY DEF Name
  <2>3. kind = "video" \/ (Name(q, kind) \in DOMAIN rec.disk /\ rec.disk[Name(q, kind)].done)
    BY <1>6, <1>7, <2>1, <2>2
  <2> QED
    BY <2>1, <2>3 DEF Finished
<1>18. DOMAIN proc' = DOMAIN proc /\ proc'.pc = "out"
  BY <1>1
<1>19. LockInv'
  <2>1. ~rec'.writer.stopping
    BY <1>7, <1>8, <1>12 DEF IsDropped, IsQueued
  <2> QED
    BY <1>1, <1>18, <2>1 DEF IInv, LockInv
<1>20. RollInv'
  BY <1>18 DEF RollInv
<1>21. NothingSilentlyLost'
  <2>1. owed = rec.drops + 0 + 0 /\ rec.drops \in Nat
    BY <1>2, <1>5, EmptyIsSeq DEF IInv, NothingSilentlyLost, IsRecorder
  <2>2. CASE IsDropped(r, q)
    BY <1>7, <1>8, <1>9, <1>10, <2>1, <2>2, EmptyIsSeq DEF IsDropped, NothingSilentlyLost
  <2>3. CASE IsQueued(r, q, [kind |-> "video", id |-> frame, fmt |-> fmt, cut |-> FALSE])
    <3>1. PICK c : IsQueued(r, q, c)
      BY <2>3
    <3>2. Len(q.writer.queue) = 1 /\ Len(q.writer.held) = 0 /\ q.drops = r.drops
      BY <1>8, <3>1, EmptyIsSeq, AppendIsSeq DEF IsQueued
    <3> QED
      BY <1>7, <1>9, <1>10, <2>1, <3>2 DEF NothingSilentlyLost
  <2> QED
    BY <1>8, <1>12, <2>2, <2>3
<1>22. VideoOpen'
  BY <1>7, <1>16 DEF VideoOpen
<1>23. IInv'
  BY <1>1, <1>5, <1>7, <1>11, <1>13, <1>14, <1>16, <1>17, <1>18, <1>19, <1>20, <1>21, <1>22, RecordsOn DEF ProcPcs
<1> QED
  BY <1>7, <1>15, <1>23

----------------------------------------------------------------------------
(***************************************************************************)
(* The retry worker, the device and the detached threads.                  *)
(***************************************************************************)
\* A step that is about the device only.
LEMMA MachineMoves ==
    ASSUME IInv, UNCHANGED <<proc, ui, lock, alive, setting, stray, owed, vid>>,
           IsRecorder(rec'), SameSwitches(rec, rec'), OnlyMachine(rec, rec'),
           ret' \in {"idle", "apply"}, ui.pc \in {"last", "end"} => ret' = "idle", MachineInv'
    PROVE  IInv' /\ Grows(rec, rec')
<1>1. PICK q : q = rec'
  OBVIOUS
<1>2. /\ SameSession(rec, q) /\ SameFiles(rec, q) /\ SameWriter(rec, q) /\ SameSwitches(rec, q)
      /\ IsRecorder(rec) /\ RecordInv(rec)
  BY <1>1, TheRecorder DEF OnlyMachine
<1>3. RecordInv(q) /\ Grows(rec, q)
  BY <1>2, SameRecord, UnchangedGrows DEF SameFiles
<1>4. ShapeInv'
  BY DEF IInv, ShapeInv
<1>5. LockInv'
  BY <1>1, <1>2 DEF IInv, LockInv, SameWriter
<1>6. rec'.file = rec.file /\ rec'.disk = rec.disk /\ rec'.segment = rec.segment
  BY <1>1, <1>2 DEF SameFiles, SameWriter
<1>7. SwitchInv'
  BY <1>1, <1>2, <1>6 DEF IInv, SwitchInv, SameSwitches, VideoOpen
<1>8. SessionInv'
  BY <1>1, <1>2 DEF IInv, SessionInv, SameSwitches, SameSession, AnyActive
<1>9. NoReuseInv'
  BY <1>1, <1>2, <1>6 DEF IInv, NoReuseInv, Heading, Finished, Name, SameSwitches, SameSession
<1>10. RollInv'
  BY <1>6 DEF IInv, RollInv, VideoOpen, NeedsRoll, Format
<1>11. NothingSilentlyLost'
  BY <1>1, <1>2, OwedKept
<1> QED
  BY <1>1, <1>3, <1>4, <1>5, <1>7, <1>8, <1>9, <1>10, <1>11, Together

LEMMA ClientReadyStep ==
    ASSUME IInv, "mixer" \notin Windows, ClientReady
    PROVE  IInv' /\ Grows(rec, rec')
<1>1. /\ alive /\ ui.pc # "avoff" /\ ret' = IF rec.av /\ rec.snapshot = None THEN "apply" ELSE "idle"
      /\ UNCHANGED <<proc, ui, lock, alive, setting, stray, owed, vid, rec>>
  BY DEF ClientReady, Window, otherVars, mediaVars
<1>2. IsRecorder(rec') /\ SameSwitches(rec, rec') /\ OnlyMachine(rec, rec')
  BY <1>1, TheRecorder DEF SameSwitches, OnlyMachine, SameSession, SameFiles, SameWriter
<1>3. ui.pc \notin {"last", "end"}
  BY <1>1 DEF IInv, LockInv
<1>4. MachineInv'
  BY <1>1, <1>3 DEF IInv, MachineInv, Heading, WillPlay
<1> QED
  BY <1>1, <1>2, <1>3, <1>4, MachineMoves

LEMMA SetMixerStep ==
    ASSUME IInv, SetMixer
    PROVE  IInv' /\ Grows(rec, rec')
<1>1. PICK o \in ApplyZeroDb(rec, left.faults) : rec' = o.r
  BY DEF SetMixer
<1>2. /\ ret = "apply" /\ ret' = "idle"
      /\ UNCHANGED <<proc, ui, lock, alive, setting, stray, owed, vid>>
  BY DEF SetMixer, otherVars, mediaVars
<1>3. PICK q : q = o.r /\ q = rec'
  BY <1>1
<1>4. /\ IsRecorder(q) /\ SameSwitches(rec, q) /\ OnlyMachine(rec, q)
      /\ q.prg = rec.prg /\ q.jobs = rec.jobs /\ q.playing = rec.playing /\ q.host = rec.host
      /\ \A d \in Devices \ {rec.host} : q.mixer[d] = rec.mixer[d]
      /\ \/ q.snapshot = rec.snapshot /\ q.mixer = rec.mixer
         \/ rec.snapshot = None /\ q.snapshot = rec.mixer[rec.host]
  BY <1>1, <1>3, TheRecorder, ZeroDbSays
<1>5. MachineInv'
  <2>1. MachineInv /\ rec.host \in Devices
    BY TheRecorder DEF IInv, IsRecorder
  <2>2. rec.av /\ ui.pc \notin {"avoff", "last", "end"} /\ q.av = rec.av
    BY <1>2, <1>4, <2>1 DEF MachineInv, SameSwitches
  <2>3. \A d \in Devices : WillPlay(q, d) <=> WillPlay(rec, d)
    BY <1>4 DEF WillPlay
  <2>4. UserVolume[rec.host] # None
    BY <2>1, RecorderAssumption
  <2>5. /\ \A d \in Devices : q.snapshot = None \/ d # q.host => q.mixer[d] = UserVolume[d]
        /\ q.snapshot # None => q.snapshot = UserVolume[q.host]
    BY <1>4, <2>1, <2>4 DEF MachineInv
  <2>6. \A d \in Devices : WillPlay(q, d) => q.prg /\ d = q.host
    BY <1>4, <2>1, <2>3 DEF MachineInv
  <2>7. \A d \in Devices : WillPlay(rec, d)' <=> WillPlay(q, d)
    BY <1>3 DEF WillPlay
  <2> QED
    BY <1>2, <1>3, <2>2, <2>5, <2>6, <2>7 DEF MachineInv
<1> QED
  BY <1>2, <1>3, <1>4, <1>5, MachineMoves

LEMMA SwitchDeviceStep ==
    ASSUME IInv, "device" \notin Windows, SwitchDevice
    PROVE  IInv' /\ Grows(rec, rec')
<1>1. PICK d \in Devices : rec' = [rec EXCEPT !.host = d]
  BY DEF SwitchDevice
<1>2. /\ rec.snapshot = None /\ ~rec.prg /\ ret = "idle" /\ ui.pc = "idle"
      /\ UNCHANGED <<proc, ui, ret, lock, alive, setting, stray, owed, vid>>
  BY DEF SwitchDevice, Window, otherVars, threadVars, mediaVars
<1>3. PICK q : q = rec'
  OBVIOUS
<1>4. IsRecorder(q)
  BY <1>1, <1>3, TheRecorder DEF IsRecorder
<1>5. SameSwitches(rec, q) /\ OnlyMachine(rec, q)
  BY <1>1, <1>3, TheRecorder DEF IsRecorder, SameSwitches, OnlyMachine, SameSession, SameFiles, SameWriter
<1>6. /\ q.prg = rec.prg /\ q.jobs = rec.jobs /\ q.playing = rec.playing /\ q.mixer = rec.mixer
      /\ q.snapshot = rec.snapshot
  BY <1>1, <1>3, TheRecorder DEF IsRecorder
<1>7. MachineInv'
  <2>1. \A e \in Devices : ~WillPlay(rec, e)
    BY <1>2 DEF IInv, MachineInv
  <2>2. \A e \in Devices : ~WillPlay(q, e)
    BY <1>6, <2>1 DEF WillPlay
  <2>3. \A e \in Devices : WillPlay(rec, e)' <=> WillPlay(q, e)
    BY <1>3 DEF WillPlay
  <2> QED
    BY <1>2, <1>3, <1>6, <2>2, <2>3 DEF IInv, MachineInv
<1> QED
  BY <1>2, <1>3, <1>4, <1>5, <1>7, MachineMoves DEF IInv, ShapeInv

LEMMA RunJobStep ==
    ASSUME IInv, {"jobs", "jobfail"} \cap Windows = {}, RunJob
    PROVE  IInv' /\ Grows(rec, rec')
<1>1. /\ 1 \in DOMAIN rec.jobs
      /\ rec' = DoJob(rec, 1) \/ (rec.jobs[1].action = "run" /\ rec' = JobFails(rec, 1))
      /\ UNCHANGED <<proc, ui, ret, lock, alive, setting, stray, owed, vid>>
  BY DEF RunJob, Window, otherVars, threadVars, mediaVars
<1>2. IsRecorder(rec) /\ rec.jobs # <<>>
  BY <1>1, TheRecorder
<1>3. PICK q : q = rec'
  OBVIOUS
<1>4. q = DoJob(rec, 1) \/ (rec.jobs[1].action = "run" /\ q = JobFails(rec, 1))
  BY <1>1, <1>3
<1>5. /\ IsRecorder(q) /\ SameSwitches(rec, q) /\ OnlyMachine(rec, q)
      /\ q.snapshot = rec.snapshot /\ q.mixer = rec.mixer /\ q.host = rec.host /\ q.prg = rec.prg
  BY <1>2, <1>4, TakeJobSays
<1>6. MachineInv'
  <2>1. ASSUME NEW d \in Devices, WillPlay(rec, d)'
        PROVE  WillPlay(rec, d)
    <3>1. WillPlay(q, d)
      BY <1>3, <2>1 DEF WillPlay
    <3> QED
      BY <1>2, <1>4, <3>1, PlaysLess
  <2>2. rec'.av = rec.av
    BY <1>3, <1>5 DEF SameSwitches
  <2> QED
    BY <1>1, <1>3, <1>5, <2>1, <2>2 DEF IInv, MachineInv, Heading
<1> QED
  BY <1>1, <1>3, <1>5, <1>6, MachineMoves DEF IInv, ShapeInv, LockInv

----------------------------------------------------------------------------
(***************************************************************************)
(* The UI thread: steps that leave the files alone.                        *)
(***************************************************************************)
LEMMA FilesKept ==
    ASSUME OnlyMachine(rec, rec')
    PROVE  /\ rec'.file = rec.file /\ rec'.session = rec.session /\ (VideoOpen' <=> VideoOpen)
           /\ Finished(rec, "obs")' <=> Finished(rec, "obs")
           /\ Finished(rec, "net")' <=> Finished(rec, "net")
           /\ Finished(rec, "sync")' <=> Finished(rec, "sync")
           /\ Finished(rec, "video")' <=> Finished(rec, "video")
  BY DEF OnlyMachine, SameSession, SameFiles, Finished, Name, VideoOpen

\* A step of the UI thread outside the destruction, with recording_mutex free before and after it.
LEMMA UiMoves ==
    ASSUME IInv, UNCHANGED <<proc, ret, lock, alive, stray, owed, vid>>,
           IsRecorder(rec'), OnlyMachine(rec, rec'), setting' \in FlagSets,
           DOMAIN ui' = {"pc", "want", "back"}, ui'.pc \in UiPcs \ {"join", "destroy", "last", "end"},
           ui'.back \in {"idle", "csv", "av", "reset"}, ui'.pc # "idle" => ui'.want \in FlagSets,
           ui.pc \notin {"join", "last"},
           SwitchInv', SessionInv', NoReuseInv', MachineInv'
    PROVE  IInv' /\ Grows(rec, rec')
<1>1. PICK q : q = rec'
  OBVIOUS
<1>2. /\ SameSession(rec, q) /\ SameFiles(rec, q) /\ SameWriter(rec, q) /\ IsRecorder(rec) /\ RecordInv(rec)
  BY <1>1, TheRecorder DEF OnlyMachine
<1>3. RecordInv(q) /\ Grows(rec, q)
  BY <1>2, SameRecord, UnchangedGrows DEF SameFiles
<1>4. ShapeInv'
  BY DEF IInv, ShapeInv
<1>5. LockInv'
  BY <1>1, <1>2 DEF IInv, LockInv, SameWriter
<1>6. rec'.file = rec.file /\ rec'.segment = rec.segment
  BY <1>1, <1>2 DEF SameFiles, SameWriter
<1>7. RollInv'
  BY <1>6 DEF IInv, RollInv, VideoOpen, NeedsRoll, Format
<1>8. NothingSilentlyLost'
  BY <1>1, <1>2, OwedKept
<1> QED
  BY <1>1, <1>3, <1>4, <1>5, <1>7, <1>8, Together

\* The device is as it was, and the measurement too.
LEMMA MachineKept ==
    ASSUME IInv, SameMachine(rec, rec'), rec'.av = rec.av, ret' = ret,
           ui.pc \notin {"avfile", "avset", "avstop"}, ui'.pc \notin {"avoff", "last", "end"},
           Heading = "reset" => Heading' = "reset"
    PROVE  MachineInv'
<1>1. \A d \in Devices : WillPlay(rec, d)' <=> WillPlay(rec, d)
  BY DEF SameMachine, WillPlay
<1> QED
  BY <1>1 DEF IInv, MachineInv, SameMachine

LEMMA FlagSays ==
    ASSUME NEW w \in FlagSets
    PROVE  w.frames \in BOOLEAN /\ w.csv \in BOOLEAN /\ w.av \in BOOLEAN /\ w.video \in BOOLEAN
  BY DEF FlagSets

\* Nothing of the recorder changes.
LEMMA SameRecorder ==
    ASSUME NEW r, IsRecorder(r), NEW q, q = r
    PROVE  IsRecorder(q) /\ OnlyMachine(r, q) /\ SameMachine(r, q) /\ SameSwitches(r, q)
  BY DEF OnlyMachine, SameMachine, SameSwitches, SameSession, SameFiles, SameWriter

\* Where the UI thread is.
LEMMA TheUi ==
    ASSUME IInv
    PROVE  /\ DOMAIN ui = {"pc", "want", "back"} /\ ui.pc \in UiPcs /\ ui.back \in {"idle", "csv", "av", "reset"}
           /\ setting \in FlagSets
           /\ ui.pc \notin {"idle", "destroy", "last", "end"} => ui.want \in FlagSets
  BY DEF IInv, ShapeInv

LEMMA UpdateStep ==
    ASSUME IInv, "reuse" \notin Windows, Update
    PROVE  IInv' /\ Grows(rec, rec')
<1>1. PICK want \in Wanted : ~Reuses(want) /\ ui' = [IdleUi EXCEPT !.pc = "frames", !.want = want] /\ setting' = want
  BY DEF Update, Window
<1>2. ui.pc = "idle" /\ UNCHANGED <<proc, ret, lock, alive, stray, owed, vid, rec>>
  BY DEF Update, uiVars, mediaVars
<1>3. DOMAIN ui' = {"pc", "want", "back"} /\ ui'.pc = "frames" /\ ui'.want = want /\ ui'.back = "idle"
  BY <1>1, IdleSays
<1>4. want \in FlagSets
  <2>1. setting \in FlagSets
    BY TheUi
  <2> QED
    BY <1>1, <2>1 DEF Wanted, FlagSets
<1>5. IsRecorder(rec') /\ OnlyMachine(rec, rec') /\ SameMachine(rec, rec') /\ SameSwitches(rec, rec')
  BY <1>2, TheRecorder, SameRecorder
<1>6. SwitchInv'
  BY <1>2, <1>3 DEF IInv, SwitchInv, VideoOpen
<1>7. SessionInv'
  BY <1>2, <1>3 DEF IInv, SessionInv
<1>8. NoReuseInv'
  <2>1. /\ ui'.want.video /\ ~rec.video => ~Finished(rec, "video")
        /\ ui'.want.csv /\ ~rec.csv => ~Finished(rec, "obs") /\ ~Finished(rec, "net")
        /\ ui'.want.av /\ ~rec.av => ~Finished(rec, "sync")
    BY <1>1, <1>3 DEF Reuses
  <2> QED
    BY <1>2, <1>3, <1>5, <2>1, FilesKept DEF IInv, NoReuseInv
<1>9. MachineInv'
  BY <1>2, <1>3, <1>5, MachineKept DEF Heading
<1> QED
  BY <1>1, <1>2, <1>3, <1>4, <1>5, <1>6, <1>7, <1>8, <1>9, UiMoves DEF UiPcs, BeforeVideo, BeforeAv, BeforeCsv

LEMMA UpdateFramesStep ==
    ASSUME IInv, "bmp" \notin Windows, UpdateFrames
    PROVE  IInv' /\ Grows(rec, rec')
<1>1. /\ ui.pc = "frames" /\ UNCHANGED <<proc, ret, lock, alive, stray, owed, vid, setting>>
      /\ proc.pc # "shot" \/ ui.want.frames
      /\ rec' = [rec EXCEPT !.frames = ui.want.frames]
  BY DEF UpdateFrames, Window, uiVars, mediaVars
<1>2. ui' = IF rec.frames /\ ~ui.want.frames THEN [ui EXCEPT !.pc = "check", !.back = "csv"] ELSE [ui EXCEPT !.pc = "csv"]
  BY DEF UpdateFrames, UiCleanup, UiGoto
<1>3. /\ DOMAIN ui' = {"pc", "want", "back"} /\ ui'.want = ui.want /\ ui.want \in FlagSets
      /\ ui'.back \in {"idle", "csv", "av", "reset"} /\ Heading' = "csv"
      /\ (ui'.pc = "csv" /\ (~rec.frames \/ ui.want.frames)) \/ (ui'.pc = "check" /\ ui'.back = "csv")
  BY <1>1, <1>2, TheUi DEF Heading
<1>4. PICK q : q = rec'
  OBVIOUS
<1>5. /\ IsRecorder(q) /\ OnlyMachine(rec, q) /\ SameMachine(rec, q)
      /\ q.frames = ui.want.frames /\ q.csv = rec.csv /\ q.av = rec.av /\ q.video = rec.video
  <2>1. ui.want.frames \in BOOLEAN
    BY <1>3, FlagSays
  <2>2. IsRecorder(rec)
    BY TheRecorder
  <2>3. OnlyMachine(rec, q) /\ SameMachine(rec, q)
    BY <1>1, <1>4, <2>2 DEF IsRecorder, OnlyMachine, SameMachine, SameSession, SameFiles, SameWriter
  <2>4. q.frames = ui.want.frames /\ q.csv = rec.csv /\ q.av = rec.av /\ q.video = rec.video
    BY <1>1, <1>4, <2>2 DEF IsRecorder
  <2>5. IsRecorder(q)
    BY <1>1, <1>4, <2>1, <2>2 DEF IsRecorder
  <2> QED
    BY <2>3, <2>4, <2>5
<1>6. SwitchInv'
  BY <1>1, <1>3, <1>4, <1>5, FilesKept DEF IInv, SwitchInv
<1>7. SessionInv'
  BY <1>1, <1>3, <1>4, <1>5, FilesKept DEF IInv, SessionInv, AnyActive
<1>8. NoReuseInv'
  <2>1. Heading = "frames"
    BY <1>1 DEF Heading
  <2> QED
    BY <1>1, <1>3, <1>4, <1>5, <2>1, FilesKept DEF IInv, NoReuseInv, BeforeCsv, BeforeAv, BeforeVideo
<1>9. MachineInv'
  BY <1>1, <1>3, <1>4, <1>5, MachineKept DEF Heading
<1> QED
  BY <1>1, <1>3, <1>4, <1>5, <1>6, <1>7, <1>8, <1>9, TheUi, UiMoves DEF UiPcs, BeforeVideo, BeforeAv, BeforeCsv

LEMMA UpdateCsvStep ==
    ASSUME IInv, UpdateCsv
    PROVE  IInv' /\ Grows(rec, rec')
<1>1. /\ ui.pc = "csv" /\ UNCHANGED <<proc, ret, lock, alive, stray, owed, vid, setting>>
      /\ IF ui.want.csv = rec.csv THEN ui' = [ui EXCEPT !.pc = "av"] /\ rec' = rec
         ELSE rec' = [rec EXCEPT !.csv = ui.want.csv] /\ ui' = [ui EXCEPT !.pc = IF ui.want.csv THEN "obs" ELSE "obsoff"]
  BY DEF UpdateCsv, uiVars, mediaVars, UiGoto
<1>2. PICK q, c : q = rec' /\ c = ui.want.csv
  OBVIOUS
<1>3. IsRecorder(rec) /\ c \in BOOLEAN /\ ui.want \in FlagSets /\ DOMAIN ui = {"pc", "want", "back"}
  BY <1>1, <1>2, TheRecorder, TheUi, FlagSays
<1>4. /\ DOMAIN ui' = {"pc", "want", "back"} /\ ui'.want = ui.want /\ ui'.back = ui.back
      /\ ui'.pc = IF c = rec.csv THEN "av" ELSE IF c THEN "obs" ELSE "obsoff"
  BY <1>1, <1>2, <1>3
<1>5. q = IF c = rec.csv THEN rec ELSE [rec EXCEPT !.csv = c]
  BY <1>1, <1>2
<1>6. /\ OnlyMachine(rec, q) /\ SameMachine(rec, q)
      /\ q.frames = rec.frames /\ q.csv = c /\ q.av = rec.av /\ q.video = rec.video
  BY <1>3, <1>5 DEF IsRecorder, OnlyMachine, SameMachine, SameSession, SameFiles, SameWriter
<1>7. IsRecorder(q)
  <2>1. CASE q = rec
    BY <1>3, <2>1
  <2>2. CASE q = [rec EXCEPT !.csv = c]
    BY <1>3, <2>2 DEF IsRecorder
  <2> QED
    BY <1>5, <2>1, <2>2
<1>8. Heading = "csv" /\ Heading' = ui'.pc
  BY <1>1, <1>4 DEF Heading
<1>9. SwitchInv'
  BY <1>1, <1>2, <1>3, <1>4, <1>6, FilesKept DEF IInv, SwitchInv
<1>10. SessionInv'
  BY <1>1, <1>2, <1>3, <1>4, <1>6, FilesKept DEF IInv, SessionInv, AnyActive
<1>11. NoReuseInv'
  BY <1>1, <1>2, <1>3, <1>4, <1>6, <1>8, FilesKept DEF IInv, NoReuseInv, BeforeCsv, BeforeAv, BeforeVideo
<1>12. MachineInv'
  BY <1>1, <1>2, <1>4, <1>6, <1>8, MachineKept
<1> QED
  BY <1>1, <1>2, <1>3, <1>4, <1>6, <1>7, <1>9, <1>10, <1>11, <1>12, TheUi, UiMoves DEF UiPcs, BeforeVideo, BeforeAv, BeforeCsv

\* The mixer is set: it had the volume of the user.
LEMMA ApplyStep ==
    ASSUME IInv, ui.pc = "av", ui.want.av, ~rec.av, NEW o \in ApplyZeroDb(rec, left.faults), rec' = o.r,
           ui' = [ui EXCEPT !.pc = "avfile"],
           UNCHANGED <<proc, ret, lock, alive, stray, owed, vid, setting>>
    PROVE  IInv' /\ Grows(rec, rec')
<1>1. PICK q : q = o.r /\ q = rec'
  OBVIOUS
<1>2. /\ IsRecorder(q) /\ SameSwitches(rec, q) /\ OnlyMachine(rec, q)
      /\ q.prg = rec.prg /\ q.jobs = rec.jobs /\ q.playing = rec.playing /\ q.host = rec.host
      /\ \A d \in Devices \ {rec.host} : q.mixer[d] = rec.mixer[d]
      /\ \/ q.snapshot = rec.snapshot /\ q.mixer = rec.mixer
         \/ rec.snapshot = None /\ q.snapshot = rec.mixer[rec.host]
  BY <1>1, TheRecorder, ZeroDbSays
<1>3. DOMAIN ui' = {"pc", "want", "back"} /\ ui'.pc = "avfile" /\ ui'.want = ui.want /\ ui'.back = ui.back
  BY TheUi
<1>4. q.av = rec.av /\ q.csv = rec.csv /\ q.video = rec.video /\ q.frames = rec.frames
  BY <1>2 DEF SameSwitches
<1>5. Heading = "av" /\ Heading' = "avfile"
  BY <1>3 DEF Heading
<1>6. SwitchInv'
  BY <1>1, <1>2, <1>3, <1>4, FilesKept DEF IInv, SwitchInv
<1>7. SessionInv'
  BY <1>1, <1>2, <1>3, <1>4, FilesKept DEF IInv, SessionInv, AnyActive
<1>8. NoReuseInv'
  BY <1>1, <1>2, <1>3, <1>4, <1>5, FilesKept DEF IInv, NoReuseInv, BeforeCsv, BeforeAv, BeforeVideo
<1>9. MachineInv'
  <2>1. MachineInv /\ rec.host \in Devices
    BY TheRecorder DEF IInv, IsRecorder
  <2>2. ret = "idle" /\ ~rec.prg /\ rec.snapshot = None
    BY <1>5, <2>1 DEF MachineInv, IInv, ShapeInv
  <2>3. \A d \in Devices : WillPlay(q, d) <=> WillPlay(rec, d)
    BY <1>2 DEF WillPlay
  <2>4. /\ \A d \in Devices : q.snapshot = None \/ d # q.host => q.mixer[d] = UserVolume[d]
        /\ q.snapshot # None => q.snapshot = UserVolume[q.host]
    BY <1>2, <2>1, RecorderAssumption DEF MachineInv
  <2>5. \A d \in Devices : WillPlay(q, d) => q.prg /\ d = q.host
    BY <1>2, <2>1, <2>3 DEF MachineInv
  <2>6. \A d \in Devices : WillPlay(rec, d)' <=> WillPlay(q, d)
    BY <1>1 DEF WillPlay
  <2> QED
    BY <1>1, <1>2, <1>3, <1>4, <2>2, <2>4, <2>5, <2>6 DEF MachineInv
<1> QED
  BY <1>1, <1>2, <1>3, <1>6, <1>7, <1>8, <1>9, TheUi, UiMoves DEF UiPcs, BeforeVideo, BeforeAv, BeforeCsv

\* The mixer gets the volume of the user back.
LEMMA RestoreStep ==
    ASSUME IInv, ui.pc = "av", ~ui.want.av, rec.av, ret = "idle", rec' = RestoreMixer(rec),
           ui' = [ui EXCEPT !.pc = "avoff"],
           UNCHANGED <<proc, ret, lock, alive, stray, owed, vid, setting>>
    PROVE  IInv' /\ Grows(rec, rec')
<1>1. PICK q : q = RestoreMixer(rec) /\ q = rec'
  OBVIOUS
<1>2. /\ IsRecorder(q) /\ SameSwitches(rec, q) /\ OnlyMachine(rec, q)
      /\ q.prg = rec.prg /\ q.jobs = rec.jobs /\ q.playing = rec.playing /\ q.host = rec.host
      /\ q.snapshot = None
      /\ \A d \in Devices : q.mixer[d] = IF d = rec.host /\ rec.snapshot # None THEN rec.snapshot ELSE rec.mixer[d]
  BY <1>1, TheRecorder, RestoreSays
<1>3. DOMAIN ui' = {"pc", "want", "back"} /\ ui'.pc = "avoff" /\ ui'.want = ui.want /\ ui'.back = ui.back
  BY TheUi
<1>4. q.av = rec.av /\ q.csv = rec.csv /\ q.video = rec.video /\ q.frames = rec.frames
  BY <1>2 DEF SameSwitches
<1>5. Heading = "av" /\ Heading' = "avoff"
  BY <1>3 DEF Heading
<1>6. SwitchInv'
  BY <1>1, <1>2, <1>3, <1>4, FilesKept DEF IInv, SwitchInv
<1>7. SessionInv'
  BY <1>1, <1>2, <1>3, <1>4, FilesKept DEF IInv, SessionInv, AnyActive
<1>8. NoReuseInv'
  BY <1>1, <1>2, <1>3, <1>4, <1>5, FilesKept DEF IInv, NoReuseInv, BeforeCsv, BeforeAv, BeforeVideo
<1>9. MachineInv'
  <2>1. MachineInv
    BY DEF IInv
  <2>2. \A d \in Devices : q.mixer[d] = UserVolume[d]
    BY <1>2, <2>1 DEF MachineInv
  <2>3. \A d \in Devices : WillPlay(q, d) <=> WillPlay(rec, d)
    BY <1>2 DEF WillPlay
  <2>5. \A d \in Devices : WillPlay(q, d) => q.prg /\ d = q.host
    BY <1>2, <2>1, <2>3 DEF MachineInv
  <2>6. \A d \in Devices : WillPlay(rec, d)' <=> WillPlay(q, d)
    BY <1>1 DEF WillPlay
  <2> QED
    BY <1>1, <1>2, <1>3, <1>4, <2>2, <2>5, <2>6 DEF MachineInv
<1> QED
  BY <1>1, <1>2, <1>3, <1>6, <1>7, <1>8, <1>9, TheUi, UiMoves DEF UiPcs, BeforeVideo, BeforeAv, BeforeCsv

LEMMA UpdateAvSyncStep ==
    ASSUME IInv, {"mixer", "mixerfail"} \cap Windows = {}, UpdateAvSync
    PROVE  IInv' /\ Grows(rec, rec')
<1>1. ui.pc = "av" /\ UNCHANGED <<proc, ret, lock, alive, stray, owed, vid, setting>>
  BY DEF UpdateAvSync, uiVars, mediaVars
<1>2. ui.want.av \in BOOLEAN /\ rec.av \in BOOLEAN /\ ui.want \in FlagSets /\ IsRecorder(rec)
  BY <1>1, TheRecorder, TheUi, FlagSays DEF IsRecorder
<1>3. CASE ui.want.av = rec.av
  <2>1. ui' = [ui EXCEPT !.pc = "video"] /\ rec' = rec
    BY <1>3 DEF UpdateAvSync, UiGoto
  <2>2. DOMAIN ui' = {"pc", "want", "back"} /\ ui'.pc = "video" /\ ui'.want = ui.want /\ ui'.back = ui.back
    BY <2>1, TheUi
  <2>3. IsRecorder(rec') /\ OnlyMachine(rec, rec') /\ SameMachine(rec, rec') /\ SameSwitches(rec, rec')
    BY <1>2, <2>1, SameRecorder
  <2>4. Heading = "av" /\ Heading' = "video"
    BY <1>1, <2>2 DEF Heading
  <2>5. SwitchInv'
    BY <1>1, <2>1, <2>2, <2>3, FilesKept DEF IInv, SwitchInv
  <2>6. SessionInv'
    BY <1>1, <2>1, <2>2 DEF IInv, SessionInv, AnyActive
  <2>7. NoReuseInv'
    BY <1>1, <2>1, <2>2, <2>3, <2>4, FilesKept DEF IInv, NoReuseInv, BeforeCsv, BeforeAv, BeforeVideo
  <2>8. MachineInv'
    BY <1>1, <2>1, <2>2, <2>3, <2>4, MachineKept
  <2> QED
    BY <1>1, <1>2, <2>2, <2>3, <2>5, <2>6, <2>7, <2>8, TheUi, UiMoves DEF UiPcs, BeforeVideo, BeforeAv, BeforeCsv
<1>4. CASE ui.want.av # rec.av /\ ui.want.av
  <2>1. PICK o \in ApplyZeroDb(rec, left.faults) : rec' = o.r
    BY <1>4 DEF UpdateAvSync, Outcome
  <2>2. ui' = [ui EXCEPT !.pc = "avfile"]
    BY <1>4 DEF UpdateAvSync, UiGoto
  <2> QED
    BY <1>1, <1>2, <1>4, <2>1, <2>2, ApplyStep
<1>5. CASE ui.want.av # rec.av /\ ~ui.want.av
  <2>1. ui' = [ui EXCEPT !.pc = "avoff"] /\ ret = "idle" /\ rec' = RestoreMixer(rec)
    BY <1>5 DEF UpdateAvSync, UiGoto, Window
  <2> QED
    BY <1>1, <1>2, <1>5, <2>1, RestoreStep
<1> QED
  BY <1>2, <1>3, <1>4, <1>5

LEMMA SetAvSyncStep ==
    ASSUME IInv, SetAvSync
    PROVE  IInv' /\ Grows(rec, rec')
<1>1. /\ ui.pc = "avset" /\ UNCHANGED <<proc, ret, lock, alive, stray, owed, vid, setting>>
      /\ ui' = [ui EXCEPT !.pc = "run"] /\ rec' = [rec EXCEPT !.av = rec.file["sync"] # None]
  BY DEF SetAvSync, uiVars, mediaVars, UiGoto
<1>2. ~rec.av /\ rec.file["sync"] # None /\ IsRecorder(rec) /\ ui.want \in FlagSets
  BY <1>1, TheRecorder, TheUi DEF IInv, SwitchInv
<1>3. PICK q : q = rec'
  OBVIOUS
<1>4. q = [rec EXCEPT !.av = TRUE]
  BY <1>1, <1>2, <1>3
<1>5. /\ OnlyMachine(rec, q) /\ SameMachine(rec, q)
      /\ q.frames = rec.frames /\ q.csv = rec.csv /\ q.av = TRUE /\ q.video = rec.video
  BY <1>2, <1>4 DEF IsRecorder, OnlyMachine, SameMachine, SameSession, SameFiles, SameWriter
<1>6. IsRecorder(q)
  BY <1>2, <1>4, TRUE \in BOOLEAN DEF IsRecorder
<1>7. DOMAIN ui' = {"pc", "want", "back"} /\ ui'.pc = "run" /\ ui'.want = ui.want /\ ui'.back = ui.back
  BY <1>1, TheUi
<1>8. Heading = "avset" /\ Heading' = "run"
  BY <1>1, <1>7 DEF Heading
<1>9. SwitchInv'
  BY <1>1, <1>2, <1>3, <1>5, <1>7, FilesKept DEF IInv, SwitchInv
<1>10. SessionInv'
  BY <1>1, <1>3, <1>5, <1>7, FilesKept DEF IInv, SessionInv, AnyActive
<1>11. NoReuseInv'
  BY <1>1, <1>3, <1>5, <1>7, <1>8, FilesKept DEF IInv, NoReuseInv, BeforeCsv, BeforeAv, BeforeVideo
<1>12. MachineInv'
  <2>1. \A d \in Devices : WillPlay(rec, d)' <=> WillPlay(rec, d)
    BY <1>3, <1>5 DEF SameMachine, WillPlay
  <2> QED
    BY <1>1, <1>3, <1>5, <1>7, <2>1 DEF IInv, MachineInv, SameMachine
<1> QED
  BY <1>1, <1>2, <1>3, <1>5, <1>6, <1>7, <1>9, <1>10, <1>11, <1>12, TheUi, UiMoves DEF UiPcs, BeforeVideo, BeforeAv, BeforeCsv

LEMMA StartProgramStep ==
    ASSUME IInv, StartProgram
    PROVE  IInv' /\ Grows(rec, rec')
<1>1. /\ ui.pc = "run" /\ UNCHANGED <<proc, ret, lock, alive, stray, owed, vid, setting>>
      /\ ui' = [ui EXCEPT !.pc = "video"]
  BY DEF StartProgram, uiVars, mediaVars, UiGoto
<1>2. PICK o \in RunPrg(rec, left.faults) : rec' = o.r
  BY DEF StartProgram, Outcome
<1>3. PICK q : q = o.r /\ q = rec'
  BY <1>2
<1>4. rec.av /\ IsRecorder(rec) /\ ui.want \in FlagSets /\ rec.host \in Devices
  BY <1>1, TheRecorder, TheUi DEF IInv, SwitchInv, IsRecorder
<1>5. /\ IsRecorder(q) /\ SameSwitches(rec, q) /\ OnlyMachine(rec, q)
      /\ q.snapshot = rec.snapshot /\ q.mixer = rec.mixer /\ q.host = rec.host
      /\ \/ q.prg = rec.prg /\ q.jobs = rec.jobs /\ q.playing = rec.playing
         \/ q.prg = TRUE /\ IsAsked(rec, q, Job("run", rec.host))
  <2>1. /\ IsRecorder(o.r) /\ SameSwitches(rec, o.r) /\ OnlyMachine(rec, o.r)
        /\ o.r.snapshot = rec.snapshot /\ o.r.mixer = rec.mixer /\ o.r.host = rec.host
        /\ \/ o.r.prg = rec.prg /\ o.r.jobs = rec.jobs /\ o.r.playing = rec.playing
           \/ o.r.prg = TRUE /\ IsAsked(rec, o.r, Job("run", rec.host))
    BY <1>2, <1>4, RunSays
  <2> QED
    BY <1>3, <2>1
<1>6. q.frames = rec.frames /\ q.csv = rec.csv /\ q.av = rec.av /\ q.video = rec.video
  BY <1>5 DEF SameSwitches
<1>7. DOMAIN ui' = {"pc", "want", "back"} /\ ui'.pc = "video" /\ ui'.want = ui.want /\ ui'.back = ui.back
  BY <1>1, TheUi
<1>8. Heading = "run" /\ Heading' = "video"
  BY <1>1, <1>7 DEF Heading
<1>9. SwitchInv'
  BY <1>1, <1>3, <1>5, <1>6, <1>7, FilesKept DEF IInv, SwitchInv
<1>10. SessionInv'
  BY <1>1, <1>3, <1>5, <1>6, <1>7, FilesKept DEF IInv, SessionInv, AnyActive
<1>11. NoReuseInv'
  BY <1>1, <1>3, <1>5, <1>6, <1>7, <1>8, FilesKept DEF IInv, NoReuseInv, BeforeCsv, BeforeAv, BeforeVideo
<1>12. MachineInv'
  <2>1. MachineInv
    BY DEF IInv
  <2>2. ASSUME NEW d \in Devices, WillPlay(q, d)
        PROVE  q.prg /\ d = q.host
    <3>1. CASE q.prg = rec.prg /\ q.jobs = rec.jobs /\ q.playing = rec.playing
      <4>1. WillPlay(rec, d)
        BY <2>2, <3>1 DEF WillPlay
      <4> QED
        BY <1>5, <2>1, <3>1, <4>1 DEF MachineInv
    <3>2. CASE q.prg = TRUE /\ IsAsked(rec, q, Job("run", rec.host))
      <4>1. CASE d = rec.host
        BY <1>5, <3>2, <4>1
      <4>2. CASE d # rec.host
        <5>1. WillPlay(rec, d)
          BY <1>4, <2>2, <3>2, <4>2, RunPlays
        <5> QED
          BY <2>1, <4>2, <5>1 DEF MachineInv
      <4> QED
        BY <4>1, <4>2
    <3> QED
      BY <1>5, <3>1, <3>2
  <2>3. \A d \in Devices : WillPlay(rec, d)' <=> WillPlay(q, d)
    BY <1>3 DEF WillPlay
  <2> QED
    BY <1>1, <1>3, <1>4, <1>5, <1>6, <1>7, <2>1, <2>2, <2>3 DEF MachineInv
<1> QED
  BY <1>1, <1>3, <1>4, <1>5, <1>7, <1>9, <1>10, <1>11, <1>12, TheUi, UiMoves DEF UiPcs, BeforeVideo, BeforeAv, BeforeCsv

LEMMA ClearAvSyncStep ==
    ASSUME IInv, ClearAvSync
    PROVE  IInv' /\ Grows(rec, rec')
<1>1. /\ ui.pc = "avoff" /\ UNCHANGED <<proc, ret, lock, alive, stray, owed, vid, setting>>
      /\ ui' = [ui EXCEPT !.pc = "avstop"] /\ rec' = [rec EXCEPT !.av = FALSE]
  BY DEF ClearAvSync, uiVars, mediaVars, UiGoto
<1>2. rec.file["sync"] # None /\ IsRecorder(rec) /\ ui.want \in FlagSets
  BY <1>1, TheRecorder, TheUi DEF IInv, SwitchInv
<1>3. PICK q : q = rec'
  OBVIOUS
<1>4. q = [rec EXCEPT !.av = FALSE]
  BY <1>1, <1>3
<1>5. /\ OnlyMachine(rec, q) /\ SameMachine(rec, q)
      /\ q.frames = rec.frames /\ q.csv = rec.csv /\ ~q.av /\ q.video = rec.video
  BY <1>2, <1>4 DEF IsRecorder, OnlyMachine, SameMachine, SameSession, SameFiles, SameWriter
<1>6. IsRecorder(q)
  BY <1>2, <1>4, FALSE \in BOOLEAN DEF IsRecorder
<1>7. DOMAIN ui' = {"pc", "want", "back"} /\ ui'.pc = "avstop" /\ ui'.want = ui.want /\ ui'.back = ui.back
  BY <1>1, TheUi
<1>8. Heading = "avoff" /\ Heading' = "avstop"
  BY <1>1, <1>7 DEF Heading
<1>9. SwitchInv'
  BY <1>1, <1>2, <1>3, <1>5, <1>7, FilesKept DEF IInv, SwitchInv
<1>10. SessionInv'
  BY <1>1, <1>3, <1>5, <1>7, FilesKept DEF IInv, SessionInv, AnyActive
<1>11. NoReuseInv'
  BY <1>1, <1>3, <1>5, <1>7, <1>8, FilesKept DEF IInv, NoReuseInv, BeforeCsv, BeforeAv, BeforeVideo
<1>12. MachineInv'
  <2>1. \A d \in Devices : WillPlay(rec, d)' <=> WillPlay(rec, d)
    BY <1>3, <1>5 DEF SameMachine, WillPlay
  <2> QED
    BY <1>1, <1>3, <1>5, <1>7, <2>1 DEF IInv, MachineInv, SameMachine
<1> QED
  BY <1>1, <1>2, <1>3, <1>5, <1>6, <1>7, <1>9, <1>10, <1>11, <1>12, TheUi, UiMoves DEF UiPcs, BeforeVideo, BeforeAv, BeforeCsv

LEMMA ResetMachineStep ==
    ASSUME IInv, ResetMachine
    PROVE  IInv' /\ Grows(rec, rec')
<1>1. /\ ui.pc = "reset" /\ UNCHANGED <<proc, ret, lock, alive, stray, owed, vid, setting>>
      /\ ui' = [ui EXCEPT !.pc = "video"] /\ rec' = Reset(rec)
  BY DEF ResetMachine, uiVars, mediaVars, UiGoto
<1>2. IsRecorder(rec) /\ ui.want \in FlagSets /\ rec.host \in Devices
  BY <1>1, TheRecorder, TheUi DEF IsRecorder
<1>3. PICK q : q = Reset(rec) /\ q = rec'
  BY <1>1
<1>4. /\ IsRecorder(q) /\ SameSwitches(rec, q) /\ OnlyMachine(rec, q)
      /\ q.snapshot = rec.snapshot /\ q.mixer = rec.mixer /\ q.host = rec.host /\ ~q.prg
      /\ \/ ~rec.prg /\ q.jobs = rec.jobs /\ q.playing = rec.playing
         \/ IsAsked(rec, q, Job("reset", rec.host))
  BY <1>2, <1>3, ResetSays
<1>5. q.frames = rec.frames /\ q.csv = rec.csv /\ q.av = rec.av /\ q.video = rec.video
  BY <1>4 DEF SameSwitches
<1>7. DOMAIN ui' = {"pc", "want", "back"} /\ ui'.pc = "video" /\ ui'.want = ui.want /\ ui'.back = ui.back
  BY <1>1, TheUi
<1>8. Heading = "reset" /\ Heading' = "video"
  BY <1>1, <1>7 DEF Heading
<1>9. SwitchInv'
  BY <1>1, <1>3, <1>4, <1>5, <1>7, FilesKept DEF IInv, SwitchInv
<1>10. SessionInv'
  BY <1>1, <1>3, <1>4, <1>5, <1>7, FilesKept DEF IInv, SessionInv, AnyActive
<1>11. NoReuseInv'
  BY <1>1, <1>3, <1>4, <1>5, <1>7, <1>8, FilesKept DEF IInv, NoReuseInv, BeforeCsv, BeforeAv, BeforeVideo
<1>12. MachineInv'
  <2>1. MachineInv
    BY DEF IInv
  <2>2. ASSUME NEW d \in Devices, WillPlay(q, d)
        PROVE  FALSE
    <3>1. CASE ~rec.prg /\ q.jobs = rec.jobs /\ q.playing = rec.playing
      <4>1. WillPlay(rec, d)
        BY <2>2, <3>1 DEF WillPlay
      <4> QED
        BY <2>1, <3>1, <4>1 DEF MachineInv
    <3>2. CASE IsAsked(rec, q, Job("reset", rec.host))
      <4>1. WillPlay(rec, d) /\ d # rec.host
        BY <1>2, <2>2, <3>2, ResetPlays
      <4> QED
        BY <2>1, <4>1 DEF MachineInv
    <3> QED
      BY <1>4, <3>1, <3>2
  <2>3. \A d \in Devices : WillPlay(rec, d)' <=> WillPlay(q, d)
    BY <1>3 DEF WillPlay
  <2> QED
    BY <1>1, <1>3, <1>4, <1>5, <1>7, <2>1, <2>2, <2>3 DEF MachineInv
<1> QED
  BY <1>1, <1>2, <1>3, <1>4, <1>7, <1>9, <1>10, <1>11, <1>12, TheUi, UiMoves DEF UiPcs, BeforeVideo, BeforeAv, BeforeCsv

LEMMA UpdateVideoStep ==
    ASSUME IInv, UpdateVideo
    PROVE  IInv' /\ Grows(rec, rec')
<1>1. /\ ui.pc = "video" /\ UNCHANGED <<proc, ret, lock, alive, stray, owed, vid, setting>>
      /\ IF ui.want.video = rec.video THEN ui' = IdleUi /\ rec' = rec
         ELSE rec' = [rec EXCEPT !.video = ui.want.video] /\ ui' = [ui EXCEPT !.pc = IF ui.want.video THEN "start" ELSE "stop"]
  BY DEF UpdateVideo, uiVars, mediaVars, UiGoto
<1>2. PICK q, c : q = rec' /\ c = ui.want.video
  OBVIOUS
<1>3. IsRecorder(rec) /\ c \in BOOLEAN /\ rec.video \in BOOLEAN /\ ui.want \in FlagSets /\ DOMAIN ui = {"pc", "want", "back"}
  BY <1>1, <1>2, TheRecorder, TheUi, FlagSays DEF IsRecorder
<1>4. /\ DOMAIN ui' = {"pc", "want", "back"} /\ (ui'.pc # "idle" => ui'.want = ui.want)
      /\ ui'.back \in {"idle", "csv", "av", "reset"}
      /\ ui'.pc = IF c = rec.video THEN "idle" ELSE IF c THEN "start" ELSE "stop"
  BY <1>1, <1>2, <1>3, IdleSays, TheUi
<1>5. q = IF c = rec.video THEN rec ELSE [rec EXCEPT !.video = c]
  BY <1>1, <1>2
<1>6. /\ OnlyMachine(rec, q) /\ SameMachine(rec, q)
      /\ q.frames = rec.frames /\ q.csv = rec.csv /\ q.av = rec.av /\ q.video = c
  BY <1>3, <1>5 DEF IsRecorder, OnlyMachine, SameMachine, SameSession, SameFiles, SameWriter
<1>7. IsRecorder(q)
  <2>1. CASE q = rec
    BY <1>3, <2>1
  <2>2. CASE q = [rec EXCEPT !.video = c]
    BY <1>3, <2>2 DEF IsRecorder
  <2> QED
    BY <1>5, <2>1, <2>2
<1>8. Heading = "video" /\ Heading' = ui'.pc
  BY <1>1, <1>4 DEF Heading
<1>9. SwitchInv'
  BY <1>1, <1>2, <1>3, <1>4, <1>6, FilesKept DEF IInv, SwitchInv
<1>10. SessionInv'
  BY <1>1, <1>2, <1>3, <1>4, <1>6, FilesKept DEF IInv, SessionInv, AnyActive
<1>11. NoReuseInv'
  BY <1>1, <1>2, <1>3, <1>4, <1>6, <1>8, FilesKept DEF IInv, NoReuseInv, BeforeCsv, BeforeAv, BeforeVideo
<1>12. MachineInv'
  BY <1>1, <1>2, <1>4, <1>6, <1>8, MachineKept
<1> QED
  BY <1>1, <1>2, <1>3, <1>4, <1>6, <1>7, <1>9, <1>10, <1>11, <1>12, TheUi, UiMoves DEF UiPcs, BeforeVideo, BeforeAv, BeforeCsv

\* The tests of the UI thread: it reads the recorder and goes on.
LEMMA UiTests ==
    ASSUME IInv, TestStart \/ TestStop \/ CheckSession
    PROVE  IInv' /\ Grows(rec, rec')
<1>1. UNCHANGED <<proc, ret, lock, alive, stray, owed, vid, setting, rec>>
  BY DEF TestStart, TestStop, CheckSession, uiVars, mediaVars
<1>2. /\ DOMAIN ui = {"pc", "want", "back"} /\ ui.back \in {"idle", "csv", "av", "reset"}
      /\ IsRecorder(rec') /\ OnlyMachine(rec, rec') /\ SameMachine(rec, rec') /\ SameSwitches(rec, rec')
  BY <1>1, TheUi, TheRecorder, SameRecorder
<1>3. CASE TestStart
  <2>1. ui.pc = "start" /\ ~VideoOpen /\ ui.want \in FlagSets
    BY <1>3, TheUi DEF TestStart, IInv, SwitchInv
  <2>2. ui' = [ui EXCEPT !.pc = "open"]
    BY <1>3, <2>1 DEF TestStart, UiGoto, VideoOpen
  <2>3. DOMAIN ui' = {"pc", "want", "back"} /\ ui'.pc = "open" /\ ui'.want = ui.want /\ ui'.back = ui.back
    BY <1>2, <2>2
  <2>4. Heading = "start" /\ Heading' = "open"
    BY <2>1, <2>3 DEF Heading
  <2>5. SwitchInv'
    BY <1>1, <2>1, <2>3 DEF IInv, SwitchInv, VideoOpen
  <2>6. SessionInv'
    BY <1>1, <2>1, <2>3 DEF IInv, SessionInv, AnyActive
  <2>7. NoReuseInv'
    BY <1>1, <1>2, <2>1, <2>3, <2>4, FilesKept DEF IInv, NoReuseInv, BeforeCsv, BeforeAv, BeforeVideo
  <2>8. MachineInv'
    BY <1>1, <1>2, <2>1, <2>3, <2>4, MachineKept
  <2> QED
    BY <1>1, <1>2, <2>1, <2>3, <2>5, <2>6, <2>7, <2>8, TheUi, UiMoves DEF UiPcs, BeforeVideo, BeforeAv, BeforeCsv
<1>4. CASE TestStop
  <2>1. ui.pc = "stop" /\ VideoOpen /\ ui.want \in FlagSets
    BY <1>4, TheUi DEF TestStop, IInv, SwitchInv
  <2>2. ui' = [ui EXCEPT !.pc = "lock"]
    BY <1>4, <2>1 DEF TestStop, UiGoto, VideoOpen
  <2>3. DOMAIN ui' = {"pc", "want", "back"} /\ ui'.pc = "lock" /\ ui'.want = ui.want /\ ui'.back = ui.back
    BY <1>2, <2>2
  <2>4. Heading = "stop" /\ Heading' = "lock"
    BY <2>1, <2>3 DEF Heading
  <2>5. SwitchInv'
    BY <1>1, <2>1, <2>3 DEF IInv, SwitchInv, VideoOpen
  <2>6. SessionInv'
    BY <1>1, <2>1, <2>3 DEF IInv, SessionInv, AnyActive
  <2>7. NoReuseInv'
    BY <1>1, <1>2, <2>1, <2>3, <2>4, FilesKept DEF IInv, NoReuseInv, BeforeCsv, BeforeAv, BeforeVideo
  <2>8. MachineInv'
    BY <1>1, <1>2, <2>1, <2>3, <2>4, MachineKept
  <2> QED
    BY <1>1, <1>2, <2>1, <2>3, <2>5, <2>6, <2>7, <2>8, TheUi, UiMoves DEF UiPcs, BeforeVideo, BeforeAv, BeforeCsv
<1>5. CASE CheckSession
  <2>1. ui.pc = "check" /\ ui.want \in FlagSets
    BY <1>5, TheUi DEF CheckSession
  <2>2. ui' = IF AnyActive(rec) THEN IF ui.back = "idle" THEN IdleUi ELSE [ui EXCEPT !.pc = ui.back, !.back = "idle"]
              ELSE [ui EXCEPT !.pc = "clean"]
    BY <1>5 DEF CheckSession, UiGoto
  <2>3. /\ DOMAIN ui' = {"pc", "want", "back"} /\ (ui'.pc # "idle" => ui'.want = ui.want)
        /\ ui'.back \in {"idle", "csv", "av", "reset"}
        /\ ui'.pc = IF AnyActive(rec) THEN ui.back ELSE "clean"
        /\ Heading' = ui.back
    BY <1>2, <2>2, IdleSays DEF Heading
  <2>4. Heading = ui.back
    BY <2>1 DEF Heading
  <2>5. SwitchInv'
    BY <1>1, <1>2, <2>1, <2>3 DEF IInv, SwitchInv, VideoOpen
  <2>6. SessionInv'
    <3>1. AnyActive(rec)' <=> AnyActive(rec)
      BY <1>1 DEF AnyActive
    <3> QED
      BY <1>1, <1>2, <2>1, <2>3, <3>1 DEF IInv, SessionInv
  <2>7. NoReuseInv'
    BY <1>1, <1>2, <2>1, <2>3, <2>4, FilesKept DEF IInv, NoReuseInv, BeforeCsv, BeforeAv, BeforeVideo
  <2>8. MachineInv'
    BY <1>1, <1>2, <2>1, <2>3, <2>4, MachineKept
  <2> QED
    BY <1>1, <1>2, <2>1, <2>3, <2>5, <2>6, <2>7, <2>8, TheUi, UiMoves DEF UiPcs, BeforeVideo, BeforeAv, BeforeCsv
<1> QED
  BY <1>3, <1>4, <1>5

LEMMA DestroyStep ==
    ASSUME IInv, Destroy
    PROVE  IInv' /\ Grows(rec, rec')
<1>1. /\ ui.pc = "idle" /\ ~alive' /\ alive' \in BOOLEAN /\ ui' = [ui EXCEPT !.pc = "destroy"]
      /\ UNCHANGED <<proc, ret, lock, stray, owed, vid, setting, rec>>
  BY DEF Destroy, mediaVars, UiGoto
<1>2. DOMAIN ui' = {"pc", "want", "back"} /\ ui'.pc = "destroy" /\ ui'.back = ui.back
  BY <1>1, TheUi
<1>3. /\ IsRecorder(rec') /\ OnlyMachine(rec, rec') /\ SameMachine(rec, rec') /\ SameSwitches(rec, rec')
      /\ IsRecorder(rec) /\ RecordInv(rec) /\ RecordInv(rec')
  BY <1>1, TheRecorder, SameRecorder
<1>4. Heading = "idle" /\ Heading' = "destroy"
  BY <1>1, <1>2 DEF Heading
<1>5. ShapeInv'
  BY <1>1, <1>2, <1>3 DEF IInv, ShapeInv, UiPcs
<1>6. LockInv'
  BY <1>1, <1>2 DEF IInv, LockInv
<1>7. SwitchInv'
  BY <1>1, <1>2 DEF IInv, SwitchInv, VideoOpen
<1>8. SessionInv'
  BY <1>1, <1>2 DEF IInv, SessionInv, AnyActive
<1>9. NoReuseInv'
  BY <1>1, <1>2, <1>3, <1>4, FilesKept DEF IInv, NoReuseInv, BeforeCsv, BeforeAv, BeforeVideo
<1>10. MachineInv'
  BY <1>1, <1>2, <1>3, <1>4, MachineKept
<1>11. RollInv'
  BY <1>1, <1>2 DEF IInv, RollInv, VideoOpen, Format
<1>12. NothingSilentlyLost'
  BY <1>1 DEF IInv, NothingSilentlyLost
<1>13. Grows(rec, rec')
  BY <1>1, <1>3, UnchangedGrows
<1> QED
  BY <1>3, <1>5, <1>6, <1>7, <1>8, <1>9, <1>10, <1>11, <1>12, <1>13, Together

----------------------------------------------------------------------------
(***************************************************************************)
(* The UI thread: steps that change the files.                             *)
(***************************************************************************)
\* As many chunks are on their way, or there was no writer and there is none yet.
LEMMA NothingOwed ==
    ASSUME IInv, rec'.drops = rec.drops, owed' = owed,
           Len(rec'.writer.queue) = Len(rec.writer.queue), Len(rec'.writer.held) = Len(rec.writer.held)
    PROVE  NothingSilentlyLost'
  BY DEF IInv, NothingSilentlyLost

\* A step of the UI thread.
LEMMA UiSteps ==
    ASSUME IInv, UNCHANGED <<proc, ret, alive, stray, owed>>,
           IsRecorder(rec'), RecordInv(rec'), setting' \in FlagSets, lock' \in {"none", "ui", "proc"},
           DOMAIN ui' = {"pc", "want", "back"}, ui'.pc \in UiPcs, ui'.back \in {"idle", "csv", "av", "reset"},
           ui'.pc \notin {"idle", "destroy", "last", "end"} => ui'.want \in FlagSets,
           rec'.drops = rec.drops,
           Len(rec'.writer.queue) = Len(rec.writer.queue), Len(rec'.writer.held) = Len(rec.writer.held),
           LockInv', SwitchInv', SessionInv', NoReuseInv', RollInv', MachineInv'
    PROVE  IInv'
<1>1. ShapeInv'
  BY DEF IInv, ShapeInv
<1>2. NothingSilentlyLost'
  BY NothingOwed
<1> QED
  BY <1>1, <1>2, Together

\* Finished, of the recorder after the step.
LEMMA FinishedAfter ==
    /\ Finished(rec, "obs")' <=> Finished(rec', "obs")
    /\ Finished(rec, "net")' <=> Finished(rec', "net")
    /\ Finished(rec, "sync")' <=> Finished(rec', "sync")
    /\ Finished(rec, "video")' <=> Finished(rec', "video")
  BY DEF Finished, Name

\* Nothing was finished but, perhaps, a file of one kind.
LEMMA NotFinished ==
    ASSUME NEW r, IsRecorder(r), RecordInv(r), NEW q, SessionStep(r, q), NoneFinished(r, q), NEW kind, ~Finished(r, kind)
    PROVE  ~Finished(q, kind)
<1>1. Name(q, kind) \in DOMAIN q.disk /\ q.disk[Name(q, kind)].done
        => Name(q, kind) \in DOMAIN r.disk /\ r.disk[Name(q, kind)].done
  BY DEF NoneFinished
<1> QED
  BY <1>1, FinishedBefore

LEMMA StartCsvFileStep ==
    ASSUME IInv, Renewed = {TRUE}, StartCsvFile
    PROVE  IInv' /\ Grows(rec, rec')
<1>1. /\ ui.pc \in {"obs", "net"} /\ lock = "none" /\ UNCHANGED <<proc, ret, lock, alive, stray, owed, vid, setting>>
      /\ ui' = [ui EXCEPT !.pc = IF ui.pc = "obs" THEN "net" ELSE "av"]
  BY DEF StartCsvFile, uiVars, mediaVars, UiGoto, Free
<1>2. PICK o \in StartCsv(rec, ui.pc, TRUE, left.faults) : rec' = o.r
  BY DEF StartCsvFile, Outcome
<1>0. PICK kind \in {"obs", "net"} : kind = ui.pc
  BY <1>1
<1>3. PICK q : q = rec'
  OBVIOUS
<1>4. rec.csv /\ IsRecorder(rec) /\ RecordInv(rec) /\ ~Finished(rec, "obs") /\ ~Finished(rec, "net")
  BY <1>1, TheRecorder DEF IInv, SwitchInv, NoReuseInv
<1>5. /\ IsRecorder(q) /\ RecordInv(q) /\ Grows(rec, q) /\ NoneFinished(rec, q) /\ SessionStep(rec, q)
      /\ SameSwitches(rec, q) /\ SameWriter(rec, q) /\ SameMachine(rec, q)
      /\ \A f \in Files \ {kind} : q.file[f] = rec.file[f]
  <2>1. kind \in {"obs", "net", "sync"} /\ ~Finished(rec, kind) /\ o \in StartCsv(rec, kind, TRUE, left.faults)
    BY <1>0, <1>2, <1>4
  <2>2. PICK n : o \in StartCsv(rec, kind, TRUE, n)
    BY <2>1
  <2>3. CsvStarted(rec, o.r, kind)
    BY <1>4, <2>1, <2>2, StartCsvRecord
  <2>4. CsvStarted(rec, q, kind)
    BY <1>2, <1>3, <2>3
  <2> QED
    BY <2>4 DEF CsvStarted
<1>6. q.frames = rec.frames /\ q.csv = rec.csv /\ q.av = rec.av /\ q.video = rec.video
  BY <1>5 DEF SameSwitches
<1>7. q.writer = rec.writer /\ q.segment = rec.segment /\ q.drops = rec.drops
  BY <1>5 DEF SameWriter
<1>8. q.file["video"] = rec.file["video"] /\ q.file["sync"] = rec.file["sync"]
  BY <1>5 DEF Files
<1>9. /\ ~Finished(q, "obs") /\ ~Finished(q, "net")
      /\ (Finished(q, "sync") => Finished(rec, "sync")) /\ (Finished(q, "video") => Finished(rec, "video"))
  BY <1>4, <1>5, NotFinished
<1>10. /\ DOMAIN ui' = {"pc", "want", "back"} /\ ui'.want = ui.want /\ ui'.back = ui.back /\ ui.want \in FlagSets
       /\ ui'.pc = IF ui.pc = "obs" THEN "net" ELSE "av"
  BY <1>1, TheUi
<1>11. Heading = ui.pc /\ Heading' = ui'.pc
  BY <1>1, <1>10 DEF Heading
<1>12. VideoOpen' <=> VideoOpen
  BY <1>3, <1>8 DEF VideoOpen
<1>13. LockInv'
  BY <1>1, <1>3, <1>7, <1>10 DEF IInv, LockInv
<1>14. SwitchInv'
  BY <1>1, <1>3, <1>4, <1>6, <1>8, <1>10, <1>12 DEF IInv, SwitchInv
<1>15. SessionInv'
  BY <1>1, <1>3, <1>4, <1>5, <1>6, <1>10 DEF IInv, SessionInv, AnyActive, SessionStep, SameSession
<1>16. NoReuseInv'
  BY <1>1, <1>3, <1>6, <1>9, <1>10, <1>11, FinishedAfter DEF IInv, NoReuseInv, BeforeCsv, BeforeAv, BeforeVideo
<1>17. RollInv'
  BY <1>1, <1>3, <1>7, <1>10, <1>12 DEF IInv, RollInv, NeedsRoll, Format
<1>18. MachineInv'
  BY <1>1, <1>3, <1>5, <1>6, <1>10, <1>11, MachineKept
<1>19. IInv'
  BY <1>1, <1>3, <1>5, <1>7, <1>10, <1>13, <1>14, <1>15, <1>16, <1>17, <1>18, TheUi, UiSteps
     DEF UiPcs, BeforeVideo, BeforeAv, BeforeCsv
<1> QED
  BY <1>3, <1>5, <1>19

LEMMA StopCsvFileStep ==
    ASSUME IInv, StopCsvFile
    PROVE  IInv' /\ Grows(rec, rec')
<1>1. /\ ui.pc \in {"obsoff", "netoff"} /\ lock = "none" /\ UNCHANGED <<proc, ret, lock, alive, stray, owed, vid, setting>>
      /\ ui' = IF ui.pc = "obsoff" THEN [ui EXCEPT !.pc = "netoff"] ELSE [ui EXCEPT !.pc = "check", !.back = "av"]
      /\ rec' = Close(rec, IF ui.pc = "obsoff" THEN "obs" ELSE "net")
  BY DEF StopCsvFile, uiVars, mediaVars, UiGoto, UiCleanup, Free
<1>0. PICK kind \in {"obs", "net"} : kind = IF ui.pc = "obsoff" THEN "obs" ELSE "net"
  OBVIOUS
<1>2. PICK q : q = rec'
  OBVIOUS
<1>3. ~rec.csv /\ IsRecorder(rec) /\ RecordInv(rec)
  BY <1>1, TheRecorder DEF IInv, SwitchInv
<1>4. /\ IsRecorder(q) /\ RecordInv(q) /\ Grows(rec, q)
      /\ SameSwitches(rec, q) /\ SameSession(rec, q) /\ SameWriter(rec, q) /\ SameMachine(rec, q)
      /\ q.file[kind] = None /\ \A f \in Files \ {kind} : q.file[f] = rec.file[f]
      /\ \A s, k, i : <<s, k, i>> \in DOMAIN q.disk /\ q.disk[<<s, k, i>>].done =>
            k = kind \/ (<<s, k, i>> \in DOMAIN rec.disk /\ rec.disk[<<s, k, i>>].done)
  <2>1. q = Close(rec, kind) /\ kind \in {"obs", "net", "sync"}
    BY <1>0, <1>1, <1>2
  <2> QED
    BY <1>3, <2>1, CloseCsv
<1>5. q.frames = rec.frames /\ q.csv = rec.csv /\ q.av = rec.av /\ q.video = rec.video
  BY <1>4 DEF SameSwitches
<1>6. q.writer = rec.writer /\ q.segment = rec.segment /\ q.drops = rec.drops
  BY <1>4 DEF SameWriter
<1>7. /\ q.file["video"] = rec.file["video"] /\ q.file["sync"] = rec.file["sync"]
      /\ ui.pc = "obsoff" => q.file["obs"] = None /\ q.file["net"] = rec.file["net"]
      /\ ui.pc = "netoff" => q.file["net"] = None /\ q.file["obs"] = rec.file["obs"]
  BY <1>0, <1>1, <1>4 DEF Files
<1>8. /\ Finished(q, "sync") => Finished(rec, "sync")
      /\ Finished(q, "video") => Finished(rec, "video")
  BY <1>0, <1>4 DEF Finished, Name, SameSession
<1>9. /\ DOMAIN ui' = {"pc", "want", "back"} /\ ui'.want = ui.want /\ ui.want \in FlagSets
      /\ \/ ui.pc = "obsoff" /\ ui'.pc = "netoff" /\ ui'.back = ui.back
         \/ ui.pc = "netoff" /\ ui'.pc = "check" /\ ui'.back = "av"
  BY <1>1, TheUi
<1>10. Heading = ui.pc /\ Heading' = IF ui.pc = "obsoff" THEN "netoff" ELSE "av"
  BY <1>1, <1>9 DEF Heading
<1>11. VideoOpen' <=> VideoOpen
  BY <1>2, <1>7 DEF VideoOpen
<1>12. LockInv'
  BY <1>1, <1>2, <1>6, <1>9 DEF IInv, LockInv
<1>13. SwitchInv'
  BY <1>1, <1>2, <1>3, <1>5, <1>7, <1>9, <1>11 DEF IInv, SwitchInv
<1>14. SessionInv'
  BY <1>1, <1>2, <1>4, <1>5, <1>9 DEF IInv, SessionInv, SameSession
<1>15. NoReuseInv'
  BY <1>1, <1>2, <1>3, <1>5, <1>8, <1>9, <1>10, FinishedAfter DEF IInv, NoReuseInv, BeforeCsv, BeforeAv, BeforeVideo
<1>16. RollInv'
  BY <1>1, <1>2, <1>6, <1>9, <1>11 DEF IInv, RollInv, NeedsRoll, Format
<1>17. MachineInv'
  BY <1>1, <1>2, <1>4, <1>5, <1>9, <1>10, MachineKept
<1>18. IInv'
  BY <1>1, <1>2, <1>4, <1>6, <1>9, <1>12, <1>13, <1>14, <1>15, <1>16, <1>17, TheUi, UiSteps
     DEF UiPcs, BeforeVideo, BeforeAv, BeforeCsv
<1> QED
  BY <1>2, <1>4, <1>18

\* Where nothing fails the file is open.
LEMMA CsvStarts ==
    ASSUME NEW r, IsRecorder(r), NEW kind \in {"obs", "net", "sync"}, NEW o \in StartCsv(r, kind, TRUE, 0)
    PROVE  o.r.file[kind] # None
<1>1. CASE r.file[kind] # None
  BY <1>1 DEF StartCsv, Working
<1>2. CASE r.file[kind] = None
  <2>1. PICK e \in EnsureSession(r, TRUE, 0) :
          o \in IF e.r.session = 0 THEN {e}
                ELSE {[r |-> Open(e.r, kind, Name(e.r, kind), None), cost |-> e.cost]}
                     \cup {[r |-> x.r, cost |-> e.cost + x.cost] : x \in Failing(e.r, 0 - e.cost)}
    BY <1>2 DEF StartCsv
  <2>2. e.cost = 0 /\ (e.r = r \/ e.r = [r EXCEPT !.session = r.sessions + 1, !.sessions = r.sessions + 1])
    BY DEF EnsureSession, Working, Failing
  <2>3. IsRecorder(e.r) /\ e.r.session # 0
    <3>1. IsRecorder(e.r)
      BY EnsureSays
    <3>2. CASE r.session # 0
      <4>1. e.r = r
        BY <3>2 DEF EnsureSession, Working
      <4> QED
        BY <3>1, <3>2, <4>1
    <3>3. CASE r.session = 0
      <4>1. e.r = [r EXCEPT !.session = r.sessions + 1, !.sessions = r.sessions + 1]
        BY <3>3 DEF EnsureSession, Working, Failing
      <4>2. e.r.session = r.sessions + 1
        BY <4>1 DEF IsRecorder
      <4>3. PICK m : m = r.sessions
        OBVIOUS
      <4>4. m \in Nat
        BY <4>3 DEF IsRecorder
      <4>5. PICK k : k = m + 1
        OBVIOUS
      <4>6. k # 0
        BY <4>4, <4>5
      <4>7. e.r.session = k
        BY <4>2, <4>3, <4>5
      <4> QED
        BY <3>1, <4>6, <4>7
    <3> QED
      BY <3>1, <3>2, <3>3
  <2>4. PICK s : s = e.r
    OBVIOUS
  <2>5. Failing(s, 0 - e.cost) = {}
    BY <2>2 DEF Failing
  <2>6. o.r = Open(s, kind, Name(s, kind), None)
    BY <2>1, <2>3, <2>4, <2>5
  <2>7. Name(s, kind) \in Names
    <3>1. s.session \in Nat /\ kind \in Files /\ 0 \in Nat
      BY <2>3, <2>4 DEF IsRecorder, Files
    <3> QED
      BY <3>1 DEF Name, Names
  <2>8. o.r.file[kind] = Name(s, kind)
    BY <2>3, <2>4, <2>6 DEF Open, IsRecorder, Files
  <2> QED
    BY <2>7, <2>8, NameFacts
<1> QED
  BY <1>1, <1>2

LEMMA StartSyncFileStep ==
    ASSUME IInv, Renewed = {TRUE}, "avfail" \notin Windows, StartSyncFile
    PROVE  IInv' /\ Grows(rec, rec')
<1>1. /\ ui.pc = "avfile" /\ lock = "none" /\ UNCHANGED <<proc, ret, lock, alive, stray, owed, vid, setting>>
      /\ ui' = [ui EXCEPT !.pc = "avset"]
  BY DEF StartSyncFile, uiVars, mediaVars, UiGoto, Free
<1>2. PICK o \in StartCsv(rec, "sync", TRUE, 0) : rec' = o.r
  BY DEF StartSyncFile, Outcome, Window
<1>3. PICK q : q = rec'
  OBVIOUS
<1>4. ~rec.av /\ IsRecorder(rec) /\ RecordInv(rec) /\ ~Finished(rec, "sync")
  BY <1>1, TheRecorder DEF IInv, SwitchInv, NoReuseInv
<1>5. /\ IsRecorder(q) /\ RecordInv(q) /\ Grows(rec, q) /\ NoneFinished(rec, q) /\ SessionStep(rec, q)
      /\ SameSwitches(rec, q) /\ SameWriter(rec, q) /\ SameMachine(rec, q)
      /\ \A f \in Files \ {"sync"} : q.file[f] = rec.file[f]
  <2>1. "sync" \in {"obs", "net", "sync"} /\ o \in StartCsv(rec, "sync", TRUE, 0)
    BY <1>2
  <2>2. CsvStarted(rec, o.r, "sync")
    BY <1>4, <2>1, StartCsvRecord
  <2>3. CsvStarted(rec, q, "sync")
    BY <1>2, <1>3, <2>2
  <2> QED
    BY <2>3 DEF CsvStarted
<1>6. q.frames = rec.frames /\ q.csv = rec.csv /\ q.av = rec.av /\ q.video = rec.video
  BY <1>5 DEF SameSwitches
<1>7. q.writer = rec.writer /\ q.segment = rec.segment /\ q.drops = rec.drops
  BY <1>5 DEF SameWriter
<1>8. /\ q.file["video"] = rec.file["video"] /\ q.file["obs"] = rec.file["obs"] /\ q.file["net"] = rec.file["net"]
      /\ q.file["sync"] # None
  <2>1. q.file["sync"] # None
    BY <1>2, <1>3, <1>4, CsvStarts
  <2> QED
    BY <1>5, <2>1 DEF Files
<1>9. /\ (Finished(q, "obs") => Finished(rec, "obs")) /\ (Finished(q, "net") => Finished(rec, "net"))
      /\ ~Finished(q, "sync") /\ (Finished(q, "video") => Finished(rec, "video"))
  BY <1>4, <1>5, NotFinished
<1>10. /\ DOMAIN ui' = {"pc", "want", "back"} /\ ui'.want = ui.want /\ ui'.back = ui.back /\ ui.want \in FlagSets
       /\ ui'.pc = "avset"
  BY <1>1, TheUi
<1>11. Heading = "avfile" /\ Heading' = "avset"
  BY <1>1, <1>10 DEF Heading
<1>12. VideoOpen' <=> VideoOpen
  BY <1>3, <1>8 DEF VideoOpen
<1>13. LockInv'
  BY <1>1, <1>3, <1>7, <1>10 DEF IInv, LockInv
<1>14. SwitchInv'
  BY <1>1, <1>3, <1>4, <1>6, <1>8, <1>10, <1>12 DEF IInv, SwitchInv
<1>15. SessionInv'
  BY <1>1, <1>3, <1>5, <1>6, <1>10 DEF IInv, SessionInv, SessionStep, SameSession
<1>16. NoReuseInv'
  BY <1>1, <1>3, <1>6, <1>9, <1>10, <1>11, FinishedAfter DEF IInv, NoReuseInv, BeforeCsv, BeforeAv, BeforeVideo
<1>17. RollInv'
  BY <1>1, <1>3, <1>7, <1>10, <1>12 DEF IInv, RollInv, NeedsRoll, Format
<1>18. MachineInv'
  <2>1. \A d \in Devices : WillPlay(rec, d)' <=> WillPlay(rec, d)
    BY <1>3, <1>5 DEF SameMachine, WillPlay
  <2> QED
    BY <1>1, <1>3, <1>4, <1>5, <1>6, <1>10, <1>11, <2>1 DEF IInv, MachineInv, SameMachine
<1>19. IInv'
  BY <1>1, <1>3, <1>5, <1>7, <1>10, <1>13, <1>14, <1>15, <1>16, <1>17, <1>18, TheUi, UiSteps
     DEF UiPcs, BeforeVideo, BeforeAv, BeforeCsv
<1> QED
  BY <1>3, <1>5, <1>19

LEMMA StopSyncFileStep ==
    ASSUME IInv, StopSyncFile
    PROVE  IInv' /\ Grows(rec, rec')
<1>1. /\ ui.pc = "avstop" /\ lock = "none" /\ UNCHANGED <<proc, ret, lock, alive, stray, owed, vid, setting>>
      /\ ui' = [ui EXCEPT !.pc = "check", !.back = "reset"]
      /\ rec' = Close(rec, "sync")
  BY DEF StopSyncFile, uiVars, mediaVars, UiCleanup, Free
<1>2. PICK q : q = rec'
  OBVIOUS
<1>3. ~rec.av /\ IsRecorder(rec) /\ RecordInv(rec)
  BY <1>1, TheRecorder DEF IInv, SwitchInv
<1>4. /\ IsRecorder(q) /\ RecordInv(q) /\ Grows(rec, q)
      /\ SameSwitches(rec, q) /\ SameSession(rec, q) /\ SameWriter(rec, q) /\ SameMachine(rec, q)
      /\ q.file["sync"] = None /\ \A f \in Files \ {"sync"} : q.file[f] = rec.file[f]
      /\ \A s, k, i : <<s, k, i>> \in DOMAIN q.disk /\ q.disk[<<s, k, i>>].done =>
            k = "sync" \/ (<<s, k, i>> \in DOMAIN rec.disk /\ rec.disk[<<s, k, i>>].done)
  BY <1>1, <1>2, <1>3, CloseCsv
<1>5. q.frames = rec.frames /\ q.csv = rec.csv /\ q.av = rec.av /\ q.video = rec.video
  BY <1>4 DEF SameSwitches
<1>6. q.writer = rec.writer /\ q.segment = rec.segment /\ q.drops = rec.drops
  BY <1>4 DEF SameWriter
<1>7. /\ q.file["video"] = rec.file["video"] /\ q.file["sync"] = None
      /\ q.file["obs"] = rec.file["obs"] /\ q.file["net"] = rec.file["net"]
  BY <1>4 DEF Files
<1>8. /\ Finished(q, "obs") => Finished(rec, "obs")
      /\ Finished(q, "net") => Finished(rec, "net")
      /\ Finished(q, "video") => Finished(rec, "video")
  BY <1>4 DEF Finished, Name, SameSession
<1>9. /\ DOMAIN ui' = {"pc", "want", "back"} /\ ui'.want = ui.want /\ ui.want \in FlagSets
      /\ ui'.pc = "check" /\ ui'.back = "reset"
  BY <1>1, TheUi
<1>10. Heading = "avstop" /\ Heading' = "reset"
  BY <1>1, <1>9 DEF Heading
<1>11. VideoOpen' <=> VideoOpen
  BY <1>2, <1>7 DEF VideoOpen
<1>12. LockInv'
  BY <1>1, <1>2, <1>6, <1>9 DEF IInv, LockInv
<1>13. SwitchInv'
  BY <1>1, <1>2, <1>3, <1>5, <1>7, <1>9, <1>11 DEF IInv, SwitchInv
<1>14. SessionInv'
  BY <1>1, <1>2, <1>4, <1>5, <1>9 DEF IInv, SessionInv, SameSession
<1>15. NoReuseInv'
  BY <1>1, <1>2, <1>3, <1>5, <1>8, <1>9, <1>10, FinishedAfter DEF IInv, NoReuseInv, BeforeCsv, BeforeAv, BeforeVideo
<1>16. RollInv'
  BY <1>1, <1>2, <1>6, <1>9, <1>11 DEF IInv, RollInv, NeedsRoll, Format
<1>17. MachineInv'
  <2>1. \A d \in Devices : WillPlay(rec, d)' <=> WillPlay(rec, d)
    BY <1>2, <1>4 DEF SameMachine, WillPlay
  <2> QED
    BY <1>1, <1>2, <1>3, <1>4, <1>5, <1>9, <1>10, <2>1 DEF IInv, MachineInv, SameMachine
<1>18. IInv'
  BY <1>1, <1>2, <1>4, <1>6, <1>9, <1>12, <1>13, <1>14, <1>15, <1>16, <1>17, TheUi, UiSteps
     DEF UiPcs, BeforeVideo, BeforeAv, BeforeCsv
<1> QED
  BY <1>2, <1>4, <1>18

\* The recording starts, or its setting is taken back.
LEMMA StartRecordingStep ==
    ASSUME IInv, Renewed = {TRUE}, StartRecording
    PROVE  IInv' /\ Grows(rec, rec')
<1>1. /\ ui.pc = "open" /\ lock = "none" /\ UNCHANGED <<proc, ret, lock, alive, stray, owed, vid>>
  BY DEF StartRecording, uiVars, mediaVars, Free
<1>2. PICK o \in StartVideo(rec, Format, TRUE, left.faults) :
         IF o.r.file["video"] # None
         THEN rec' = o.r /\ ui' = IdleUi /\ setting' = setting
         ELSE /\ rec' = [o.r EXCEPT !.video = FALSE] /\ setting' = [setting EXCEPT !.video = FALSE]
              /\ ui' = [ui EXCEPT !.pc = "check", !.back = "idle"]
  BY DEF StartRecording, UiCleanup
<1>3. /\ IsRecorder(rec) /\ RecordInv(rec) /\ rec.file["video"] = None /\ rec.video = TRUE
      /\ ~Finished(rec, "video") /\ (rec.csv => ~Finished(rec, "obs") /\ ~Finished(rec, "net"))
  <2>1. IsRecorder(rec) /\ RecordInv(rec) /\ rec.video \in BOOLEAN
    BY TheRecorder DEF IsRecorder
  <2> QED
    BY <1>1, <2>1 DEF IInv, SwitchInv, NoReuseInv, VideoOpen
<1>4. PICK p : p = o.r
  OBVIOUS
<1>5. /\ IsRecorder(p) /\ RecordInv(p) /\ Grows(rec, p) /\ NoneFinished(rec, p) /\ SessionStep(rec, p)
      /\ SameSwitches(rec, p) /\ SameMachine(rec, p)
      /\ p.file["sync"] = rec.file["sync"] /\ p.drops = rec.drops
      /\ ~rec.csv => p.file["obs"] = rec.file["obs"] /\ p.file["net"] = rec.file["net"]
      /\ p.writer \in {rec.writer, NewWriter} /\ p.segment \in {rec.segment, NewSegment(0, Format)}
  <2>1. PICK fmt : fmt = Format
    OBVIOUS
  <2>2. PICK n : n = left.faults
    OBVIOUS
  <2>3. o \in StartVideo(rec, fmt, TRUE, n)
    BY <1>2, <2>1, <2>2
  <2>4. /\ IsRecorder(o.r) /\ RecordInv(o.r) /\ Grows(rec, o.r) /\ NoneFinished(rec, o.r) /\ SessionStep(rec, o.r)
        /\ SameSwitches(rec, o.r) /\ SameMachine(rec, o.r)
        /\ o.r.file["sync"] = rec.file["sync"] /\ o.r.drops = rec.drops
        /\ ~rec.csv => o.r.file["obs"] = rec.file["obs"] /\ o.r.file["net"] = rec.file["net"]
        /\ o.r.writer \in {rec.writer, NewWriter} /\ o.r.segment \in {rec.segment, NewSegment(0, fmt)}
    BY <1>3, <2>3, StartVideoRecord
  <2> QED
    BY <1>4, <2>1, <2>4
<1>6. PICK q : q = rec'
  OBVIOUS
<1>7. IF p.file["video"] # None THEN q = p ELSE q = [p EXCEPT !.video = FALSE]
  BY <1>2, <1>4, <1>6
<1>8. /\ IsRecorder(q) /\ q.file = p.file /\ q.disk = p.disk /\ q.writer = p.writer /\ q.segment = p.segment
      /\ SameSession(p, q) /\ SameFiles(p, q) /\ SameWriter(p, q) /\ SameMachine(p, q)
      /\ q.frames = rec.frames /\ q.csv = rec.csv /\ q.av = rec.av /\ (q.video <=> q.file["video"] # None)
  <2>1. p.frames = rec.frames /\ p.csv = rec.csv /\ p.av = rec.av /\ p.video = TRUE
    BY <1>3, <1>5 DEF SameSwitches
  <2>2. CASE q = p /\ p.file["video"] # None
    BY <1>5, <2>1, <2>2 DEF SameSession, SameFiles, SameWriter, SameMachine
  <2>3. CASE q = [p EXCEPT !.video = FALSE] /\ p.file["video"] = None
    <3>1. IsRecorder(q)
      BY <1>5, <2>3, FALSE \in BOOLEAN DEF IsRecorder
    <3>2. /\ q.file = p.file /\ q.disk = p.disk /\ q.writer = p.writer /\ q.segment = p.segment
          /\ SameSession(p, q) /\ SameFiles(p, q) /\ SameWriter(p, q) /\ SameMachine(p, q)
      BY <1>5, <2>3 DEF IsRecorder, SameSession, SameFiles, SameWriter, SameMachine
    <3>3. q.frames = rec.frames /\ q.csv = rec.csv /\ q.av = rec.av /\ q.video = FALSE
      BY <1>5, <2>1, <2>3 DEF IsRecorder
    <3> QED
      BY <2>3, <3>1, <3>2, <3>3
  <2> QED
    BY <1>7, <2>2, <2>3
<1>9. RecordInv(q) /\ Grows(rec, q) /\ NoneFinished(rec, q) /\ SessionStep(rec, q) /\ SameMachine(rec, q)
  <2>1. RecordInv(q)
    BY <1>5, <1>8, SameRecord
  <2> QED
    BY <1>5, <1>8, <2>1 DEF Grows, NoneFinished, SessionStep, SameSession, SameMachine
<1>10. /\ ~rec.writer.on /\ rec.writer.queue = <<>> /\ rec.writer.held = <<>> /\ ~rec.writer.stopping
       /\ q.writer.queue = <<>> /\ q.writer.held = <<>> /\ ~q.writer.stopping /\ q.drops = rec.drops
  <2>1. ~rec.writer.on /\ rec.writer.queue = <<>> /\ rec.writer.held = <<>>
    BY <1>3 DEF RecordInv, WriterInv
  <2>2. ~rec.writer.stopping
    BY <1>1 DEF IInv, LockInv
  <2> QED
    BY <1>5, <1>8, <2>1, <2>2, NewWriterSays DEF SameWriter
<1>11. /\ DOMAIN ui' = {"pc", "want", "back"} /\ ui'.back \in {"idle", "csv", "av", "reset"} /\ setting' \in FlagSets
       /\ \/ ui'.pc = "idle"
          \/ ui'.pc = "check" /\ ui'.back = "idle" /\ ui'.want = ui.want /\ ui.want \in FlagSets
  <2>1. DOMAIN ui = {"pc", "want", "back"} /\ setting \in FlagSets /\ ui.want \in FlagSets
    BY <1>1, TheUi
  <2>2. CASE ui' = IdleUi /\ setting' = setting
    BY <2>1, <2>2, IdleSays
  <2>3. CASE ui' = [ui EXCEPT !.pc = "check", !.back = "idle"] /\ setting' = [setting EXCEPT !.video = FALSE]
    <3>1. setting' \in FlagSets
      BY <2>1, <2>3 DEF FlagSets
    <3> QED
      BY <2>1, <2>3, <3>1
  <2> QED
    BY <1>2, <2>2, <2>3
<1>12. Heading = "open" /\ Heading' = "idle"
  BY <1>1, <1>11 DEF Heading
<1>13. ~Finished(q, "video") /\ (q.csv => ~Finished(q, "obs") /\ ~Finished(q, "net"))
  BY <1>3, <1>8, <1>9, NotFinished
<1>14. LockInv'
  BY <1>1, <1>6, <1>10, <1>11 DEF IInv, LockInv
<1>15. SwitchInv'
  <2>1. q.file["sync"] = rec.file["sync"] /\ (~rec.csv => q.file["obs"] = None /\ q.file["net"] = None)
    BY <1>1, <1>5, <1>8 DEF IInv, SwitchInv
  <2> QED
    BY <1>1, <1>6, <1>8, <1>11, <2>1 DEF IInv, SwitchInv, VideoOpen
<1>16. SessionInv'
  <2>1. rec.session # 0 => q.session # 0
    BY <1>9 DEF SessionStep, SameSession
  <2>2. ui'.pc = "idle" => q.video
    BY <1>2, <1>4, <1>6, <1>8, <1>11, IdleSays
  <2> QED
    BY <1>1, <1>6, <1>8, <1>11, <2>1, <2>2 DEF IInv, SessionInv, AnyActive
<1>17. NoReuseInv'
  BY <1>1, <1>6, <1>11, <1>12, <1>13, FinishedAfter DEF NoReuseInv, BeforeCsv, BeforeAv, BeforeVideo
<1>18. RollInv'
  <2>1. proc.pc # "roll" /\ (proc.pc = "frame" => ~NeedsRoll(rec, Format))
    BY <1>1, <1>3 DEF IInv, LockInv, RollInv, VideoOpen
  <2>2. ASSUME proc.pc = "frame"
        PROVE  ~NeedsRoll(q, Format)
    <3>1. CASE q.segment = rec.segment
      BY <2>1, <2>2, <3>1 DEF NeedsRoll
    <3>2. CASE q.segment = NewSegment(0, Format)
      BY <3>2, RecorderAssumption DEF NeedsRoll, NewSegment
    <3> QED
      BY <1>5, <1>8, <3>1, <3>2
  <2>3. NeedsRoll(rec, Format)' <=> NeedsRoll(q, Format)
    BY <1>1, <1>6 DEF NeedsRoll, Format
  <2> QED
    BY <1>1, <2>1, <2>2, <2>3 DEF RollInv
<1>19. MachineInv'
  BY <1>1, <1>6, <1>8, <1>9, <1>11, <1>12, MachineKept
<1>20. IInv'
  BY <1>1, <1>6, <1>8, <1>9, <1>10, <1>11, <1>14, <1>15, <1>16, <1>17, <1>18, <1>19, UiSteps
     DEF UiPcs, BeforeVideo, BeforeAv, BeforeCsv
<1> QED
  BY <1>6, <1>9, <1>20

\* The writer is told to stop; the lock stays held.
LEMMA StopRecordingStep ==
    ASSUME IInv, "latestop" \notin Windows, StopRecording
    PROVE  IInv' /\ Grows(rec, rec')
<1>1. /\ ui.pc = "lock" /\ lock = "none" /\ lock' = "ui" /\ UNCHANGED <<proc, ret, alive, stray, owed, vid, setting>>
      /\ proc.pc # "frame" \/ ~NeedsRoll(rec, Format)
      /\ ui' = [ui EXCEPT !.pc = "join"] /\ rec' = StopWriting(rec)
  BY DEF StopRecording, uiVars, mediaVars, UiGoto, Free, Window
<1>2. PICK q : q = rec'
  OBVIOUS
<1>3. /\ IsRecorder(q) /\ RecordInv(q) /\ Grows(rec, q)
      /\ q.writer.on = rec.writer.on /\ q.writer.queue = rec.writer.queue /\ q.writer.held = rec.writer.held
      /\ SameSwitches(rec, q) /\ SameSession(rec, q) /\ SameFiles(rec, q) /\ SameCounts(rec, q) /\ SameMachine(rec, q)
  BY <1>1, <1>2, TheRecorder, StopWritingRecord
<1>4. q.frames = rec.frames /\ q.csv = rec.csv /\ q.av = rec.av /\ q.video = rec.video
  BY <1>3 DEF SameSwitches
<1>5. q.file = rec.file /\ q.session = rec.session /\ q.segment = rec.segment /\ q.drops = rec.drops
  BY <1>3 DEF SameSession, SameFiles, SameCounts
<1>6. /\ DOMAIN ui' = {"pc", "want", "back"} /\ ui'.want = ui.want /\ ui'.back = ui.back /\ ui.want \in FlagSets
      /\ ui'.pc = "join"
  BY <1>1, TheUi
<1>7. Heading = "lock" /\ Heading' = "join"
  BY <1>1, <1>6 DEF Heading
<1>8. \A kind : Finished(q, kind) <=> Finished(rec, kind)
  BY <1>3, FinishedKept DEF SameFiles
<1>9. LockInv'
  BY <1>1, <1>2, <1>6 DEF IInv, LockInv
<1>10. SwitchInv'
  BY <1>1, <1>2, <1>4, <1>5, <1>6 DEF IInv, SwitchInv, VideoOpen
<1>11. SessionInv'
  BY <1>1, <1>2, <1>4, <1>5, <1>6 DEF IInv, SessionInv
<1>12. NoReuseInv'
  BY <1>1, <1>2, <1>4, <1>6, <1>7, <1>8, FinishedAfter DEF IInv, NoReuseInv, BeforeCsv, BeforeAv, BeforeVideo
<1>13. RollInv'
  <2>1. proc.pc # "roll"
    BY <1>1 DEF IInv, LockInv
  <2> QED
    BY <1>1, <1>2, <1>5, <2>1 DEF RollInv, NeedsRoll, Format
<1>14. MachineInv'
  BY <1>1, <1>2, <1>3, <1>4, <1>6, <1>7, MachineKept
<1>15. IInv'
  BY <1>1, <1>2, <1>3, <1>5, <1>6, <1>9, <1>10, <1>11, <1>12, <1>13, <1>14, TheUi, UiSteps DEF UiPcs
<1> QED
  BY <1>2, <1>3, <1>15

\* The queue is written; the files are finished.
LEMMA NothingLeft ==
    ASSUME IInv, Gone(rec)
    PROVE  rec.writer.queue = <<>> /\ rec.writer.held = <<>>
  BY TheRecorder DEF Gone, RecordInv, WriterInv

LEMMA JoinWriterStep ==
    ASSUME IInv, JoinWriter
    PROVE  IInv' /\ Grows(rec, rec')
<1>1. /\ ui.pc = "join" /\ lock' = "none" /\ UNCHANGED <<proc, ret, alive, stray, owed, vid, setting>>
      /\ ui' = [ui EXCEPT !.pc = "check", !.back = "idle"] /\ rec' = StopVideo(rec) /\ Gone(rec)
  BY DEF JoinWriter, uiVars, mediaVars, UiCleanup
<1>2. PICK q : q = rec'
  OBVIOUS
<1>3. rec.writer.queue = <<>> /\ rec.writer.held = <<>> /\ IsRecorder(rec) /\ RecordInv(rec)
  BY <1>1, NothingLeft, TheRecorder
<1>4. /\ IsRecorder(q) /\ RecordInv(q) /\ Grows(rec, q) /\ q.writer = NoWriter
      /\ SameSwitches(rec, q) /\ SameSession(rec, q) /\ SameCounts(rec, q) /\ SameMachine(rec, q)
      /\ q.file["video"] = None /\ q.file["audio"] = None
      /\ \A f \in Files \ {"video", "audio"} : q.file[f] = rec.file[f]
      /\ \A n \in DOMAIN q.disk : q.disk[n].done => n[2] \in {"video", "audio"} \/ (n \in DOMAIN rec.disk /\ rec.disk[n].done)
  BY <1>1, <1>2, <1>3, StopVideoRecord
<1>5. q.frames = rec.frames /\ q.csv = rec.csv /\ q.av = rec.av /\ q.video = rec.video
  BY <1>4 DEF SameSwitches
<1>6. /\ q.file["obs"] = rec.file["obs"] /\ q.file["net"] = rec.file["net"] /\ q.file["sync"] = rec.file["sync"]
      /\ q.session = rec.session /\ q.segment = rec.segment /\ q.drops = rec.drops
      /\ q.writer.queue = <<>> /\ q.writer.held = <<>> /\ ~q.writer.stopping
  BY <1>4 DEF SameSession, SameCounts, Files, NoWriter
<1>7. /\ DOMAIN ui' = {"pc", "want", "back"} /\ ui'.want = ui.want /\ ui.want \in FlagSets
      /\ ui'.pc = "check" /\ ui'.back = "idle"
  BY <1>1, TheUi
<1>8. Heading = "join" /\ Heading' = "idle"
  BY <1>1, <1>7 DEF Heading
<1>9. (Finished(q, "obs") => Finished(rec, "obs")) /\ (Finished(q, "net") => Finished(rec, "net"))
  <2>1. ASSUME NEW kind \in {"obs", "net"}, Finished(q, kind)
        PROVE  Finished(rec, kind)
    <3>1. Name(q, kind) = Name(rec, kind) /\ Name(q, kind)[2] = kind
      BY <1>6 DEF Name
    <3>2. Name(q, kind) \in DOMAIN q.disk /\ q.disk[Name(q, kind)].done /\ q.session # 0
      BY <2>1 DEF Finished
    <3>3. Name(q, kind)[2] \notin {"video", "audio"}
      BY <3>1
    <3>4. Name(q, kind) \in DOMAIN rec.disk /\ rec.disk[Name(q, kind)].done
      BY <1>4, <3>2, <3>3
    <3> QED
      BY <1>6, <3>1, <3>2, <3>4 DEF Finished
  <2> QED
    BY <2>1
<1>10. LockInv'
  BY <1>1, <1>2, <1>6, <1>7 DEF IInv, LockInv
<1>11. SwitchInv'
  BY <1>1, <1>2, <1>4, <1>5, <1>6, <1>7 DEF IInv, SwitchInv, VideoOpen
<1>12. SessionInv'
  BY <1>1, <1>2, <1>5, <1>6, <1>7 DEF IInv, SessionInv
<1>13. NoReuseInv'
  BY <1>1, <1>2, <1>5, <1>7, <1>8, <1>9, FinishedAfter DEF IInv, NoReuseInv, BeforeCsv, BeforeAv, BeforeVideo
<1>14. RollInv'
  <2>1. proc.pc # "roll" /\ (proc.pc = "frame" => ~NeedsRoll(rec, Format))
    BY <1>1 DEF IInv, LockInv, RollInv
  <2> QED
    BY <1>1, <1>2, <1>6, <2>1 DEF RollInv, NeedsRoll, Format
<1>15. MachineInv'
  BY <1>1, <1>2, <1>4, <1>5, <1>7, <1>8, MachineKept
<1>16. IInv'
  BY <1>1, <1>2, <1>3, <1>4, <1>6, <1>7, <1>10, <1>11, <1>12, <1>13, <1>14, <1>15, TheUi, UiSteps DEF UiPcs
<1> QED
  BY <1>2, <1>4, <1>16

\* The session ends: no file is open when nothing is recorded.
LEMMA EndSessionStep ==
    ASSUME IInv, "bmp" \notin Windows, EndSession
    PROVE  IInv' /\ Grows(rec, rec')
<1>1. /\ ui.pc = "clean" /\ lock = "none" /\ proc.pc # "bmp"
      /\ UNCHANGED <<proc, ret, lock, alive, stray, owed, vid, setting>>
      /\ ui' = IF ui.back = "idle" THEN IdleUi ELSE [ui EXCEPT !.pc = ui.back, !.back = "idle"]
      /\ rec' = Cleanup(rec)
  BY DEF EndSession, uiVars, mediaVars, Free, Window
<1>2. PICK q : q = rec'
  OBVIOUS
<1>3. /\ IsRecorder(rec) /\ RecordInv(rec) /\ ~rec.frames /\ ~rec.csv /\ ~rec.av /\ ~rec.video
      /\ \A f \in Files : rec.file[f] = None
  <2>1. IsRecorder(rec) /\ RecordInv(rec) /\ ~rec.frames /\ ~rec.csv /\ ~rec.av /\ ~rec.video
    BY <1>1, TheRecorder DEF IInv, SessionInv, AnyActive
  <2>2. rec.file["obs"] = None /\ rec.file["net"] = None /\ rec.file["sync"] = None /\ rec.file["video"] = None
    BY <1>1, <2>1 DEF IInv, SwitchInv, VideoOpen
  <2>3. rec.file["audio"] = None
    BY <2>1, <2>2 DEF RecordInv, WriterInv
  <2> QED
    BY <2>1, <2>2, <2>3 DEF Files
<1>4. /\ IsRecorder(q) /\ RecordInv(q) /\ Grows(rec, q) /\ q.session = 0
      /\ SameSwitches(rec, q) /\ SameFiles(rec, q) /\ SameWriter(rec, q) /\ SameMachine(rec, q)
  BY <1>1, <1>2, <1>3, CleanupRecord
<1>5. q.frames = rec.frames /\ q.csv = rec.csv /\ q.av = rec.av /\ q.video = rec.video
  BY <1>4 DEF SameSwitches
<1>6. q.file = rec.file /\ q.writer = rec.writer /\ q.segment = rec.segment /\ q.drops = rec.drops
  BY <1>4 DEF SameFiles, SameWriter
<1>7. \A kind : ~Finished(q, kind)
  BY <1>4 DEF Finished
<1>8. /\ DOMAIN ui' = {"pc", "want", "back"} /\ (ui'.pc # "idle" => ui'.want = ui.want) /\ ui.want \in FlagSets
      /\ ui'.back = "idle" /\ ui'.pc = ui.back /\ ui.back \in {"idle", "csv", "av", "reset"}
  <2>1. DOMAIN ui = {"pc", "want", "back"} /\ ui.want \in FlagSets /\ ui.back \in {"idle", "csv", "av", "reset"}
    BY <1>1, TheUi
  <2> QED
    BY <1>1, <2>1, IdleSays
<1>9. Heading = ui.back /\ Heading' = ui.back
  BY <1>1, <1>8 DEF Heading
<1>10. LockInv'
  BY <1>1, <1>2, <1>6, <1>8 DEF IInv, LockInv
<1>11. SwitchInv'
  BY <1>1, <1>2, <1>3, <1>5, <1>6, <1>8 DEF IInv, SwitchInv, VideoOpen, Files
<1>12. SessionInv'
  BY <1>1, <1>2, <1>4, <1>5, <1>8 DEF IInv, SessionInv
<1>13. NoReuseInv'
  BY <1>2, <1>7, <1>8, FinishedAfter DEF NoReuseInv
<1>14. RollInv'
  BY <1>1, <1>2, <1>6, <1>8 DEF IInv, RollInv, NeedsRoll, Format, VideoOpen
<1>15. MachineInv'
  BY <1>1, <1>2, <1>4, <1>5, <1>8, <1>9, MachineKept
<1>16. IInv'
  BY <1>1, <1>2, <1>4, <1>6, <1>8, <1>10, <1>11, <1>12, <1>13, <1>14, <1>15, TheUi, UiSteps
     DEF UiPcs, BeforeVideo, BeforeAv, BeforeCsv
<1> QED
  BY <1>2, <1>4, <1>16

\* The source is destroyed: the mixer is given back, the writer told to stop.
LEMMA DestroyRecorderStep ==
    ASSUME IInv, DestroyRecorder
    PROVE  IInv' /\ Grows(rec, rec')
<1>1. /\ ui.pc = "destroy" /\ lock' = "ui" /\ proc.pc = "idle" /\ ret = "idle"
      /\ UNCHANGED <<proc, ret, alive, stray, owed, vid, setting>>
      /\ ui' = [ui EXCEPT !.pc = "last"] /\ rec' = StopWriting(RestoreMixer(rec))
  BY DEF DestroyRecorder, uiVars, mediaVars, UiGoto
<1>2. PICK p : p = RestoreMixer(rec)
  OBVIOUS
<1>3. PICK q : q = rec'
  OBVIOUS
<1>4. IsRecorder(rec) /\ RecordInv(rec) /\ rec.host \in Devices
  BY TheRecorder DEF IsRecorder
<1>5. /\ IsRecorder(p) /\ SameSwitches(rec, p) /\ OnlyMachine(rec, p)
      /\ p.prg = rec.prg /\ p.jobs = rec.jobs /\ p.playing = rec.playing /\ p.host = rec.host
      /\ p.snapshot = None
      /\ \A d \in Devices : p.mixer[d] = IF d = rec.host /\ rec.snapshot # None THEN rec.snapshot ELSE rec.mixer[d]
  BY <1>2, <1>4, RestoreSays
<1>6. RecordInv(p)
  BY <1>4, <1>5, SameRecord DEF OnlyMachine
<1>7. /\ IsRecorder(q) /\ RecordInv(q) /\ Grows(p, q)
      /\ q.writer.on = p.writer.on /\ q.writer.queue = p.writer.queue /\ q.writer.held = p.writer.held
      /\ SameSwitches(p, q) /\ SameSession(p, q) /\ SameFiles(p, q) /\ SameCounts(p, q) /\ SameMachine(p, q)
  <2>1. q = StopWriting(p)
    BY <1>1, <1>2, <1>3
  <2> QED
    BY <1>5, <1>6, <2>1, StopWritingRecord
<1>8. q.frames = rec.frames /\ q.csv = rec.csv /\ q.av = rec.av /\ q.video = rec.video
  BY <1>5, <1>7 DEF SameSwitches
<1>9. /\ q.file = rec.file /\ q.disk = rec.disk /\ SameSession(rec, q) /\ q.drops = rec.drops
      /\ q.writer.queue = rec.writer.queue /\ q.writer.held = rec.writer.held
  BY <1>5, <1>7 DEF OnlyMachine, SameSession, SameFiles, SameWriter, SameCounts
<1>10. Grows(rec, q)
  BY <1>4, <1>9, UnchangedGrows
<1>11. \A kind : Finished(q, kind) <=> Finished(rec, kind)
  BY <1>9, FinishedKept
<1>12. DOMAIN ui' = {"pc", "want", "back"} /\ ui'.back = ui.back /\ ui'.pc = "last"
  BY <1>1, TheUi
<1>13. Heading = "destroy" /\ Heading' = "last"
  BY <1>1, <1>12 DEF Heading
<1>14. LockInv'
  BY <1>1, <1>3, <1>12 DEF IInv, LockInv
<1>15. SwitchInv'
  BY <1>1, <1>3, <1>8, <1>9, <1>12 DEF IInv, SwitchInv, VideoOpen
<1>16. SessionInv'
  BY <1>1, <1>3, <1>8, <1>12 DEF IInv, SessionInv
<1>17. NoReuseInv'
  BY <1>1, <1>3, <1>8, <1>11, <1>12, <1>13, FinishedAfter DEF IInv, NoReuseInv, BeforeCsv, BeforeAv, BeforeVideo
<1>18. RollInv'
  BY <1>1 DEF RollInv
<1>19. MachineInv'
  <2>1. MachineInv
    BY DEF IInv
  <2>2. \A d \in Devices : WillPlay(rec, d)' <=> WillPlay(rec, d)
    BY <1>3, <1>5, <1>7 DEF SameMachine, WillPlay
  <2>3. q.snapshot = None /\ q.prg = rec.prg /\ q.host = rec.host /\ q.mixer = p.mixer
    BY <1>5, <1>7 DEF SameMachine
  <2>4. \A d \in Devices : q.mixer[d] = UserVolume[d]
    BY <1>5, <2>1, <2>3 DEF MachineInv
  <2>5. rec.prg => rec.av
    BY <1>1, <1>13, <2>1 DEF MachineInv
  <2> QED
    BY <1>1, <1>3, <1>8, <1>12, <2>1, <2>2, <2>3, <2>4, <2>5 DEF MachineInv
<1>20. IInv'
  BY <1>1, <1>3, <1>7, <1>9, <1>12, <1>14, <1>15, <1>16, <1>17, <1>18, <1>19, TheUi, UiSteps DEF UiPcs
<1> QED
  BY <1>3, <1>10, <1>20

\* Everything is closed.
LEMMA DestroyFilesStep ==
    ASSUME IInv, DestroyFiles
    PROVE  IInv' /\ Grows(rec, rec')
<1>1. /\ ui.pc = "last" /\ lock' = "none" /\ UNCHANGED <<proc, ret, alive, stray, owed, vid, setting>>
      /\ ui' = [ui EXCEPT !.pc = "end"] /\ rec' = CloseAll(rec) /\ Gone(rec)
  BY DEF DestroyFiles, uiVars, mediaVars, UiGoto
<1>2. PICK q : q = rec'
  OBVIOUS
<1>3. rec.writer.queue = <<>> /\ rec.writer.held = <<>> /\ IsRecorder(rec) /\ RecordInv(rec)
  BY <1>1, NothingLeft, TheRecorder
<1>4. /\ IsRecorder(q) /\ RecordInv(q) /\ Grows(rec, q) /\ q.writer = NoWriter /\ q.drops = rec.drops
      /\ SameSwitches(rec, q) /\ SameSession(rec, q) /\ SameMachine(rec, q)
      /\ \A f \in Files : q.file[f] = None
  BY <1>1, <1>2, <1>3, CloseAllRecord
<1>5. q.frames = rec.frames /\ q.csv = rec.csv /\ q.av = rec.av /\ q.video = rec.video
  BY <1>4 DEF SameSwitches
<1>6. q.writer.queue = <<>> /\ q.writer.held = <<>> /\ ~q.writer.stopping
  BY <1>4 DEF NoWriter
<1>7. DOMAIN ui' = {"pc", "want", "back"} /\ ui'.back = ui.back /\ ui'.pc = "end"
  BY <1>1, TheUi
<1>8. Heading = "last" /\ Heading' = "end"
  BY <1>1, <1>7 DEF Heading
<1>9. proc.pc = "idle" /\ ret = "idle" /\ ~alive
  BY <1>1 DEF IInv, LockInv
<1>10. LockInv'
  BY <1>1, <1>2, <1>6, <1>7, <1>9 DEF LockInv
<1>11. SwitchInv'
  BY <1>2, <1>4, <1>7 DEF SwitchInv, Files
<1>12. SessionInv'
  BY <1>1, <1>7, <1>9 DEF IInv, SessionInv
<1>13. NoReuseInv'
  BY <1>7, <1>8 DEF NoReuseInv, BeforeCsv, BeforeAv, BeforeVideo
<1>14. RollInv'
  BY <1>1, <1>9 DEF RollInv
<1>15. MachineInv'
  <2>1. \A d \in Devices : WillPlay(rec, d)' <=> WillPlay(rec, d)
    BY <1>2, <1>4 DEF SameMachine, WillPlay
  <2>2. rec.snapshot = None /\ (rec.prg => rec.av)
    BY <1>1, <1>8 DEF IInv, MachineInv
  <2> QED
    BY <1>1, <1>2, <1>4, <1>5, <1>7, <1>9, <2>1, <2>2 DEF IInv, MachineInv, SameMachine
<1>16. IInv'
  BY <1>1, <1>2, <1>3, <1>4, <1>6, <1>7, <1>10, <1>11, <1>12, <1>13, <1>14, <1>15, TheUi, UiSteps DEF UiPcs
<1> QED
  BY <1>2, <1>4, <1>16

----------------------------------------------------------------------------
(***************************************************************************)
(* The invariant, from Init through every step.                            *)
(***************************************************************************)
LEMMA InitInv ==
    ASSUME Init
    PROVE  IInv
<1>1. /\ proc = IdleProc /\ ui = IdleUi /\ ret = "idle" /\ lock = "none" /\ alive = TRUE
      /\ rec = NoRecording /\ setting = Flags(NoRecording) /\ owed = 0 /\ stray = FALSE
  BY DEF Init
<1>2. DOMAIN rec.disk = {}
  BY <1>1, EmptyIsSeq DEF NoRecording
<1>3. \A f \in Files : rec.file[f] = None
  BY <1>1 DEF NoRecording
<1>4. /\ rec.frames = FALSE /\ rec.csv = FALSE /\ rec.av = FALSE /\ rec.video = FALSE /\ rec.prg = FALSE
      /\ rec.session = 0 /\ rec.sessions = 0 /\ rec.audioBytes = 0 /\ rec.drops = 0 /\ rec.segment = NoSegment
      /\ rec.writer = NoWriter /\ rec.snapshot = None /\ rec.jobs = <<>> /\ rec.playing = {}
      /\ \A d \in Devices : rec.mixer[d] = UserVolume[d]
  BY <1>1 DEF NoRecording
<1>5. IsRecorder(rec)
  <2>1. rec.host \in Devices
    <3>1. \E d : d \in Devices
      BY RecorderAssumption
    <3>2. (CHOOSE d \in Devices : TRUE) \in Devices
      BY <3>1
    <3> QED
      BY <1>1, <3>2 DEF NoRecording
  <2>2. /\ DOMAIN rec = {"frames", "csv", "av", "video", "session", "sessions", "file", "segment", "audioBytes", "writer",
                         "drops", "prg", "snapshot", "jobs", "playing", "disk", "mixer", "host"}
        /\ DOMAIN rec.file = Files /\ DOMAIN rec.mixer = Devices
    BY <1>1 DEF NoRecording
  <2>3. DOMAIN rec.segment = {"index", "fmt", "frames"} /\ {rec.segment.index, rec.segment.frames} \subseteq Nat
    BY <1>4 DEF NoSegment
  <2>4. /\ DOMAIN rec.writer = {"on", "queue", "stopping", "held", "written"}
        /\ {rec.writer.on, rec.writer.stopping} \subseteq BOOLEAN /\ rec.writer.written \in Nat
        /\ IsSeq(rec.writer.queue) /\ IsSeq(rec.writer.held) /\ Len(rec.writer.held) <= 1
    BY <1>4, EmptyIsSeq DEF NoWriter
  <2>5. IsSeq(rec.jobs) /\ \A i \in DOMAIN rec.jobs : FALSE
    BY <1>4, EmptyIsSeq
  <2>6. {rec.frames, rec.csv, rec.av, rec.video, rec.prg} \subseteq BOOLEAN
    BY <1>4, FALSE \in BOOLEAN
  <2>7. {rec.session, rec.sessions, rec.audioBytes, rec.drops} \subseteq Nat /\ rec.playing \subseteq Devices
    BY <1>4
  <2> QED
    BY <1>2, <2>1, <2>2, <2>3, <2>4, <2>5, <2>6, <2>7 DEF IsRecorder
<1>6. ShapeInv
  <2>1. setting \in FlagSets
    <3>1. setting = [frames |-> FALSE, csv |-> FALSE, av |-> FALSE, video |-> FALSE]
      BY <1>1 DEF Flags, NoRecording
    <3>2. setting \in [frames : BOOLEAN, csv : BOOLEAN, av : BOOLEAN, video : BOOLEAN]
      BY <3>1
    <3> QED
      BY <3>2 DEF FlagSets
  <2> QED
    BY <1>1, <1>5, <2>1, IdleSays DEF ShapeInv, UiPcs, ProcPcs
<1>7. ui.pc = "idle" /\ proc.pc = "idle" /\ Heading = "idle" /\ ~VideoOpen
  BY <1>1, <1>3, IdleSays DEF Heading, VideoOpen, Files
<1>8. LockInv
  BY <1>1, <1>4, <1>7 DEF LockInv, NoWriter
<1>9. DiskInv(rec)
  BY <1>2, <1>3, <1>4 DEF DiskInv
<1>10. WriterInv(rec)
  <2>1. ~rec.writer.on /\ rec.writer.queue = <<>> /\ rec.writer.held = <<>>
    BY <1>4 DEF NoWriter
  <2>2. DOMAIN Pipeline(rec) = {}
    <3>1. PICK p : p = Pipeline(rec)
      OBVIOUS
    <3>2. IsSeq(p) /\ Len(p) = 0 + 0
      BY <1>5, <2>1, <3>1, PipelineIsSeq, EmptyIsSeq
    <3>3. p = <<>>
      BY <3>2, SeqFacts
    <3> QED
      BY <3>1, <3>3, EmptyIsSeq
  <2> QED
    BY <1>3, <2>1, <2>2 DEF WriterInv, Files
<1>11. CountInv(rec) /\ ContentInv(rec)
  BY <1>2, <1>4 DEF CountInv, ContentInv, NoWriter
<1>12. SwitchInv
  BY <1>3, <1>4, <1>7 DEF SwitchInv, Files
<1>13. SessionInv
  BY <1>1, <1>4, <1>7 DEF SessionInv
<1>14. NoReuseInv
  BY <1>4, <1>7 DEF NoReuseInv, BeforeCsv, BeforeAv, BeforeVideo
<1>15. RollInv
  BY <1>7 DEF RollInv
<1>16. MachineInv
  <2>1. \A d \in Devices : ~WillPlay(rec, d)
    BY <1>4, EmptyIsSeq DEF WillPlay
  <2> QED
    BY <1>1, <1>4, <1>7, <2>1 DEF MachineInv
<1>17. NothingSilentlyLost
  BY <1>1, <1>4, EmptyIsSeq DEF NothingSilentlyLost, NoWriter
<1> QED
  BY <1>6, <1>8, <1>9, <1>10, <1>11, <1>12, <1>13, <1>14, <1>15, <1>16, <1>17 DEF IInv

LEMMA RecorderSteps ==
    ASSUME IInv, ClosedWindows,
           SaveShot \/ WriteShot \/ Record \/ RollSegment \/ RecordSound \/ Writer
           \/ ClientReady \/ SetMixer \/ SwitchDevice \/ RunJob
    PROVE  IInv' /\ Grows(rec, rec')
<1>1. Renewed = {TRUE}
  BY DEF ClosedWindows, Renewed, Window
<1>2. /\ "rollfail" \notin Windows /\ "diskfull" \notin Windows /\ "mixer" \notin Windows /\ "device" \notin Windows
      /\ {"jobs", "jobfail"} \cap Windows = {}
  BY DEF ClosedWindows
<1> QED
  BY <1>1, <1>2, SaveShotStep, WriteShotStep, RecordStep, RollSegmentStep, RecordSoundStep, TakeFromQueueStep,
     WriteToDiskStep, ClientReadyStep, SetMixerStep, SwitchDeviceStep, RunJobStep DEF Writer

LEMMA SettingsSteps ==
    ASSUME IInv, ClosedWindows, Update \/ Destroy \/ Ui
    PROVE  IInv' /\ Grows(rec, rec')
<1>1. Renewed = {TRUE}
  BY DEF ClosedWindows, Renewed, Window
<1>2. /\ "reuse" \notin Windows /\ "bmp" \notin Windows /\ "avfail" \notin Windows /\ "latestop" \notin Windows
      /\ {"mixer", "mixerfail"} \cap Windows = {}
  BY DEF ClosedWindows
<1>3. ASSUME UpdateFrames \/ UpdateCsv \/ StartCsvFile \/ StopCsvFile \/ UpdateAvSync \/ StartSyncFile \/ SetAvSync
      PROVE  IInv' /\ Grows(rec, rec')
  BY <1>1, <1>2, <1>3, UpdateFramesStep, UpdateCsvStep, StartCsvFileStep, StopCsvFileStep, UpdateAvSyncStep,
     StartSyncFileStep, SetAvSyncStep
<1>4. ASSUME StartProgram \/ ClearAvSync \/ StopSyncFile \/ ResetMachine \/ UpdateVideo \/ TestStart \/ TestStop
             \/ CheckSession
      PROVE  IInv' /\ Grows(rec, rec')
  BY <1>4, StartProgramStep, ClearAvSyncStep, StopSyncFileStep, ResetMachineStep, UpdateVideoStep, UiTests
<1>5. ASSUME StartRecording \/ StopRecording \/ JoinWriter \/ EndSession \/ DestroyRecorder \/ DestroyFiles
      PROVE  IInv' /\ Grows(rec, rec')
  BY <1>1, <1>2, <1>5, StartRecordingStep, StopRecordingStep, JoinWriterStep, EndSessionStep, DestroyRecorderStep,
     DestroyFilesStep
<1> QED
  BY <1>2, <1>3, <1>4, <1>5, UpdateStep, DestroyStep DEF Ui

\* Every step keeps the invariant, and no step takes anything from the disk.
LEMMA NextStep ==
    ASSUME IInv, ClosedWindows, [Next]_vars
    PROVE  IInv' /\ Grows(rec, rec')
<1>1. ASSUME rec' = rec
      PROVE  Grows(rec, rec')
  BY <1>1, TheRecorder, UnchangedGrows
<1>2. CASE UNCHANGED vars
  <2>1. UNCHANGED <<kept, proc, vid>>
    BY <1>2 DEF vars, mediaVars, threadVars, kept
  <2> QED
    BY <1>1, <2>1, NothingHappens DEF kept
<1>3. CASE Next
  <2>1. \/ KeepBack \/ DeviceJumps \/ RecvStrip \/ RecvLate \/ RecvInvalid \/ RecvSound
           \/ PublishSize \/ TestFrames \/ TestVideo \/ TestSound \/ Submit
           \/ RestartStream \/ PopTick \/ SeePop
        \/ SaveShot \/ WriteShot \/ Record \/ RollSegment \/ RecordSound \/ Writer
           \/ ClientReady \/ SetMixer \/ SwitchDevice \/ RunJob
        \/ Update \/ Destroy \/ Ui
    BY <1>3 DEF Next, Processor
  <2> QED
    BY <1>1, <2>1, OtherSteps, RecorderSteps, SettingsSteps
<1> QED
  BY <1>2, <1>3

\* The recorder's invariant holds at every step, whatever the scene does: no frame is lost unseen, no file is
\* written twice, no header claims what is not there (c64-record.c, c64-record-video.c, c64-record-writer.c).
THEOREM RecorderKeepsItsInvariant ==
    ASSUME ClosedWindows
    PROVE  Spec => []IInv
<1>1. Init => IInv
  BY InitInv
<1>2. IInv /\ [Next]_vars => IInv'
  BY NextStep
<1> QED
  BY <1>1, <1>2, PTL DEF Spec

\* The headers on disk: exact in a finished file that fits its header, less than a period behind in an open
\* one, and zero in one that was given up (c64-record-writer.c:70-82, c64-record-video.c:41-54, 93-127,
\* c64-record-audio.c:47-66).
LEMMA HeadersOfInv ==
    ASSUME IInv
    PROVE  HeadersTrue /\ OneFormat
<1>1. IsRecorder(rec) /\ DiskInv(rec) /\ WriterInv(rec) /\ CountInv(rec) /\ ContentInv(rec)
  BY TheRecorder DEF RecordInv
<1>2. ASSUME NEW name \in Videos, ~rec.disk[name].done
      PROVE  rec.disk[name].head <= Len(rec.disk[name].chunks)
             /\ Len(rec.disk[name].chunks) - rec.disk[name].head < HeaderPeriod
  <2>1. name \in DOMAIN rec.disk /\ name[2] = "video"
    BY <1>2 DEF Videos
  <2>2. CASE rec.file["video"] = name
    <3>1. rec.writer.on
      BY <1>1, <2>1, <2>2, NameFacts DEF WriterInv, IsRecorder
    <3>2. PICK w \in Nat : w = rec.writer.written
      BY <1>1 DEF IsRecorder
    <3>3. Len(rec.disk[name].chunks) = w /\ rec.disk[name].head = w - (w % HeaderPeriod)
      BY <1>1, <2>2, <3>1, <3>2 DEF CountInv
    <3>4. PICK p \in Nat \ {0} : p = HeaderPeriod
      BY RecorderAssumption
    <3>5. w % p \in 0 .. p - 1
      BY <3>2, <3>4
    <3>6. w - (w % p) <= w /\ w - (w - (w % p)) < p
      BY <3>2, <3>4, <3>5
    <3> QED
      BY <3>3, <3>4, <3>6
  <2>3. CASE rec.file["video"] # name
    <3>1. rec.disk[name].chunks = <<>> /\ rec.disk[name].head = 0
      BY <1>1, <1>2, <2>1, <2>3 DEF DiskInv, ContentInv
    <3> QED
      BY <3>1, EmptyIsSeq, RecorderAssumption
  <2> QED
    BY <2>2, <2>3
<1>3. ASSUME NEW name \in Videos, rec.disk[name].done
      PROVE  rec.disk[name].head = Len(rec.disk[name].chunks)
  BY <1>1, <1>3 DEF Videos, ContentInv, InHeader
<1>6. ASSUME NEW name \in Sounds, rec.disk[name].done
      PROVE  /\ rec.disk[name].head <= Len(rec.disk[name].chunks)
             /\ rec.disk[name].head < Len(rec.disk[name].chunks) => rec.disk[name].head = MaxWav
  <2>1. rec.disk[name].head = InHeader("audio", Len(rec.disk[name].chunks))
    BY <1>1, <1>6 DEF Sounds, ContentInv
  <2>2. IsSeq(rec.disk[name].chunks)
    BY <1>1, <1>6 DEF Sounds, IsRecorder, IsFile
  <2>3. PICK n \in Nat : n = Len(rec.disk[name].chunks)
    BY <2>2, SeqFacts
  <2> QED
    BY <2>1, <2>3, RecorderAssumption DEF InHeader
<1>4. HeadersTrue
  BY <1>2, <1>3, <1>6 DEF HeadersTrue
<1>5. OneFormat
  BY <1>1 DEF OneFormat, Videos, ContentInv
<1> QED
  BY <1>4, <1>5

\* Between two calls (c64-record.c:499-595).
LEMMA SessionOfInv ==
    ASSUME IInv
    PROVE  SessionOfRecording /\ ShotsInSession
<1>1. IsRecorder(rec) /\ DiskInv(rec) /\ WriterInv(rec)
  BY TheRecorder DEF RecordInv
<1>2. ASSUME Quiet
      PROVE  /\ rec.session # 0 => AnyActive(rec)
             /\ \A f \in {"video", "audio"} : rec.video <=> rec.file[f] # None
             /\ rec.video <=> rec.writer.on
             /\ \A f \in {"obs", "net"} : rec.file[f] # None => rec.csv
             /\ rec.av <=> rec.file["sync"] # None
  BY <1>1, <1>2 DEF Quiet, IInv, SwitchInv, SessionInv, WriterInv, VideoOpen
<1>3. \A f \in Files : rec.file[f] # None =>
         rec.session # 0 /\ rec.file[f][1] = rec.session /\ ~rec.disk[rec.file[f]].done
  <2>1. \A f : Handle(rec, f)[1] = rec.session
    BY DEF Handle, Segment, Name
  <2> QED
    BY <1>1, <2>1 DEF DiskInv
<1>4. SessionOfRecording
  BY <1>2, <1>3 DEF SessionOfRecording
<1> QED
  BY <1>4 DEF IInv, SessionInv, ShotsInSession

\* What the recorder does to the machine (c64-record.c:181-217, 1075-1110).
LEMMA MachineOfInv ==
    ASSUME IInv, ClosedWindows
    PROVE  MixerRestored /\ ProgramStopped
<1>1. MachineInv /\ SwitchInv /\ IsRecorder(rec)
  BY TheRecorder DEF IInv
<1>2. MixerRestored
  <2>1. ASSUME Quiet \/ ui.pc = "end", ~rec.av \/ ui.pc = "end"
        PROVE  \A d \in Devices : rec.mixer[d] = UserVolume[d]
    BY <1>1, <2>1 DEF MachineInv, Quiet
  <2>2. ui.pc = "end" => \A f \in Files : rec.file[f] = None
    BY <1>1 DEF SwitchInv
  <2> QED
    BY <2>1, <2>2 DEF MixerRestored
<1>3. ASSUME Quiet \/ ui.pc = "end", ~rec.av, rec.jobs = <<>>, NEW d \in rec.playing
      PROVE  FALSE
  <2>1. d \in Devices
    BY <1>1 DEF IsRecorder
  <2>2. WillPlay(rec, d)
    BY <1>3, EmptyIsSeq DEF WillPlay
  <2>3. ui.pc \in {"idle", "end"} /\ Heading = ui.pc
    BY <1>3 DEF Quiet, Heading
  <2> QED
    BY <1>1, <1>3, <2>1, <2>2, <2>3 DEF MachineInv
<1>4. ~Window("leftover")
  BY DEF ClosedWindows, Window
<1>5. ProgramStopped
  BY <1>3, <1>4 DEF ProgramStopped
<1> QED
  BY <1>2, <1>5

\* The recorder: its headers, its segments, its count of what was lost, its sessions, the mixer and the
\* program (RecorderInv says which code each is about).
THEOREM RecorderIsCorrect ==
    ASSUME ClosedWindows
    PROVE  Spec => []RecorderInv
<1>1. ASSUME IInv
      PROVE  TypeOK
  <2>1. IsRecorder(rec) /\ NothingSilentlyLost
    BY <1>1, TheRecorder DEF IInv
  <2>2. Len(rec.writer.queue) \in Nat /\ Len(rec.writer.held) \in Nat /\ rec.drops \in Nat
    BY <2>1, SeqFacts DEF IsRecorder
  <2>3. owed \in Nat
    BY <2>1, <2>2 DEF NothingSilentlyLost
  <2> QED
    BY <1>1, <2>2, <2>3 DEF IInv, ShapeInv, LockInv, TypeOK
<1>2. IInv => RecorderInv
  BY <1>1, HeadersOfInv, SessionOfInv, MachineOfInv DEF RecorderInv, IInv
<1> QED
  BY <1>2, RecorderKeepsItsInvariant, PTL

\* What is on disk stays there (c64-record.c:444-499, 796-803, c64-record-video.c:29-93).
THEOREM FilesOnlyEverGrow ==
    ASSUME ClosedWindows
    PROVE  Spec => FilesOnlyGrow
<1>1. ASSUME IInv, [Next]_vars
      PROVE  [\A name \in DOMAIN rec.disk :
                 /\ name \in DOMAIN rec'.disk
                 /\ IF rec.disk[name].done THEN rec'.disk[name] = rec.disk[name]
                    ELSE IsPrefix(rec.disk[name].chunks, rec'.disk[name].chunks)]_rec
  BY <1>1, NextStep DEF Grows
<1> QED
  BY <1>1, RecorderKeepsItsInvariant, PTL DEF Spec, FilesOnlyGrow
=============================================================================
