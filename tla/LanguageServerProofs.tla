------------------------- MODULE LanguageServerProofs -------------------------
(* Proofs about LanguageServer, for any files, imports and texts and however *)
(* many notifications the editor sends.                                     *)
EXTENDS LanguageServer, SequenceTheorems, TLAPS

(* A task publishes for its own file last. *)
Todo(t) ==
    IF t.pc = "publishing" THEN t.todo # <<>> /\ t.todo[Len(t.todo)] = t.file
                           ELSE t.todo = <<>>

TaskType ==
    [id : Nat, file : Files, version : Nat,
     pc : {"sleeping", "reading", "analysing", "publishing"},
     text : Texts \cup {Closed}, todo : Seq(Files)]

TypeOK ==
    /\ documents \in [Files -> Texts \cup {Closed}]
    /\ change_versions \in [Files -> Nat] /\ counting \in [Files -> Nat]
    /\ tasks \subseteq TaskType
    /\ notes \in Nat
    /\ shown \in [Files -> [by : Files, text : Texts \cup {Closed}]]
    /\ reported \subseteq Files /\ overtaken \subseteq Files

(* What a task may be at: no version is ahead of the count, only changes    *)
(* sleep.                                                                   *)
TasksInv ==
    \A t \in tasks :
        /\ Todo(t)
        /\ t.version <= change_versions[t.file]
        /\ t.pc = "sleeping" => t.version # OnChangeOnly

-----------------------------------------------------------------------------
(* That the last text is reported. *)

Newest(t) == t.version = change_versions[t.file]

(* A task that will report the text its file has now, if nothing happens to *)
(* the file.                                                                *)
Promises(t) ==
    \/ t.pc = "reading" /\ ~Superseded(t)
    \/ t.pc = "analysing" /\ ~Superseded(t) /\ t.text = documents[t.file]
    \/ t.pc = "publishing" /\ t.text = documents[t.file]

Awaited(f) == counting[f] > 0 \/ \E t \in Of(f) : t.pc = "sleeping" /\ Newest(t)

WillReport(f) ==
    documents[f] \notin Panicking \cup {Closed} =>
        f \in reported \/ Awaited(f) \/ \E t \in Of(f) : Promises(t)

-----------------------------------------------------------------------------
(* That it is what is shown. *)

(* A task at work on a text that its file has no more. *)
Stale(f) == {t \in InFlight(f) : t.text # documents[f]}

(* A file that was not overtaken: only analyses that changes started are at *)
(* work on an old text, and the guard will stop those.                      *)
WillStop(f) ==
    f \notin overtaken => \A t \in Stale(f) :
        /\ documents[f] # Closed
        /\ t.version # OnChangeOnly
        /\ t.pc = "analysing"
        /\ counting[f] = 0 => t.version < change_versions[f]

ShowsLast(f) == shown[f].by = f => shown[f].text = documents[f]

(* What a file shows is right, or a task will put it right.  A closed file  *)
(* is put right by the task of the close.                                   *)
WillShow(f) ==
    f \notin overtaken /\ documents[f] \notin Panicking =>
        \/ ShowsLast(f)
        \/ documents[f] # Closed /\ Awaited(f)
        \/ \E t \in Of(f) :
              Promises(t) /\ (documents[f] = Closed => t.pc = "publishing")

FileInv(f) == WillReport(f) /\ WillStop(f) /\ WillShow(f)

IInv == TypeOK /\ TasksInv /\ \A f \in Files : FileInv(f)

-----------------------------------------------------------------------------

LEMMA ShortSequences ==
    ASSUME NEW S, NEW x \in S, NEW y \in S
    PROVE  <<x>> \in Seq(S) /\ <<y, x>> \in Seq(S)
OBVIOUS

(* The same task at another place of its way. *)
Moves(t, new) ==
    /\ new \in TaskType
    /\ new.id = t.id /\ new.file = t.file /\ new.version = t.version

LEMMA ToReading ==
    ASSUME NEW t \in TaskType, t.pc = "sleeping"
    PROVE  /\ Moves(t, [t EXCEPT !.pc = "reading"])
           /\ [t EXCEPT !.pc = "reading"].pc = "reading"
           /\ [t EXCEPT !.pc = "reading"].text = t.text
           /\ [t EXCEPT !.pc = "reading"].todo = t.todo
BY DEF Moves, TaskType

LEMMA ToAnalysing ==
    ASSUME NEW t \in TaskType, NEW text \in Texts \cup {Closed}
    PROVE  /\ Moves(t, [t EXCEPT !.pc = "analysing", !.text = text])
           /\ [t EXCEPT !.pc = "analysing", !.text = text].pc = "analysing"
           /\ [t EXCEPT !.pc = "analysing", !.text = text].text = text
           /\ [t EXCEPT !.pc = "analysing", !.text = text].todo = t.todo
BY DEF Moves, TaskType

LEMMA ToPublishing ==
    ASSUME NEW t \in TaskType, NEW todo \in Seq(Files)
    PROVE  /\ Moves(t, [t EXCEPT !.pc = "publishing", !.todo = todo])
           /\ [t EXCEPT !.pc = "publishing", !.todo = todo].pc = "publishing"
           /\ [t EXCEPT !.pc = "publishing", !.todo = todo].text = t.text
           /\ [t EXCEPT !.pc = "publishing", !.todo = todo].todo = todo
BY DEF Moves, TaskType

LEMMA ToNext ==
    ASSUME NEW t \in TaskType, NEW todo \in Seq(Files)
    PROVE  /\ Moves(t, [t EXCEPT !.todo = todo])
           /\ [t EXCEPT !.todo = todo].pc = t.pc
           /\ [t EXCEPT !.todo = todo].text = t.text
           /\ [t EXCEPT !.todo = todo].todo = todo
BY DEF Moves, TaskType

(* What a step of a task makes of it. *)
LEMMA WakeMoves ==
    ASSUME TypeOK, NEW t \in tasks, Wake(t)
    PROVE  \/ ~Newest(t) /\ tasks' = tasks \ {t}
           \/ Newest(t) /\ \E new \in TaskType :
                /\ tasks' = (tasks \ {t}) \cup {new} /\ Moves(t, new)
                /\ new.pc = "reading" /\ new.text = t.text /\ new.todo = t.todo
<1>1. t \in TaskType
  BY DEF TypeOK
<1>2. CASE Newest(t)
  <2> DEFINE new == [t EXCEPT !.pc = "reading"]
  <2>1. tasks' = (tasks \ {t}) \cup {new}
    BY <1>2 DEF Wake, Becomes, Newest
  <2>2. Moves(t, new) /\ new.pc = "reading" /\ new.text = t.text /\ new.todo = t.todo
    BY <1>1, ToReading DEF Wake
  <2> HIDE DEF new
  <2>3. QED
    BY <1>2, <2>1, <2>2 DEF Moves
<1>3. CASE ~Newest(t)
  BY <1>3 DEF Wake, Leave, Newest
<1>4. QED
  BY <1>2, <1>3

LEMMA ReadMoves ==
    ASSUME TypeOK, NEW t \in tasks, ReadText(t)
    PROVE  \/ documents[t.file] = Closed /\ tasks' = tasks \ {t}
           \/ documents[t.file] # Closed /\ \E new \in TaskType :
                /\ tasks' = (tasks \ {t}) \cup {new} /\ Moves(t, new)
                /\ new.pc = "analysing" /\ new.text = documents[t.file]
                /\ new.todo = t.todo
<1>1. t \in TaskType /\ documents[t.file] \in Texts \cup {Closed}
  BY DEF TypeOK, TaskType
<1>2. CASE documents[t.file] # Closed
  <2> DEFINE new == [t EXCEPT !.pc = "analysing", !.text = documents[t.file]]
  <2>1. tasks' = (tasks \ {t}) \cup {new}
    BY <1>2 DEF ReadText, Becomes
  <2>2. /\ Moves(t, new) /\ new.pc = "analysing" /\ new.text = documents[t.file]
        /\ new.todo = t.todo
    BY <1>1, ToAnalysing
  <2> HIDE DEF new
  <2>3. QED
    BY <1>2, <2>1, <2>2 DEF Moves
<1>3. CASE documents[t.file] = Closed
  BY <1>3 DEF ReadText, Leave
<1>4. QED
  BY <1>2, <1>3

LEMMA AnalysisMoves ==
    ASSUME TypeOK, NEW t \in tasks, EndAnalysis(t)
    PROVE  \/ /\ t.text \in Panicking \/ Superseded(t)
              /\ tasks' = tasks \ {t} /\ UNCHANGED overtaken
           \/ /\ ~(t.text \in Panicking \/ Superseded(t))
              /\ overtaken' = IF t.text # documents[t.file] /\ counting[t.file] > 0
                                THEN overtaken \cup {t.file} ELSE overtaken
              /\ \E new \in TaskType :
                   /\ tasks' = (tasks \ {t}) \cup {new} /\ Moves(t, new)
                   /\ new.pc = "publishing" /\ new.text = t.text
                   /\ Todo(new)
<1>1. t \in TaskType
  BY DEF TypeOK
<1>2. ASSUME NEW todo \in Found(t)
      PROVE  /\ todo \in Seq(Files) /\ todo # <<>> /\ todo[Len(todo)] = t.file
  <2>1. t.file \in Files /\ Imports[t.file] \subseteq Files
    BY <1>1, ImportsAssumption DEF TaskType
  <2>2. CASE todo = <<t.file>>
    BY <2>1, <2>2
  <2>3. ASSUME NEW g \in Imports[t.file], todo = <<g, t.file>>
        PROVE  /\ todo \in Seq(Files) /\ todo # <<>> /\ todo[Len(todo)] = t.file
    BY <2>1, <2>3
  <2>4. QED
    BY <2>2, <2>3 DEF Found
<1>3. CASE ~(t.text \in Panicking \/ Superseded(t))
  <2>1. PICK todo \in Found(t) :
            tasks' = (tasks \ {t}) \cup {[t EXCEPT !.pc = "publishing", !.todo = todo]}
    BY <1>3 DEF EndAnalysis, Becomes
  <2> DEFINE new == [t EXCEPT !.pc = "publishing", !.todo = todo]
  <2>2. todo \in Seq(Files) /\ todo # <<>> /\ todo[Len(todo)] = t.file
    BY <1>2
  <2>3. /\ Moves(t, new) /\ new.pc = "publishing" /\ new.text = t.text
        /\ new.todo = todo
    BY <1>1, <2>2, ToPublishing
  <2>4. tasks' = (tasks \ {t}) \cup {new}
    BY <2>1
  <2> HIDE DEF new
  <2>5. Todo(new)
    BY <2>2, <2>3 DEF Todo, Moves
  <2>6. overtaken' = IF t.text # documents[t.file] /\ counting[t.file] > 0
                       THEN overtaken \cup {t.file} ELSE overtaken
    BY <1>3 DEF EndAnalysis
  <2>7. QED
    BY <1>3, <2>3, <2>4, <2>5, <2>6 DEF Moves
<1>4. CASE t.text \in Panicking \/ Superseded(t)
  BY <1>4 DEF EndAnalysis, Leave
<1>5. QED
  BY <1>3, <1>4

LEMMA LastOfTail ==
    ASSUME NEW s \in Seq(Files), Len(s) # 1, s # <<>>
    PROVE  Tail(s) # <<>> /\ Tail(s)[Len(Tail(s))] = s[Len(s)]
<1>1. Len(s) \in Nat \ {0, 1}
  BY LenProperties, EmptySeq
<1>2. /\ Tail(s) \in Seq(Files) /\ Len(Tail(s)) = Len(s) - 1
      /\ \A i \in 1 .. Len(Tail(s)) : Tail(s)[i] = s[i + 1]
  BY HeadTailProperties
<1>3. Tail(s) # <<>>
  <2>1. Len(Tail(s)) # 0
    BY <1>1, <1>2
  <2>2. Len(<<>>) = 0
    OBVIOUS
  <2>3. QED
    BY <2>1, <2>2
<1>4. Len(Tail(s)) \in 1 .. Len(Tail(s)) /\ Len(Tail(s)) + 1 = Len(s)
  BY <1>1, <1>2
<1>5. QED
  BY <1>2, <1>3, <1>4

(* The last message of a task is about its own file. *)
LEMMA PublishMoves ==
    ASSUME TypeOK, TasksInv, NEW t \in tasks, Publish(t)
    PROVE  /\ t.pc = "publishing" /\ Head(t.todo) \in Files
           /\ \/ tasks' = tasks \ {t} /\ Head(t.todo) = t.file
              \/ \E new \in TaskType :
                   /\ tasks' = (tasks \ {t}) \cup {new} /\ Moves(t, new)
                   /\ new.pc = "publishing" /\ new.text = t.text
                   /\ Todo(new)
<1>1. /\ t \in TaskType /\ t.pc = "publishing" /\ t.todo \in Seq(Files)
      /\ t.todo # <<>> /\ t.todo[Len(t.todo)] = t.file
  BY DEF TypeOK, TasksInv, Publish, Todo, TaskType
<1>2. Head(t.todo) \in Files /\ Tail(t.todo) \in Seq(Files)
  BY <1>1, HeadTailProperties
<1>3. CASE Len(t.todo) = 1
  <2>1. Head(t.todo) = t.file
    BY <1>1, <1>3
  <2>2. QED
    BY <1>1, <1>2, <1>3, <2>1 DEF Publish, Leave
<1>4. CASE Len(t.todo) # 1
  <2> DEFINE new == [t EXCEPT !.todo = Tail(t.todo)]
  <2>1. tasks' = (tasks \ {t}) \cup {new}
    BY <1>4 DEF Publish, Becomes
  <2>2. Tail(t.todo) # <<>> /\ Tail(t.todo)[Len(Tail(t.todo))] = t.file
    BY <1>1, <1>4, LastOfTail
  <2>3. /\ Moves(t, new) /\ new.pc = "publishing" /\ new.text = t.text
        /\ new.todo = Tail(t.todo)
    BY <1>1, <1>2, ToNext
  <2> HIDE DEF new
  <2>4. Todo(new)
    BY <2>2, <2>3 DEF Todo, Moves
  <2>5. QED
    BY <1>1, <1>2, <2>1, <2>3, <2>4 DEF Moves
<1>5. QED
  BY <1>3, <1>4

LEMMA NewTask ==
    ASSUME TypeOK, NEW f \in Files, NEW version \in Nat, NEW pc \in {"reading", "sleeping"}
    PROVE  Task(f, version, pc) \in TaskType
BY DEF Task, TypeOK, TaskType

LEMMA CloseTask ==
    ASSUME TypeOK, NEW f \in Files
    PROVE  /\ [Task(f, OnChangeOnly, "publishing") EXCEPT !.todo = <<f>>] \in TaskType
           /\ [Task(f, OnChangeOnly, "publishing") EXCEPT !.todo = <<f>>]
                = [id |-> notes, file |-> f, version |-> 0, pc |-> "publishing",
                   text |-> Closed, todo |-> <<f>>]
<1>1. <<f>> \in Seq(Files)
  BY ShortSequences
<1>2. [Task(f, OnChangeOnly, "publishing") EXCEPT !.todo = <<f>>]
        = [id |-> notes, file |-> f, version |-> 0, pc |-> "publishing",
           text |-> Closed, todo |-> <<f>>]
  BY DEF Task, OnChangeOnly
<1>3. QED
  <2>1. [id |-> notes, file |-> f, version |-> 0, pc |-> "publishing",
         text |-> Closed, todo |-> <<f>>] \in TaskType
    BY <1>1 DEF TypeOK, TaskType
  <2>2. QED
    BY <1>2, <2>1

LEMMA InitIInv == Init => IInv
BY DEF Init, IInv, TypeOK, TasksInv, FileInv, WillReport, WillStop, WillShow,
       ShowsLast, Stale, InFlight, Of

LEMMA NextTypes == TypeOK /\ TasksInv /\ [Next]_vars => TypeOK'
<1> SUFFICES ASSUME TypeOK, TasksInv, [Next]_vars PROVE TypeOK'
  OBVIOUS
<1> USE DEF TypeOK
<1>1. ASSUME NEW f \in Files, did_open(f) PROVE TypeOK'
  <2>1. Task(f, OnChangeOnly, "reading") \in TaskType
    BY NewTask DEF OnChangeOnly
  <2>2. QED
    BY <1>1, <2>1, NotesAssumption DEF did_open, Notified, Replace
<1>2. ASSUME NEW f \in Files, did_change(f) PROVE TypeOK'
  BY <1>2, NotesAssumption DEF did_change, Notified, Replace
<1>3. ASSUME NEW f \in Files, CountChange(f) PROVE TypeOK'
  <2>1. Task(f, change_versions'[f], "sleeping") \in TaskType
    BY <1>3, NewTask DEF CountChange
  <2>2. QED
    BY <1>3, <2>1 DEF CountChange
<1>4. ASSUME NEW f \in Files, did_save(f) PROVE TypeOK'
  <2>1. Task(f, OnChangeOnly, "reading") \in TaskType
    BY NewTask DEF OnChangeOnly
  <2>2. QED
    BY <1>4, <2>1, NotesAssumption DEF did_save, Notified
<1>5. ASSUME NEW f \in Files, did_close(f) PROVE TypeOK'
  <2>1. tasks' \subseteq TaskType
    BY <1>5, CloseTask DEF did_close
  <2>2. QED
    BY <1>5, <2>1, NotesAssumption DEF did_close, Notified, Replace
<1>6. ASSUME NEW t \in tasks, Wake(t) PROVE TypeOK'
  BY <1>6, WakeMoves DEF Wake
<1>7. ASSUME NEW t \in tasks, ReadText(t) PROVE TypeOK'
  BY <1>7, ReadMoves DEF ReadText
<1>8. ASSUME NEW t \in tasks, EndAnalysis(t) PROVE TypeOK'
  <2>1. tasks' \subseteq TaskType
    BY <1>8, AnalysisMoves
  <2>2. t.file \in Files
    BY DEF TaskType
  <2>3. overtaken' \subseteq Files
    BY <1>8, <2>2, AnalysisMoves
  <2>4. QED
    BY <1>8, <2>1, <2>3 DEF EndAnalysis
<1>9. ASSUME NEW t \in tasks, Publish(t) PROVE TypeOK'
  <2>1. Head(t.todo) \in Files /\ tasks' \subseteq TaskType
    BY <1>9, PublishMoves
  <2>2. t.file \in Files /\ t.text \in Texts \cup {Closed}
    BY DEF TaskType
  <2>3. shown' \in [Files -> [by : Files, text : Texts \cup {Closed}]]
    BY <1>9, <2>1, <2>2 DEF Publish
  <2>4. QED
    BY <1>9, <2>1, <2>2, <2>3 DEF Publish
<1>10. CASE UNCHANGED vars
  BY <1>10 DEF vars
<1>11. QED
  BY <1>1, <1>2, <1>3, <1>4, <1>5, <1>6, <1>7, <1>8, <1>9, <1>10 DEF Next

LEMMA OneMoves ==
    ASSUME TypeOK, TasksInv, NEW t \in tasks, UNCHANGED change_versions,
           \/ tasks' = tasks \ {t}
           \/ \E new \in TaskType :
                 /\ tasks' = (tasks \ {t}) \cup {new} /\ Moves(t, new)
                 /\ new.pc # "sleeping" /\ Todo(new)
    PROVE  TasksInv'
<1>1. CASE tasks' = tasks \ {t}
  BY <1>1 DEF TasksInv, Todo
<1>2. ASSUME NEW new \in TaskType, tasks' = (tasks \ {t}) \cup {new}, Moves(t, new),
             new.pc # "sleeping", Todo(new)
      PROVE  TasksInv'
  <2>1. new.version <= change_versions[new.file]
    BY <1>2 DEF TasksInv, Moves
  <2>2. QED
    BY <1>2, <2>1 DEF TasksInv, Todo
<1>3. QED
  BY <1>1, <1>2

LEMMA NextTasks == TypeOK /\ TasksInv /\ [Next]_vars => TasksInv'
<1> SUFFICES ASSUME TypeOK, TasksInv, [Next]_vars PROVE TasksInv'
  OBVIOUS
<1> USE DEF TasksInv
<1>0. /\ tasks \subseteq TaskType /\ notes \in Nat
      /\ change_versions \in [Files -> Nat] /\ counting \in [Files -> Nat]
  BY DEF TypeOK
<1>1. ASSUME NEW f \in Files, did_open(f) PROVE TasksInv'
  BY <1>0, <1>1 DEF did_open, Task, Todo, OnChangeOnly
<1>2. ASSUME NEW f \in Files, did_change(f) PROVE TasksInv'
  BY <1>2 DEF did_change, Todo
<1>3. ASSUME NEW f \in Files, CountChange(f) PROVE TasksInv'
  <2>1. \A g \in Files : change_versions[g] <= change_versions'[g]
    BY <1>0, <1>3 DEF CountChange
  <2>2. ASSUME NEW t \in tasks
        PROVE  Todo(t) /\ t.version <= change_versions'[t.file]
               /\ (t.pc = "sleeping" => t.version # OnChangeOnly)
    <3>1. /\ t.file \in Files /\ t.version \in Nat
          /\ change_versions[t.file] \in Nat /\ change_versions'[t.file] \in Nat
      BY <1>0, <1>3 DEF TaskType, CountChange
    <3>2. QED
      BY <2>1, <3>1
  <2>3. change_versions'[f] \in Nat \ {0}
    BY <1>0, <1>3 DEF CountChange
  <2>4. QED
    BY <1>3, <2>2, <2>3 DEF CountChange, Task, Todo, OnChangeOnly
<1>4. ASSUME NEW f \in Files, did_save(f) PROVE TasksInv'
  BY <1>0, <1>4 DEF did_save, Task, Todo, OnChangeOnly
<1>5. ASSUME NEW f \in Files, did_close(f) PROVE TasksInv'
  <2> DEFINE new == [Task(f, OnChangeOnly, "publishing") EXCEPT !.todo = <<f>>]
  <2>1. new.pc = "publishing" /\ new.version = 0 /\ new.file = f /\ new.todo = <<f>>
    BY CloseTask
  <2>2. Todo(new) /\ new.version <= change_versions[new.file]
    BY <1>0, <2>1 DEF Todo
  <2>3. tasks' = tasks \cup {new} /\ change_versions' = change_versions
    BY <1>5 DEF did_close
  <2>4. QED
    BY <2>1, <2>2, <2>3 DEF Todo
<1>6. ASSUME NEW t \in tasks, Wake(t) PROVE TasksInv'
  <2>1. \/ tasks' = tasks \ {t}
        \/ \E new \in TaskType :
              /\ tasks' = (tasks \ {t}) \cup {new} /\ Moves(t, new)
              /\ new.pc # "sleeping" /\ Todo(new)
    <3>1. t.pc = "sleeping" /\ t.todo = <<>>
      BY <1>6 DEF Wake, Todo
    <3>2. \A new \in TaskType :
             new.pc \in {"reading", "analysing"} /\ new.todo = t.todo => Todo(new)
      BY <3>1 DEF Todo
    <3>3. QED
      BY <1>6, <3>2, WakeMoves
  <2>2. QED
    BY <1>6, <2>1, OneMoves DEF Wake
<1>7. ASSUME NEW t \in tasks, ReadText(t) PROVE TasksInv'
  <2>1. \/ tasks' = tasks \ {t}
        \/ \E new \in TaskType :
              /\ tasks' = (tasks \ {t}) \cup {new} /\ Moves(t, new)
              /\ new.pc # "sleeping" /\ Todo(new)
    <3>1. t.pc = "reading" /\ t.todo = <<>>
      BY <1>7 DEF ReadText, Todo
    <3>2. \A new \in TaskType :
             new.pc \in {"reading", "analysing"} /\ new.todo = t.todo => Todo(new)
      BY <3>1 DEF Todo
    <3>3. QED
      BY <1>7, <3>2, ReadMoves
  <2>2. QED
    BY <1>7, <2>1, OneMoves DEF ReadText
<1>8. ASSUME NEW t \in tasks, EndAnalysis(t) PROVE TasksInv'
  <2>1. \/ tasks' = tasks \ {t}
        \/ \E new \in TaskType :
              /\ tasks' = (tasks \ {t}) \cup {new} /\ Moves(t, new)
              /\ new.pc # "sleeping" /\ Todo(new)
    BY <1>8, AnalysisMoves DEF EndAnalysis, Todo
  <2>2. QED
    BY <1>8, <2>1, OneMoves DEF EndAnalysis
<1>9. ASSUME NEW t \in tasks, Publish(t) PROVE TasksInv'
  <2>1. \/ tasks' = tasks \ {t}
        \/ \E new \in TaskType :
              /\ tasks' = (tasks \ {t}) \cup {new} /\ Moves(t, new)
              /\ new.pc # "sleeping" /\ Todo(new)
    BY <1>9, PublishMoves
  <2>2. QED
    BY <1>9, <2>1, OneMoves DEF Publish
<1>10. CASE UNCHANGED vars
  BY <1>10 DEF vars, Todo
<1>11. QED
  BY <1>1, <1>2, <1>3, <1>4, <1>5, <1>6, <1>7, <1>8, <1>9, <1>10 DEF Next

-----------------------------------------------------------------------------

(* What a file's part of the invariant depends on. *)
LEMMA Unaffected ==
    ASSUME NEW f \in Files, FileInv(f), Of(f)' = Of(f),
           documents'[f] = documents[f], counting'[f] = counting[f],
           change_versions'[f] = change_versions[f],
           f \in reported' <=> f \in reported, f \in overtaken' <=> f \in overtaken,
           shown'[f] = shown[f] \/ shown'[f].by # f
    PROVE  FileInv(f)'
<1>1. /\ InFlight(f)' = InFlight(f) /\ Stale(f)' = Stale(f)
      /\ ShowsLast(f) => ShowsLast(f)'
  BY DEF InFlight, Stale, ShowsLast
<1>2. \A t \in Of(f) : /\ (Newest(t)' <=> Newest(t))
                       /\ (Promises(t)' <=> Promises(t))
  BY DEF Of, Newest, Promises, Superseded
<1>3. Awaited(f)' <=> Awaited(f)
  BY <1>2 DEF Awaited
<1>4. WillReport(f)'
  BY <1>2, <1>3 DEF FileInv, WillReport
<1>5. WillStop(f)'
  BY <1>1 DEF FileInv, WillStop
<1>6. WillShow(f)'
  BY <1>1, <1>2, <1>3 DEF FileInv, WillShow
<1>7. QED
  BY <1>4, <1>5, <1>6 DEF FileInv

(* The notifications. *)
LEMMA OpenKeeps ==
    ASSUME IInv, NEW f \in Files, did_open(f)
    PROVE  \A g \in Files : FileInv(g)'
<1>0. PICK new : new = Task(f, OnChangeOnly, "reading")
  OBVIOUS
<1>1. new.file = f /\ new.pc = "reading" /\ new.version = OnChangeOnly
  BY <1>0 DEF Task
<1>2. tasks' = tasks \cup {new}
  BY <1>0 DEF did_open
<1>3. ASSUME NEW g \in Files \ {f} PROVE FileInv(g)'
  <2>1. Of(g)' = Of(g)
    BY <1>1, <1>2 DEF Of
  <2>2. /\ documents'[g] = documents[g] /\ shown' = shown
        /\ g \in reported' <=> g \in reported
        /\ g \in overtaken' <=> g \in overtaken
    BY DEF did_open, Replace, IInv, TypeOK
  <2>3. QED
    BY <2>1, <2>2, Unaffected DEF did_open, IInv
<1>4. new \in Of(f)' /\ Of(f)' = Of(f) \cup {new} /\ InFlight(f)' = InFlight(f)
  BY <1>1, <1>2 DEF Of, InFlight
<1>5. Promises(new)'
  BY <1>1 DEF Promises, Superseded
<1>6. documents'[f] \in Texts
  BY DEF did_open, Replace, IInv, TypeOK
<1>7. f \notin overtaken' => Stale(f)' = {}
  BY <1>4 DEF did_open, Replace, Stale
<1>8. FileInv(f)'
  <2>1. WillReport(f)'
    BY <1>4, <1>5 DEF WillReport
  <2>2. WillStop(f)'
    BY <1>7 DEF WillStop
  <2>3. WillShow(f)'
    BY <1>4, <1>5, <1>6, ClosedAssumption DEF WillShow
  <2>4. QED
    BY <2>1, <2>2, <2>3 DEF FileInv
<1>9. QED
  BY <1>3, <1>8

LEMMA ChangeKeeps ==
    ASSUME IInv, NEW f \in Files, did_change(f)
    PROVE  \A g \in Files : FileInv(g)'
<1>1. ASSUME NEW g \in Files \ {f} PROVE FileInv(g)'
  <2>1. Of(g)' = Of(g)
    BY DEF did_change, Of
  <2>2. /\ documents'[g] = documents[g] /\ shown' = shown
        /\ counting'[g] = counting[g]
        /\ g \in reported' <=> g \in reported
        /\ g \in overtaken' <=> g \in overtaken
    BY DEF did_change, Replace, IInv, TypeOK
  <2>3. QED
    BY <2>1, <2>2, Unaffected DEF did_change, IInv
<1>2. documents'[f] \in Texts
  BY DEF did_change, Replace, IInv, TypeOK
<1>3. counting'[f] > 0
  BY DEF did_change, IInv, TypeOK
<1>4. f \notin overtaken' => \A t \in InFlight(f)' :
         t.version # OnChangeOnly /\ t.pc = "analysing"
  BY DEF did_change, Replace, Unstoppable, InFlight, Of
<1>5. FileInv(f)'
  <2>1. WillReport(f)'
    BY <1>3 DEF WillReport, Awaited
  <2>2. WillStop(f)'
    <3>1. counting'[f] # 0
      BY <1>3 DEF did_change, IInv, TypeOK
    <3>2. QED
      BY <1>2, <3>1, <1>4, ClosedAssumption DEF WillStop, Stale
  <2>3. WillShow(f)'
    BY <1>2, <1>3, ClosedAssumption DEF WillShow, Awaited
  <2>4. QED
    BY <2>1, <2>2, <2>3 DEF FileInv
<1>6. QED
  BY <1>1, <1>5

LEMMA CountKeeps ==
    ASSUME IInv, NEW f \in Files, CountChange(f)
    PROVE  \A g \in Files : FileInv(g)'
<1>0. PICK new : new = Task(f, change_versions'[f], "sleeping")
  OBVIOUS
<1>1. new.file = f /\ new.pc = "sleeping" /\ new.version = change_versions'[f]
  BY <1>0 DEF Task
<1>2. tasks' = tasks \cup {new}
  BY <1>0 DEF CountChange
<1>3. ASSUME NEW g \in Files \ {f} PROVE FileInv(g)'
  <2>1. Of(g)' = Of(g)
    BY <1>1, <1>2 DEF Of
  <2>2. counting'[g] = counting[g] /\ change_versions'[g] = change_versions[g]
    BY DEF CountChange, IInv, TypeOK
  <2>3. QED
    BY <2>1, <2>2, Unaffected DEF CountChange, IInv
<1>4. new \in Of(f)' /\ Of(f)' = Of(f) \cup {new}
  BY <1>1, <1>2 DEF Of
<1>5. InFlight(f)' = InFlight(f) /\ Stale(f)' = Stale(f)
  BY <1>1, <1>4 DEF InFlight, Stale, CountChange
<1>6. Awaited(f)'
  BY <1>1, <1>4 DEF Awaited, Newest
<1>7. FileInv(f)
  BY DEF IInv
<1>8. FileInv(f)'
  <2>1. WillReport(f)'
    BY <1>6 DEF WillReport
  <2>2. WillStop(f)'
    <3>1. ASSUME NEW t \in Stale(f) PROVE t.version < change_versions'[f]
      <4>1. /\ t.version <= change_versions[f] /\ t.version \in Nat
            /\ change_versions[f] \in Nat
            /\ change_versions'[f] = change_versions[f] + 1
        BY DEF IInv, TypeOK, TasksInv, Stale, InFlight, Of, TaskType, CountChange
      <4>2. QED
        BY <4>1
    <3>2. QED
      BY <1>5, <1>7, <3>1 DEF WillStop, FileInv, CountChange
  <2>3. WillShow(f)'
    <3>1. CASE documents[f] # Closed
      BY <3>1, <1>6 DEF WillShow, CountChange
    <3>2. CASE documents[f] = Closed
      <4>1. \A t \in Of(f) : Promises(t) /\ t.pc = "publishing" => Promises(t)'
        BY DEF Promises, Of, CountChange
      <4>2. ShowsLast(f) => ShowsLast(f)'
        BY DEF ShowsLast, CountChange
      <4>3. QED
        BY <1>4, <1>7, <3>2, <4>1, <4>2 DEF WillShow, FileInv, CountChange
    <3>3. QED
      BY <3>1, <3>2
  <2>4. QED
    BY <2>1, <2>2, <2>3 DEF FileInv
<1>9. QED
  BY <1>3, <1>8

LEMMA SaveKeeps ==
    ASSUME IInv, NEW f \in Files, did_save(f)
    PROVE  \A g \in Files : FileInv(g)'
<1>0. PICK new : new = Task(f, OnChangeOnly, "reading")
  OBVIOUS
<1>1. new.file = f /\ new.pc = "reading" /\ new.version = OnChangeOnly
  BY <1>0 DEF Task
<1>2. tasks' = tasks \cup {new}
  BY <1>0 DEF did_save
<1>3. ASSUME NEW g \in Files \ {f} PROVE FileInv(g)'
  <2>1. Of(g)' = Of(g)
    BY <1>1, <1>2 DEF Of
  <2>2. QED
    BY <2>1, Unaffected DEF did_save, IInv
<1>4. new \in Of(f)' /\ Of(f)' = Of(f) \cup {new} /\ InFlight(f)' = InFlight(f)
  BY <1>1, <1>2 DEF Of, InFlight
<1>5. Stale(f)' = Stale(f)
  BY <1>4 DEF Stale, did_save
<1>6. Promises(new)' /\ \A t \in Of(f) : Promises(t) => Promises(t)'
  BY <1>1 DEF Promises, Superseded, did_save
<1>7. Awaited(f) => Awaited(f)'
  BY <1>4 DEF Awaited, Newest, did_save
<1>8. FileInv(f)
  BY DEF IInv
<1>9. FileInv(f)'
  <2>1. WillReport(f)'
    BY <1>4, <1>6 DEF WillReport
  <2>2. WillStop(f)'
    BY <1>5, <1>8 DEF WillStop, FileInv, did_save
  <2>3. WillShow(f)'
    BY <1>4, <1>6, <1>7, <1>8 DEF WillShow, FileInv, ShowsLast, did_save
  <2>4. QED
    BY <2>1, <2>2, <2>3 DEF FileInv
<1>10. QED
  BY <1>3, <1>9

LEMMA CloseKeeps ==
    ASSUME IInv, NEW f \in Files, did_close(f)
    PROVE  \A g \in Files : FileInv(g)'
<1>0. PICK new : new = [Task(f, OnChangeOnly, "publishing") EXCEPT !.todo = <<f>>]
  OBVIOUS
<1>1. new.file = f /\ new.pc = "publishing" /\ new.text = Closed
  BY <1>0, CloseTask DEF IInv
<1>2. tasks' = tasks \cup {new}
  BY <1>0 DEF did_close
<1>3. ASSUME NEW g \in Files \ {f} PROVE FileInv(g)'
  <2>1. Of(g)' = Of(g)
    BY <1>1, <1>2 DEF Of
  <2>2. /\ documents'[g] = documents[g] /\ shown' = shown
        /\ g \in reported' <=> g \in reported
        /\ g \in overtaken' <=> g \in overtaken
    BY DEF did_close, Replace, IInv, TypeOK
  <2>3. QED
    BY <2>1, <2>2, Unaffected DEF did_close, IInv
<1>4. /\ new \in Of(f)' /\ Of(f)' = Of(f) \cup {new}
      /\ InFlight(f)' = InFlight(f) \cup {new}
  BY <1>1, <1>2 DEF Of, InFlight
<1>5. documents'[f] = Closed
  BY DEF did_close, Replace, IInv, TypeOK
<1>6. Promises(new)'
  BY <1>1, <1>5 DEF Promises
<1>7. f \notin overtaken' => Stale(f)' = {}
  BY <1>1, <1>4, <1>5 DEF did_close, Replace, Stale
<1>8. FileInv(f)'
  <2>1. WillReport(f)'
    BY <1>5 DEF WillReport
  <2>2. WillStop(f)'
    BY <1>7 DEF WillStop
  <2>3. WillShow(f)'
    BY <1>1, <1>4, <1>6 DEF WillShow
  <2>4. QED
    BY <2>1, <2>2, <2>3 DEF FileInv
<1>9. QED
  BY <1>3, <1>8

(* The steps of a task: of the files it is not about, only what is shown can *)
(* change, and then it is another file's.                                   *)
LEMMA Elsewhere ==
    ASSUME IInv, NEW t \in tasks, NEW new, new.file = t.file,
           tasks' = tasks \ {t} \/ tasks' = (tasks \ {t}) \cup {new},
           UNCHANGED <<documents, counting, change_versions>>,
           overtaken' = overtaken \/ overtaken' = overtaken \cup {t.file},
           reported' = reported \/ reported' = reported \cup {t.file},
           NEW g \in Files, g # t.file,
           shown'[g] = shown[g] \/ shown'[g].by # g
    PROVE  FileInv(g)'
<1>1. Of(g)' = Of(g)
  BY DEF Of
<1>2. QED
  BY <1>1, Unaffected DEF IInv

LEMMA LeaveKeeps ==
    ASSUME IInv, NEW t \in tasks, tasks' = tasks \ {t},
           UNCHANGED <<documents, counting, change_versions, overtaken, reported, shown>>,
           ~(t.pc = "sleeping" /\ Newest(t)), t.pc # "publishing",
           Promises(t) => documents[t.file] \in Panicking \cup {Closed}
    PROVE  \A g \in Files : FileInv(g)'
<1>0. PICK f \in Files : f = t.file
  BY DEF IInv, TypeOK, TaskType
<1>1. ASSUME NEW g \in Files, g # f PROVE FileInv(g)'
  BY <1>0, <1>1, Elsewhere
<1>2. Of(f)' = Of(f) \ {t} /\ FileInv(f) /\ t \in Of(f)
  BY <1>0 DEF Of, IInv
<1>3. Stale(f)' \subseteq Stale(f)
  BY <1>2 DEF Stale, InFlight
<1>4. \A u \in Of(f) : (Newest(u)' <=> Newest(u)) /\ (Promises(u)' <=> Promises(u))
  BY DEF Newest, Promises, Superseded
<1>5. Awaited(f) => Awaited(f)'
  BY <1>2, <1>4 DEF Awaited
<1>6. WillReport(f)'
  BY <1>0, <1>2, <1>4, <1>5 DEF WillReport, FileInv
<1>7. WillStop(f)'
  BY <1>2, <1>3 DEF WillStop, FileInv
<1>8. WillShow(f)'
  <2>1. ShowsLast(f) => ShowsLast(f)'
    BY DEF ShowsLast
  <2>2. QED
    BY <1>0, <1>2, <1>4, <1>5, <2>1 DEF WillShow, FileInv
<1>9. QED
  BY <1>1, <1>6, <1>7, <1>8 DEF FileInv

LEMMA WakeKeeps ==
    ASSUME IInv, NEW t \in tasks, Wake(t)
    PROVE  \A g \in Files : FileInv(g)'
<1>0. PICK f \in Files : f = t.file
  BY DEF IInv, TypeOK, TaskType
<1>1. CASE ~Newest(t) /\ tasks' = tasks \ {t}
  BY <1>1, LeaveKeeps DEF Wake, Promises
<1>2. ASSUME Newest(t), NEW new \in TaskType, tasks' = (tasks \ {t}) \cup {new},
             Moves(t, new), new.pc = "reading"
      PROVE  \A g \in Files : FileInv(g)'
  <2>1. ASSUME NEW g \in Files, g # f PROVE FileInv(g)'
    BY <1>0, <1>2, <2>1, Elsewhere DEF Wake, Moves
  <2>2. /\ Of(f)' = (Of(f) \ {t}) \cup {new} /\ FileInv(f)
        /\ t \in Of(f) /\ t.pc = "sleeping"
    BY <1>0, <1>2 DEF Of, IInv, Moves, Wake
  <2>3. Stale(f)' = Stale(f)
    BY <1>2, <2>2 DEF Stale, InFlight, Wake
  <2>4. /\ \A u \in Of(f) : (Newest(u)' <=> Newest(u)) /\ (Promises(u)' <=> Promises(u))
        /\ ~Promises(t)
    BY <2>2 DEF Newest, Promises, Superseded, Wake
  <2>5. Promises(new)'
    BY <1>2 DEF Promises, Superseded, Newest, Moves, Wake
  <2>6. WillReport(f)'
    BY <2>2, <2>5 DEF WillReport
  <2>7. WillStop(f)'
    BY <2>2, <2>3 DEF WillStop, FileInv, Wake
  <2>8. WillShow(f)'
    <3>1. ShowsLast(f) => ShowsLast(f)'
      BY DEF ShowsLast, Wake
    <3>2. counting[f] > 0 => Awaited(f)'
      BY DEF Awaited, Wake
    <3>3. QED
      BY <1>2, <2>2, <2>4, <2>5, <3>1, <3>2 DEF WillShow, FileInv, Wake
  <2>9. QED
    BY <2>1, <2>6, <2>7, <2>8 DEF FileInv
<1>3. QED
  BY <1>1, <1>2, WakeMoves DEF IInv

LEMMA ReadKeeps ==
    ASSUME IInv, NEW t \in tasks, ReadText(t)
    PROVE  \A g \in Files : FileInv(g)'
<1>0. PICK f \in Files : f = t.file
  BY DEF IInv, TypeOK, TaskType
<1>1. CASE documents[t.file] = Closed /\ tasks' = tasks \ {t}
  BY <1>1, LeaveKeeps DEF ReadText
<1>2. ASSUME documents[t.file] # Closed, NEW new \in TaskType,
             tasks' = (tasks \ {t}) \cup {new}, Moves(t, new),
             new.pc = "analysing", new.text = documents[t.file]
      PROVE  \A g \in Files : FileInv(g)'
  <2>1. ASSUME NEW g \in Files, g # f PROVE FileInv(g)'
    BY <1>0, <1>2, <2>1, Elsewhere DEF ReadText, Moves
  <2>2. /\ Of(f)' = (Of(f) \ {t}) \cup {new} /\ FileInv(f)
        /\ t \in Of(f) /\ t.pc = "reading" /\ documents[f] # Closed
    BY <1>0, <1>2 DEF Of, IInv, Moves, ReadText
  <2>3. Stale(f)' = Stale(f)
    BY <1>0, <1>2, <2>2 DEF Stale, InFlight, ReadText
  <2>4. \A u \in Of(f) : (Newest(u)' <=> Newest(u)) /\ (Promises(u)' <=> Promises(u))
    BY DEF Newest, Promises, Superseded, ReadText
  <2>5. Promises(t) => Promises(new)'
    BY <1>2, <2>2 DEF Promises, Superseded, Moves, ReadText
  <2>6. Awaited(f) => Awaited(f)'
    BY <2>2, <2>4 DEF Awaited, ReadText
  <2>7. WillReport(f)'
    BY <2>2, <2>4, <2>5, <2>6 DEF WillReport, FileInv, ReadText
  <2>8. WillStop(f)'
    BY <2>2, <2>3 DEF WillStop, FileInv, ReadText
  <2>9. WillShow(f)'
    <3>1. ShowsLast(f) => ShowsLast(f)'
      BY DEF ShowsLast, ReadText
    <3>2. QED
      BY <2>2, <2>4, <2>5, <2>6, <3>1 DEF WillShow, FileInv, ReadText
  <2>10. QED
    BY <2>1, <2>7, <2>8, <2>9 DEF FileInv
<1>3. QED
  BY <1>1, <1>2, ReadMoves DEF IInv

LEMMA AnalysisKeeps ==
    ASSUME IInv, NEW t \in tasks, EndAnalysis(t)
    PROVE  \A g \in Files : FileInv(g)'
<1>0. PICK f \in Files : f = t.file
  BY DEF IInv, TypeOK, TaskType
<1>1. CASE /\ t.text \in Panicking \/ Superseded(t)
           /\ tasks' = tasks \ {t} /\ UNCHANGED overtaken
  BY <1>1, LeaveKeeps DEF EndAnalysis, Promises
<1>2. ASSUME ~(t.text \in Panicking \/ Superseded(t)), NEW new \in TaskType,
             tasks' = (tasks \ {t}) \cup {new}, Moves(t, new),
             new.pc = "publishing", new.text = t.text,
             overtaken' = IF t.text # documents[t.file] /\ counting[t.file] > 0
                            THEN overtaken \cup {t.file} ELSE overtaken
      PROVE  \A g \in Files : FileInv(g)'
  <2>1. ASSUME NEW g \in Files, g # f PROVE FileInv(g)'
    BY <1>0, <1>2, <2>1, Elsewhere DEF EndAnalysis, Moves
  <2>2. /\ Of(f)' = (Of(f) \ {t}) \cup {new} /\ FileInv(f)
        /\ t \in Of(f) /\ t.pc = "analysing" /\ UNCHANGED documents
    BY <1>0, <1>2 DEF Of, IInv, Moves, EndAnalysis
  <2>3. f \notin overtaken' => f \notin overtaken /\ Stale(f)' \subseteq Stale(f)
    <3> SUFFICES ASSUME f \notin overtaken'
                 PROVE  f \notin overtaken /\ Stale(f)' \subseteq Stale(f)
      OBVIOUS
    <3>1. f \notin overtaken /\ (t.text = documents[f] \/ ~(counting[f] > 0))
      BY <1>0, <1>2
    <3>2. t.text = documents[f]
      <4> SUFFICES ASSUME t.text # documents[f] PROVE FALSE
        OBVIOUS
      <4>1. t \in Stale(f)
        BY <2>2 DEF Stale, InFlight
      <4>2. counting[f] = 0
        BY <3>1 DEF IInv, TypeOK
      <4>3. t.version # OnChangeOnly /\ t.version < change_versions[f]
        BY <2>2, <3>1, <4>1, <4>2 DEF WillStop, FileInv
      <4>4. t.version \in Nat /\ change_versions[f] \in Nat
        BY DEF IInv, TypeOK, TaskType
      <4>5. QED
        BY <1>0, <1>2, <4>3, <4>4 DEF Superseded
    <3>3. \A u \in InFlight(f)' : u \in InFlight(f) \/ u = new
      BY <1>2, <2>2 DEF InFlight
    <3>4. QED
      BY <1>2, <2>2, <3>1, <3>2, <3>3 DEF Stale
  <2>4. \A u \in Of(f) : (Newest(u)' <=> Newest(u)) /\ (Promises(u)' <=> Promises(u))
    BY DEF Newest, Promises, Superseded, EndAnalysis
  <2>5. Promises(t) => Promises(new)'
    BY <1>2, <2>2 DEF Promises, Moves
  <2>6. Awaited(f) => Awaited(f)'
    BY <2>2, <2>4 DEF Awaited, EndAnalysis
  <2>7. WillReport(f)'
    BY <2>2, <2>4, <2>5, <2>6 DEF WillReport, FileInv, EndAnalysis
  <2>8. WillStop(f)'
    BY <1>2, <2>2, <2>3 DEF WillStop, FileInv, EndAnalysis, Moves
  <2>9. WillShow(f)'
    <3>1. ShowsLast(f) => ShowsLast(f)'
      BY DEF ShowsLast, EndAnalysis
    <3>2. QED
      BY <1>2, <2>2, <2>3, <2>4, <2>5, <2>6, <3>1 DEF WillShow, FileInv
  <2>10. QED
    BY <2>1, <2>7, <2>8, <2>9 DEF FileInv
<1>3. QED
  BY <1>1, <1>2, AnalysisMoves DEF IInv

LEMMA PublishKeeps ==
    ASSUME IInv, NEW t \in tasks, Publish(t)
    PROVE  \A g \in Files : FileInv(g)'
<1>0. PICK f \in Files : f = t.file
  BY DEF IInv, TypeOK, TaskType
<1>1. PICK h \in Files : h = Head(t.todo)
  BY PublishMoves DEF IInv
<1>2. /\ shown' = [shown EXCEPT ![h] = [by |-> f, text |-> t.text]]
      /\ reported' = (IF h = f /\ t.text = documents[h]
                        THEN reported \cup {h} ELSE reported)
      /\ UNCHANGED <<documents, change_versions, counting, overtaken>>
  BY <1>0, <1>1 DEF Publish
<1>3. /\ \A g \in Files \ {h} : shown'[g] = shown[g]
      /\ shown'[h] = [by |-> f, text |-> t.text]
  BY <1>2 DEF IInv, TypeOK
<1>4. reported' = reported \/ reported' = reported \cup {t.file}
  BY <1>0, <1>2
<1>5. PICK new : /\ new.file = f /\ new.pc = "publishing" /\ new.text = t.text
                 /\ new.version = t.version
                 /\ \/ /\ tasks' = tasks \ {t}
                       /\ h = f
                    \/ tasks' = (tasks \ {t}) \cup {new}
  BY <1>0, <1>1, PublishMoves DEF IInv, Moves, Publish
<1>6. ASSUME NEW g \in Files, g # f PROVE FileInv(g)'
  <2>1. shown'[g] = shown[g] \/ shown'[g].by # g
    BY <1>3, <1>6
  <2>2. QED
    BY <1>0, <1>2, <1>4, <1>5, <1>6, <2>1, Elsewhere
<1>7. FileInv(f)'
  <2>1. /\ (Of(f)' = Of(f) \ {t} /\ h = f) \/ Of(f)' = (Of(f) \ {t}) \cup {new}
        /\ FileInv(f) /\ t \in Of(f) /\ t.pc = "publishing"
    BY <1>0, <1>5 DEF Of, IInv, Publish
  <2>2. \A u \in Of(f) : (Newest(u)' <=> Newest(u)) /\ (Promises(u)' <=> Promises(u))
    BY <1>2 DEF Newest, Promises, Superseded
  <2>3. Promises(t) => Promises(new)' /\ t.text = documents[f]
    BY <1>0, <1>2, <1>5, <2>1 DEF Promises
  <2>4. Awaited(f) => Awaited(f)'
    BY <1>2, <2>1, <2>2 DEF Awaited
  <2>5. f \notin overtaken => t \notin Stale(f) /\ Stale(f)' \subseteq Stale(f)
    <3>1. f \notin overtaken => t \notin Stale(f)
      BY <2>1 DEF WillStop, FileInv
    <3>2. t \in InFlight(f) /\ \A u \in InFlight(f)' : u \in InFlight(f) \/ u = new
      BY <1>5, <2>1 DEF InFlight
    <3>3. QED
      BY <1>2, <1>5, <2>1, <3>1, <3>2 DEF Stale
  <2>6. WillReport(f)'
    <3>1. CASE h = f /\ Promises(t)
      BY <1>2, <2>3, <3>1 DEF WillReport
    <3>2. CASE h # f \/ ~Promises(t)
      BY <1>2, <2>1, <2>2, <2>3, <2>4, <3>2 DEF WillReport, FileInv
    <3>3. QED
      BY <3>1, <3>2
  <2>7. WillStop(f)'
    BY <1>2, <1>5, <2>1, <2>5 DEF WillStop, FileInv
  <2>8. ASSUME f \notin overtaken, documents[f] \notin Panicking PROVE WillShow(f)'
    <3>1. t.text = documents[f]
      BY <2>1, <2>5, <2>8 DEF Stale, InFlight
    <3>2. CASE h = f
      <4>1. ShowsLast(f)'
        BY <1>2, <1>3, <3>1, <3>2 DEF ShowsLast
      <4>2. QED
        BY <4>1 DEF WillShow
    <3>3. CASE h # f
      <4>1. ShowsLast(f) => ShowsLast(f)'
        BY <1>2, <1>3, <3>3 DEF ShowsLast
      <4>2. QED
        BY <1>2, <1>5, <2>1, <2>2, <2>3, <2>4, <3>3, <4>1 DEF WillShow, FileInv
    <3>4. QED
      BY <3>2, <3>3
  <2>9. WillShow(f)'
    BY <1>2, <2>8 DEF WillShow
  <2>10. QED
    BY <2>6, <2>7, <2>9 DEF FileInv
<1>8. QED
  BY <1>6, <1>7

LEMMA NextFiles == IInv /\ [Next]_vars => \A g \in Files : FileInv(g)'
<1> SUFFICES ASSUME IInv, [Next]_vars PROVE \A g \in Files : FileInv(g)'
  OBVIOUS
<1>1. CASE UNCHANGED vars
  <2>1. ASSUME NEW g \in Files PROVE FileInv(g)'
    <3>1. Of(g)' = Of(g)
      BY <1>1 DEF vars, Of
    <3>2. QED
      BY <1>1, <3>1, Unaffected DEF vars, IInv
  <2>2. QED
    BY <2>1
<1>2. QED
  BY <1>1, OpenKeeps, ChangeKeeps, CountKeeps, SaveKeeps, CloseKeeps, WakeKeeps, ReadKeeps,
     AnalysisKeeps, PublishKeeps DEF Next

-----------------------------------------------------------------------------

THEOREM Inductive == Spec => []IInv
<1>1. IInv /\ [Next]_vars => IInv'
  BY NextTypes, NextTasks, NextFiles DEF IInv
<1>2. QED
  BY <1>1, InitIInv, PTL DEF Spec

(* Every analysis that is dropped as superseded is dropped in favour of one *)
(* that is not: when all is quiet, the diagnostics of the last text of each *)
(* open document have been sent.                                            *)
THEOREM LastReported == Spec => []LastTextReported
<1>1. IInv => LastTextReported
  <2> SUFFICES ASSUME IInv, AtRest, NEW f \in Files,
                      documents[f] \notin Panicking \cup {Closed}
               PROVE  f \in reported
    BY DEF LastTextReported
  <2>1. Of(f) = {} /\ counting[f] = 0
    BY DEF AtRest, Of
  <2>2. ~Awaited(f)
    BY <2>1 DEF Awaited
  <2>3. QED
    BY <2>1, <2>2 DEF IInv, FileInv, WillReport
<1>2. QED
  BY <1>1, Inductive, PTL

(* And they are what the editor shows, whatever order the messages of the    *)
(* analyses in flight were sent in, except for a file with an analysis of an *)
(* old text that the guard did not stop: one that has no guard, that had    *)
(* passed it, or passed it before the change was counted.                   *)
THEOREM LastShown == Spec => []SettledShowsLastText
<1>1. IInv => SettledShowsLastText
  <2> SUFFICES ASSUME IInv, AtRest, NEW f \in Files \ overtaken,
                      documents[f] \notin Panicking
               PROVE  ShowsLast(f)
    BY DEF SettledShowsLastText, ShowsLast
  <2>1. Of(f) = {} /\ counting[f] = 0
    BY DEF AtRest, Of
  <2>2. ~Awaited(f)
    BY <2>1 DEF Awaited
  <2>3. QED
    BY <2>1, <2>2 DEF IInv, FileInv, WillShow
<1>2. QED
  BY <1>1, Inductive, PTL
=============================================================================
