--------------------------- MODULE LanguageServer ---------------------------
(* The language server of agent files: the texts it keeps, the analyses it  *)
(* runs beside each other, and the diagnostics the editor shows.  Opening    *)
(* and saving a document analyse it at once, changing it only after a pause. *)
(* An analysis is a task: it copies the text, works on a thread of its own,  *)
(* and publishes what it found, each file's diagnostics by a message.        *)
EXTENDS Naturals, Sequences, FiniteSets

CONSTANTS
    Files,       \* documents with a path
    Imports,     \* files that each file may import
    Texts,       \* texts a document may have
    Panicking,   \* those of which the analysis panics
    MaxNotes     \* bound: notifications of the editor

ASSUME ImportsAssumption == Imports \in [Files -> SUBSET Files]
ASSUME TextsAssumption == Panicking \subseteq Texts
ASSUME NotesAssumption == MaxNotes \in Nat

VARIABLES
    documents,        \* texts of the open documents
    change_versions,  \* changes counted so far, also of documents closed since
    counting,         \* handlers of changes between their two locks
    tasks,            \* analyses, and the message a close sends
    notes,            \* notifications so far
    shown,            \* whose analysis the editor shows for each file, of what
    reported,         \* files of whose last text the diagnostics were sent
    overtaken         \* history: files whose text was replaced while nothing
                      \* stopped a task at work on the one before it

vars == <<documents, change_versions, counting, tasks, notes, shown, reported,
          overtaken>>

Closed == "closed"    \* no text; and nothing shown
ASSUME ClosedAssumption == Closed \notin Texts

OnChangeOnly == 0     \* version of a task that no change started

Task(f, version, pc) ==
    [id |-> notes, file |-> f, version |-> version, pc |-> pc,
     text |-> Closed, todo |-> <<>>]

Of(f) == {t \in tasks : t.file = f}
InFlight(f) == {t \in Of(f) : t.pc \in {"analysing", "publishing"}}

Init ==
    /\ documents = [f \in Files |-> Closed]
    /\ change_versions = [f \in Files |-> 0]
    /\ counting = [f \in Files |-> 0]
    /\ tasks = {} /\ notes = 0
    /\ shown = [f \in Files |-> [by |-> f, text |-> Closed]]
    /\ reported = {} /\ overtaken = {}

-----------------------------------------------------------------------------
(* Notifications, in the order the editor sends them. *)

Notified == notes < MaxNotes /\ notes' = notes + 1

\* f has another text now, or none.
Replace(f, text, unstopped) ==
    /\ documents' = [documents EXCEPT ![f] = text]
    /\ reported' = reported \ {f}
    /\ overtaken' = IF unstopped = {} THEN overtaken \ {f} ELSE overtaken \cup {f}

did_open(f) ==
    /\ documents[f] = Closed /\ Notified
    /\ \E text \in Texts : Replace(f, text, InFlight(f))
    /\ tasks' = tasks \cup {Task(f, OnChangeOnly, "reading")}
    /\ UNCHANGED <<change_versions, counting, shown>>

\* A task that no change stops any more: it has no guard, or is past it.
Unstoppable(t) == t.version = OnChangeOnly \/ t.pc = "publishing"

\* The text is replaced under one lock, the change counted under another.
did_change(f) ==
    /\ documents[f] # Closed /\ Notified
    /\ \E text \in Texts \ {documents[f]} :
          Replace(f, text, {t \in InFlight(f) : Unstoppable(t)})
    /\ counting' = [counting EXCEPT ![f] = @ + 1]
    /\ UNCHANGED <<change_versions, tasks, shown>>

CountChange(f) ==
    /\ counting[f] > 0
    /\ counting' = [counting EXCEPT ![f] = @ - 1]
    /\ change_versions' = [change_versions EXCEPT ![f] = @ + 1]
    /\ tasks' = tasks \cup {Task(f, change_versions'[f], "sleeping")}
    /\ UNCHANGED <<documents, notes, shown, reported, overtaken>>

\* The text a save brings is the one the changes before it have made.
did_save(f) ==
    /\ documents[f] # Closed /\ Notified
    /\ tasks' = tasks \cup {Task(f, OnChangeOnly, "reading")}
    /\ UNCHANGED <<documents, change_versions, counting, shown, reported,
                   overtaken>>

\* The text is removed, and then nothing is to be shown.
did_close(f) ==
    /\ documents[f] # Closed /\ Notified
    /\ Replace(f, Closed, InFlight(f))
    /\ tasks' = tasks \cup
         {[Task(f, OnChangeOnly, "publishing") EXCEPT !.todo = <<f>>]}
    /\ UNCHANGED <<change_versions, counting, shown>>

-----------------------------------------------------------------------------
(* The steps of a task. *)

Leave(t) == tasks' = tasks \ {t}
Becomes(t, new) == tasks' = (tasks \ {t}) \cup {new}

\* Only the last change is analysed.
Wake(t) ==
    /\ t.pc = "sleeping"
    /\ IF t.version = change_versions[t.file]
         THEN Becomes(t, [t EXCEPT !.pc = "reading"])
         ELSE Leave(t)
    /\ UNCHANGED <<documents, change_versions, counting, notes, shown, reported,
                   overtaken>>

ReadText(t) ==
    /\ t.pc = "reading"
    /\ IF documents[t.file] # Closed
         THEN Becomes(t, [t EXCEPT !.pc = "analysing", !.text = documents[t.file]])
         ELSE Leave(t)
    /\ UNCHANGED <<documents, change_versions, counting, notes, shown, reported,
                   overtaken>>

\* Mutant: nothing is superseded.
NeverSuperseded(t) == FALSE

\* Mutant: an analysis that no change started belongs to version 0.
SupersededFromZero(t) == change_versions[t.file] # t.version

\* The guard: an analysis that a change started is dropped when there are
\* newer ones; the others never are.
Superseded(t) ==
    t.version # OnChangeOnly /\ change_versions[t.file] # t.version

\* Errors that stop an imported file from being read are shown there, and
\* nothing in the file that imports it.
Found(t) == {<<t.file>>} \cup {<<g, t.file>> : g \in Imports[t.file]}

\* A change that is not counted yet supersedes nothing: the guard lets the old
\* text's analysis pass.  What has passed is sent after several awaits.
EndAnalysis(t) ==
    /\ t.pc = "analysing"
    /\ IF t.text \in Panicking \/ Superseded(t)
         THEN Leave(t) /\ UNCHANGED overtaken
         ELSE /\ \E todo \in Found(t) :
                   Becomes(t, [t EXCEPT !.pc = "publishing", !.todo = todo])
              /\ overtaken' = IF t.text # documents[t.file] /\ counting[t.file] > 0
                                THEN overtaken \cup {t.file} ELSE overtaken
    /\ UNCHANGED <<documents, change_versions, counting, notes, shown, reported>>

\* One message of a task, without a version the editor could compare.
Publish(t) ==
    /\ t.pc = "publishing"
    /\ LET f == Head(t.todo)
       IN /\ shown' = [shown EXCEPT ![f] = [by |-> t.file, text |-> t.text]]
          /\ reported' = IF f = t.file /\ t.text = documents[f]
                           THEN reported \cup {f} ELSE reported
    /\ IF Len(t.todo) = 1 THEN Leave(t)
                          ELSE Becomes(t, [t EXCEPT !.todo = Tail(@)])
    /\ UNCHANGED <<documents, change_versions, counting, notes, overtaken>>

Next ==
    \/ \E f \in Files :
          \/ did_open(f) \/ did_change(f) \/ did_save(f) \/ did_close(f)
          \/ CountChange(f)
    \/ \E t \in tasks : Wake(t) \/ ReadText(t) \/ EndAnalysis(t) \/ Publish(t)

Spec == Init /\ [][Next]_vars

-----------------------------------------------------------------------------
(* Properties. *)

\* Nothing is under way.
AtRest == tasks = {} /\ \A f \in Files : counting[f] = 0

\* However many analyses of a document were dropped as superseded, once all
\* is quiet the diagnostics of the text it has now have been sent, unless
\* their analysis panicked (the versions of did_change and the guards in
\* front of and behind the analysis).
LastTextReported ==
    AtRest => \A f \in Files :
        documents[f] \notin Panicking \cup {Closed} => f \in reported

\* The guard keeps old diagnostics away: what is shown when all is quiet is
\* what was found in the text the document has now, or nothing when it is
\* closed.  It keeps away what it can stop only: not an open, a save or a close
\* that was at work on the text before, which are not guarded, and not what had
\* passed the guard when the text was replaced or the change counted.  Another
\* file that imports the document may have shown errors there instead.
SettledShowsLastText ==
    AtRest => \A f \in Files \ overtaken :
        documents[f] \notin Panicking /\ shown[f].by = f
            => shown[f].text = documents[f]
=============================================================================
