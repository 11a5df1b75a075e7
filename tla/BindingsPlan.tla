---------------------------- MODULE BindingsPlan ----------------------------
(***************************************************************************)
(* What every generator of bindings starts from (auwgent-codegen,          *)
(* generation_plan): the callables, helpers and intents of an agent,       *)
(* gathered from wherever its file declares them.  Below it, the view the  *)
(* generators' modules have of the code they write: its declarations, the  *)
(* names these mention, the members they use, and when a compiler takes    *)
(* them.                                                                   *)
(*                                                                         *)
(* A name is made of words; the constants say how a word is spelled with   *)
(* another case, since the languages disagree about a name's case.         *)
(***************************************************************************)
EXTENDS AgentFile

CONSTANTS
    WordsOf,   \* name |-> its words: what stands between the characters _ and -
    Upper,     \* word |-> with its first letter in upper case
    Lower,     \* word |-> with its first letter in lower case
    Title,     \* word |-> its first letter in upper case and the others in lower
    Small      \* word |-> all in lower case

RECURSIVE Joined(_, _)
Joined(words, between) ==
    IF words = <<>> THEN ""
    ELSE IF Len(words) = 1 THEN Head(words)
    ELSE Head(words) \o between \o Joined(Tail(words), between)

Spell(case, name) == [i \in DOMAIN WordsOf[name] |-> case[WordsOf[name][i]]]

-----------------------------------------------------------------------------
(* The plan.                                                               *)

Concat(seqs) == FoldSeq(LAMBDA s, all : s \o all, <<>>, seqs)

\* Later definitions of a name take the place of the first one.
Merge(defs) ==
    LET named(i, j) == defs[i].name = defs[j].name
        isFirst(i) == \A j \in 1..(i - 1) : ~named(i, j)
        last(i) == CHOOSE k \in DOMAIN defs :
                       named(i, k) /\ \A j \in DOMAIN defs : named(i, j) => j <= k
        firsts == SelectSeq([i \in DOMAIN defs |-> i], isFirst)
    IN [i \in DOMAIN firsts |-> defs[last(firsts[i])]]

Once(defs) ==
    LET isFirst(i) == \A j \in 1..(i - 1) : defs[j].name # defs[i].name
        firsts == SelectSeq([i \in DOMAIN defs |-> i], isFirst)
    IN [i \in DOMAIN firsts |-> defs[firsts[i]]]

collect_workflow_tools(workflows) == Concat([i \in DOMAIN workflows |-> workflows[i].tools])

collect_helper_tools(ir) ==
    Concat([i \in DOMAIN ir.helpers |->
               ir.helpers[i].tools \o collect_workflow_tools(ir.helpers[i].workflows)])

\* A workflow that transfers is never lowered: the helpers are those handed off to.
output_helpers(ir) ==
    LET handedOff(helper) == helper.name \in ir.handoff
    IN Once(SelectSeq(ir.helpers, handedOff))

collect_custom_intent_defs(ir) ==
    Once(ir.intents \o Concat([i \in DOMAIN ir.helpers |-> ir.helpers[i].intents]))

AllModels(ir) ==
    Range(ir.models \o Concat([i \in DOMAIN ir.helpers |-> ir.helpers[i].models]))
\* Mutant: only the agent's own models are looked at.
collect_required_providersOwn(ir) == {model.type : model \in Range(ir.models)}
collect_required_providers(ir) == {model.type : model \in AllModels(ir)}

BuiltinAliases == {"gemini", "geminiapi", "openai", "openaiapi", "groq", "groqapi"}
is_builtin_provider_alias(id) == Joined(Spell(Small, id), "") \in BuiltinAliases
collect_custom_provider_ids(ir) ==
    {id \in {model.id : model \in {m \in AllModels(ir) : m.type = "custom"}} :
        ~is_builtin_provider_alias(id)}

CodegenPlan(ir) ==
    [ir |-> ir,
     tools |-> Merge(ir.tools \o collect_workflow_tools(ir.workflows) \o collect_helper_tools(ir)),
     workflows |-> ir.workflows, helpers |-> ir.helpers, components |-> ir.components,
     output_helpers |-> output_helpers(ir), custom_intents |-> collect_custom_intent_defs(ir),
     required_providers |-> collect_required_providers(ir),
     custom_provider_ids |-> collect_custom_provider_ids(ir),
     has_context |-> ir.context # Null]

\* A callable as the generators look at it: every family has its own keys.
Callables(plan, family) ==
    CASE family = "Tool" ->
           [i \in DOMAIN plan.tools |->
              [name |-> plan.tools[i].name, args |-> plan.tools[i].params,
               result |-> plan.tools[i].returns]]
      [] family = "Workflow" ->
           [i \in DOMAIN plan.workflows |->
              [name |-> plan.workflows[i].name, args |-> plan.workflows[i].params,
               result |-> plan.workflows[i].returns]]
      [] family = "Helper" ->
           [i \in DOMAIN plan.helpers |->
              [name |-> plan.helpers[i].name, args |-> plan.helpers[i].input,
               result |-> plan.helpers[i].output]]

Families(plan) ==
    SelectSeq(<<"Tool", "Workflow", "Helper">>, LAMBDA f : Callables(plan, f) # <<>>)

-----------------------------------------------------------------------------
(* Generated code.  A type is a name or a container of another type.       *)

Named(name)      == [named |-> name]
Generic(container, t) == [container |-> container, of |-> t]

RECURSIVE Base(_)
Base(t) == IF "named" \in DOMAIN t THEN t.named ELSE Base(t.of)

\* What a declaration asks of the rest: that a type exists, that it does so already
\* where declarations are run in their order, that it has a member, that a value of
\* one type is one of another, or what no compiler accepts.
Mentions(t)        == [kind |-> "mentions", type |-> t]
Needs(t)           == [kind |-> "needs", type |-> t]
Calls(name, member) == [kind |-> "calls", name |-> name, member |-> member]
Assigns(from, to)  == [kind |-> "assigns", from |-> from, to |-> to]
Malformed          == [kind |-> "malformed"]

\* `carries`: the keys of the JSON a value of the type is read from.  `holds`: the
\* types it holds without indirection.
Class(name, members, uses) ==
    [name |-> name, alias |-> <<>>, members |-> members, uses |-> uses,
     carries |-> {}, holds |-> {}]
Data(name, members, uses, carries, holds) ==
    [Class(name, members, uses) EXCEPT !.carries = carries, !.holds = holds]
Alias(name, t) ==
    [Class(name, <<>>, {Mentions(t)}) EXCEPT
       !.alias = <<t>>, !.holds = IF "named" \in DOMAIN t THEN {t.named} ELSE {}]

DeclOf(decls, name) == CHOOSE d \in Range(decls) : d.name = name

\* The end of a chain of aliases.
RECURSIVE Resolve(_, _)
Resolve(decls, t) ==
    IF "named" \in DOMAIN t /\ t.named \in Names(decls)
       /\ DeclOf(decls, t.named).alias # <<>>
    THEN Resolve(decls, DeclOf(decls, t.named).alias[1]) ELSE t

MembersOf(decls, name) ==
    LET t == Resolve(decls, Named(name))
    IN IF "named" \in DOMAIN t /\ t.named \in Names(decls)
       THEN Range(DeclOf(decls, t.named).members) ELSE {}

CarriedBy(decls, name) ==
    LET t == Resolve(decls, Named(name))
    IN IF "named" \in DOMAIN t /\ t.named \in Names(decls)
       THEN DeclOf(decls, t.named).carries ELSE {}

Satisfied(use, decls, known, top) ==
    CASE use.kind \in {"mentions", "needs"} -> Base(use.type) \in known \cup Names(decls)
      [] use.kind = "calls"    -> use.member \in MembersOf(decls, use.name)
      [] use.kind = "assigns"  -> \/ Resolve(decls, use.from) = Resolve(decls, use.to)
                                  \/ Resolve(decls, use.to) = top
      [] use.kind = "malformed" -> FALSE

\* No type holds itself.
RECURSIVE Within(_, _)
Within(decls, names) ==
    LET more == names \cup UNION {DeclOf(decls, n).holds : n \in names \cap Names(decls)}
    IN IF more = names THEN names ELSE Within(decls, more)
Sized(decls) == \A d \in Range(decls) : d.name \notin Within(decls, d.holds)

\* What must exist already does.
InOrder(decls, known) ==
    \A i \in DOMAIN decls : \A use \in decls[i].uses :
        use.kind = "needs" => Base(use.type) \in known \cup {decls[j].name : j \in 1..(i - 1)}

\* The declarations make a program with one meaning for every name, in a language
\* that knows some names already and takes a value of any type where it expects `top`.
WellFormed(decls, known, top) ==
    /\ Unique(NamesOf(decls))
    /\ \A d \in Range(decls) : /\ Unique(d.members)
                               /\ \A use \in d.uses : Satisfied(use, decls, known, top)
    /\ InOrder(decls, known)
    /\ Sized(decls)
=============================================================================
