---------------------------- MODULE SegmentRules -----------------------------
(***************************************************************************)
(* The rules of a segment: the form that builds them (rule-builder.tsx and *)
(* the page of a new segment), the row that keeps them, and what the       *)
(* evaluation of the BFF (rule-evaluator.service.ts) and of the Rust core  *)
(* (segment_engine.rs) find with them.                                     *)
(*                                                                         *)
(* A value typed into the form is text; the model keeps the fields it was  *)
(* typed for.  The row takes any JSON: the form saves groups, a client of  *)
(* the API may save the conditions and the logic the evaluators read.      *)
(***************************************************************************)
EXTENDS Integers, FiniteSets, Sequences

CONSTANTS
  People,       \* profiles of the workspace, archived ones too
  Limits,       \* numbers in the conditions of a client
  Names,        \* tags, chains, collections, tokens and roles
  MaxEdits,     \* bound: changes of the form
  MaxClauses    \* bound: conditions of a client's rule

\* Roles are kept with the link of a profile.
ASSUME RulesAssumption ==
  /\ MaxEdits \in Nat /\ MaxClauses \in Nat
  /\ \A p \in People : ~p.linked => p.roles = {}

VARIABLES
  form,         \* the groups the page shows
  edits,
  rules         \* the rules in the row of the segment

ruleVars == <<form, edits, rules>>

Number == {"tier", "engagement_score", "created_after"}
Text == {"tags", "wallet_chain"}
OrderedBy == {"gt", "gte", "lt", "lte"}

\* FIELD_CONFIG.
OperatorsOf == [f \in Number \cup Text \cup {"nft_collection", "token_balance", "discord_role"} |->
  CASE f \in {"tier", "engagement_score"} -> OrderedBy \cup {"equals"}
    [] f = "created_after"  -> {"gte"}
    [] f = "tags"           -> {"contains"}
    [] f = "wallet_chain"   -> {"equals"}
    [] f = "nft_collection" -> {"holds", "not_holds"}
    [] f = "token_balance"  -> OrderedBy
    [] f = "discord_role"   -> {"has_role", "not_has_role"}]
RuleField == DOMAIN OperatorsOf

Blank == [field |-> "", operator |-> "", typed |-> {}]
NewGroup == [logic |-> "AND", conditions |-> <<Blank>>]
NoRules == [from |-> "nobody", logic |-> "AND", conditions |-> {}, groups |-> <<>>]

RulesInit == form = <<NewGroup>> /\ edits = 0 /\ rules = NoRules

-----------------------------------------------------------------------------
(* The form.                                                                 *)

\* A saved segment leaves the page.
Edited(groups) ==
  /\ rules = NoRules /\ edits < MaxEdits /\ edits' = edits + 1
  /\ form' = groups /\ UNCHANGED rules

Omit(s, i) == SubSeq(s, 1, i - 1) \o SubSeq(s, i + 1, Len(s))

AddGroup == Edited(Append(form, NewGroup))
RemoveGroup(g) == Len(form) > 1 /\ Edited(Omit(form, g))
AddCondition(g) == Edited([form EXCEPT ![g].conditions = Append(@, Blank)])
RemoveCondition(g, c) ==
  Len(form[g].conditions) > 1 /\ Edited([form EXCEPT ![g].conditions = Omit(@, c)])
ToggleGroupLogic(g) == Edited([form EXCEPT ![g].logic = IF @ = "AND" THEN "OR" ELSE "AND"])

\* Slip: what was chosen for the old field stays.
FieldOnly(c, f) == [c EXCEPT !.field = f]
WithField(c, f) == [field |-> f, operator |-> "", typed |-> {}]

SelectField(g, c) == \E f \in RuleField \ {form[g].conditions[c].field} :
  Edited([form EXCEPT ![g].conditions[c] = WithField(form[g].conditions[c], f)])
SelectOperator(g, c) ==
  /\ form[g].conditions[c].field # ""
  /\ \E op \in OperatorsOf[form[g].conditions[c].field] \ {form[g].conditions[c].operator} :
       Edited([form EXCEPT ![g].conditions[c].operator = op])
\* Text may be typed before a field is selected.
TypeValue(g, c) ==
  /\ form[g].conditions[c].typed # {form[g].conditions[c].field}
  /\ Edited([form EXCEPT ![g].conditions[c].typed = {form[g].conditions[c].field}])

Complete(c) == c.field # "" /\ c.operator # ""
\* handleSave: groups of complete conditions, and nothing if there are none.  Groups and
\* conditions keep their number here.
Completed(conditions) == {i \in DOMAIN conditions : Complete(conditions[i])}
Cleaned == [g \in {g \in DOMAIN form : Completed(form[g].conditions) # {}} |->
  [form[g] EXCEPT !.conditions = [i \in Completed(form[g].conditions) |-> form[g].conditions[i]]]]
SaveForm == rules = NoRules /\ rules' = [NoRules EXCEPT !.from = "form", !.groups = Cleaned]
            /\ UNCHANGED <<form, edits>>

-----------------------------------------------------------------------------
(* A client of the API, with values of the types the evaluator expects.      *)

Clause ==
  (UNION {{[field |-> f, operator |-> op, value |-> v] : op \in OperatorsOf[f], v \in Limits} : f \in Number})
  \cup (UNION {{[field |-> f, operator |-> op, value |-> v] : op \in OperatorsOf[f], v \in Names} :
               f \in Text \cup {"nft_collection", "discord_role"}})
  \cup {[field |-> "token_balance", operator |-> op, value |-> [token |-> t, amount |-> n]] :
        op \in OrderedBy, t \in Names, n \in Limits}

SaveByClient ==
  /\ edits = 0 /\ rules = NoRules
  /\ \E a, b, c \in Clause, logic \in {"AND", "OR"} :
       /\ Cardinality({a, b, c}) <= MaxClauses
       /\ rules' = [NoRules EXCEPT !.from = "client", !.logic = logic, !.conditions = {a, b, c}]
  /\ UNCHANGED <<form, edits>>

-----------------------------------------------------------------------------
(* The evaluation of the BFF.                                                *)

Compare(op, a, b) ==
  CASE op = "equals" -> a = b [] op = "gt" -> a > b [] op = "gte" -> a >= b
    [] op = "lt" -> a < b [] op = "lte" -> a <= b

\* toPrismaWhere: what the query asks of a profile.
PrismaWhere(p, c) ==
  CASE c.field \in Number -> Compare(c.operator, p.number[c.field], c.value)
    [] c.operator = "not_holds" -> c.value \notin p.has["nft_collection"]
    [] OTHER -> c.value \in p.has[c.field]

\* The part of the conditions C that holds is enough for the logic.
Joined(logic, C, part) == IF logic = "AND" THEN part = C ELSE part # {}
Living == {p \in People : ~p.archived}

\* One row of wallet_balances has to satisfy the whole clause.
TokenBalances(logic, C) ==
  LET OnRow(w, c) == w.token = c.value.token /\ Compare(c.operator, w.amount, c.value.amount)
  IN  {p \in Living : \E w \in p.wallets : Joined(logic, C, {c \in C : OnRow(w, c)})}
\* So has the one row of social_links.
DiscordRoles(logic, C) ==
  {p \in Living : p.linked /\ Joined(logic, C, {c \in C : (c.value \in p.roles) = (c.operator = "has_role")})}
Native(logic, C) == {p \in Living : Joined(logic, C, {c \in C : PrismaWhere(p, c)})}

\* Slip: the sets of a conjunction are united.
CombinedAlike(logic, sets) == UNION sets
Combined(logic, sets) ==
  IF logic = "AND" THEN {p \in UNION sets : \A s \in sets : p \in s} ELSE UNION sets

Of(field) == {c \in rules.conditions : c.field = field}
Evaluated ==
  LET others == rules.conditions \ (Of("token_balance") \cup Of("discord_role"))
      found(C, set) == IF C = {} THEN {} ELSE {set}
  IN  Combined(rules.logic, found(others, Native(rules.logic, others))
                \cup found(Of("token_balance"), TokenBalances(rules.logic, Of("token_balance")))
                \cup found(Of("discord_role"), DiscordRoles(rules.logic, Of("discord_role"))))
\* rules.conditions is undefined in what the form saves.
Evaluable == rules.from = "client"

\* The engine of the core asks for tags only: its operators have other names, its logic
\* another key, and what it does not know is TRUE.
EngineFinds == {p \in Living : \A c \in Of("tags") : c.value \in p.has["tags"]}

-----------------------------------------------------------------------------
RulesNext ==
  \/ AddGroup \/ SaveForm \/ SaveByClient
  \/ \E g \in DOMAIN form :
       \/ RemoveGroup(g) \/ AddCondition(g) \/ ToggleGroupLogic(g)
       \/ \E c \in DOMAIN form[g].conditions :
            RemoveCondition(g, c) \/ SelectField(g, c) \/ SelectOperator(g, c) \/ TypeValue(g, c)

RulesSpec == RulesInit /\ [][RulesNext]_ruleVars

-----------------------------------------------------------------------------
(* Properties.                                                               *)

RulesTypeOK ==
  /\ edits \in 0..MaxEdits /\ rules.from \in {"nobody", "form", "client"}
  /\ Len(form) >= 1 /\ \A g \in DOMAIN form : form[g].logic \in {"AND", "OR"}

(* Whatever the order of the choices, a condition that is saved has an operator of *)
(* its field, and what was typed in it was typed for that field; no group of the   *)
(* saved rules is empty.                                                           *)
SavedFits == \A g \in DOMAIN rules.groups :
  /\ DOMAIN rules.groups[g].conditions # {}
  /\ \A i \in DOMAIN rules.groups[g].conditions : LET c == rules.groups[g].conditions[i] IN
       c.operator \in OperatorsOf[c.field] /\ c.typed \subseteq {c.field}

\* What a condition says of a profile by itself, however the rest is joined.
Says(c, p) ==
  CASE c.field = "token_balance" ->
         \E w \in p.wallets : w.token = c.value.token /\ Compare(c.operator, w.amount, c.value.amount)
    [] c.field = "discord_role" -> (c.value \in p.roles) = (c.operator = "has_role")
    [] OTHER -> PrismaWhere(p, c)
Meant == {p \in Living : Joined(rules.logic, rules.conditions, {c \in rules.conditions : Says(c, p)})}
\* The conjunctions one row cannot satisfy, and the profiles without a link.
Underrated ==
  \/ rules.logic = "AND" /\ Cardinality(Of("token_balance")) > 1
  \/ \E c \in Of("discord_role") : c.operator = "not_has_role"

(* Splitting the conditions over three queries and joining the answers finds nobody  *)
(* the rule does not mean, and all it means unless it asks for two balances at once  *)
(* or for the lack of a role; the engine of the core overlooks nobody a conjunction  *)
(* means.                                                                            *)
FindsWhatIsMeant == Evaluable =>
  /\ Evaluated \subseteq Meant
  /\ Underrated \/ Meant \subseteq Evaluated
  /\ rules.logic = "AND" => Meant \subseteq EngineFinds

RulesSafety == SavedFits /\ FindsWhatIsMeant
=============================================================================
