---------------------------- MODULE TriggerRules ----------------------------
(***************************************************************************)
(* Which events of a trigger reach its jobs: the filters of an email       *)
(* trigger and the rules of any trigger (trigger_poller_service.go).       *)
(*                                                                         *)
(* A value is what the operators see of it: its text under %v, the number  *)
(* toFloat64 makes of it (0 of what is none), and whether it is nil.  The  *)
(* operators that search a text are a relation between texts.              *)
(***************************************************************************)
EXTENDS Integers, Sequences

CONSTANT Found   \* <<operator, text, pattern>> where the text has the pattern

Missing == [text |-> "<nil>", num |-> 0, nil |-> TRUE]

\* getFieldValue: a path that leads nowhere gives nil.
FieldOf(event, field) == IF field \in DOMAIN event THEN event[field] ELSE Missing

\* A condition is [field, operator, value, list]; list is the value of "in".
InList(value, list) == \E item \in list : item.text = value.text

CheckCondition(event, cond) ==
    LET value == FieldOf(event, cond.field)
    IN CASE cond.operator = "eq"  -> value.text = cond.value.text
         [] cond.operator = "neq" -> value.text # cond.value.text
         [] cond.operator \in {"contains", "startsWith", "endsWith", "regex"} ->
                <<cond.operator, value.text, cond.value.text>> \in Found
         [] cond.operator = "gt"  -> value.num > cond.value.num
         [] cond.operator = "lt"  -> value.num < cond.value.num
         [] cond.operator = "exists"    -> ~value.nil
         [] cond.operator = "notExists" -> value.nil
         [] cond.operator = "in"    -> InList(value, cond.list)
         [] cond.operator = "notIn" -> ~InList(value, cond.list)
         [] OTHER -> FALSE

\* The conditions of a rule: all of one set, and one of the other unless that
\* is empty.  A rule without conditions lets everything pass.
EventMatchesRule(event, conditions) ==
    /\ \A cond \in conditions.all : CheckCondition(event, cond)
    /\ conditions.any = {} \/ \E cond \in conditions.any : CheckCondition(event, cond)

\* Seeded fault: an event passes when one of the rules accepts it.
EventMatchesSome(event, rules) ==
    rules = {} \/ \E conditions \in rules : EventMatchesRule(event, conditions)

EventMatchesRules(event, rules) ==
    \A conditions \in rules : EventMatchesRule(event, conditions)

\* The filters of an email trigger; "" and {} and "either" filter nothing.  One
\* of the wanted copies is enough.
EmailMatchesFilters(mail, filter) ==
    /\ filter.from = "" \/ filter.from \in mail.from
    /\ filter.to = "" \/ filter.to \in mail.to
    /\ filter.subject = "" \/ <<"regex", mail.subject, filter.subject>> \in Found
    /\ filter.cc = {} \/ filter.cc \cap mail.cc # {}
    /\ filter.attachment \in {"either", mail.attachment}
=============================================================================
