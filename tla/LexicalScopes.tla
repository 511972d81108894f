--------------------------- MODULE LexicalScopes ---------------------------
(***************************************************************************)
(* What the semantic tree promises the parser: C's scopes.  A scope binds  *)
(* identifiers and struct tags; it may gain bindings while it is open, but *)
(* a binding never changes and never vanishes before its scope is left,    *)
(* and leaving a scope brings back the one around it as it was.            *)
(***************************************************************************)
EXTENDS Integers, Sequences

CONSTANTS Names, Tags, None

VARIABLE scopes   \* the open scopes, file scope first

Unbound == [vars |-> [n \in Names |-> None], tags |-> [t \in Tags |-> None]]

Init == scopes = <<Unbound>>

(* Scope t has the bindings of scope s and perhaps more. *)
Extends(s, t) ==
  /\ \A n \in Names : s.vars[n] # None => t.vars[n] = s.vars[n]
  /\ \A g \in Tags : s.tags[g] # None => t.tags[g] = s.tags[g]

(* Only the innermost scope gains bindings. *)
Bound(before, after) ==
  LET last == Len(before) IN
  /\ \A k \in 1 .. last - 1 : after[k] = before[k]
  /\ Extends(before[last], after[last])

Bind(before, after)  == Len(after) = Len(before) /\ Bound(before, after)

(* A function or struct is bound in the scope around its own. *)
Enter(before, after) == Len(after) = Len(before) + 1 /\ Bound(before, after)

Leave(before, after) ==
  /\ Len(before) > 1
  /\ after = SubSeq(before, 1, Len(before) - 1)

Step(before, after) == \/ Bind(before, after)
                       \/ Enter(before, after)
                       \/ Leave(before, after)

Next == Step(scopes, scopes')

Spec == Init /\ [][Next]_scopes
=============================================================================
