----------------------------- MODULE KSymbols -----------------------------
(***************************************************************************)
(* The values of the symbols (kconfig/symbol.c).  Every symbol caches its  *)
(* visibility and its value until sym_clear_all_valid; computing one       *)
(* computes those it is computed from first.                               *)
(*                                                                         *)
(* t is a finalized menu tree.  S is the memory of a configurator:         *)
(*   tri, text, pick    curr: the tristate, the string, and the symbol     *)
(*                      that is chosen when the symbol is a choice         *)
(*   set, utri, utext, upick   SYMBOL_DEF_USER and def[S_DEF_USER]         *)
(*   vis, rev           visible and rev_dep.tri                            *)
(*   valid, write       SYMBOL_VALID and SYMBOL_WRITE                      *)
(*   seen               visible.tri of every property                      *)
(*   modules, changed   modules_val and sym_change_count # 0               *)
(*   dropped            not in the code: what the user has set was changed *)
(*                      without sym_clear_all_valid since it was called    *)
(*                      last: dropped when a file was read, or set again   *)
(*                      to a text that was dropped                         *)
(***************************************************************************)
EXTENDS KMenuTree

CONSTANTS Number          \* what strtol makes of a text that is a number

Null == "NULL"            \* a text that was never set
NumberOf(x) == IF x \in DOMAIN Number THEN Number[x] ELSE 0
Numeral(n) == CHOOSE x \in DOMAIN Number : Number[x] = n

Unset(t) ==
  LET All(x) == [s \in Symbols |-> x]
  IN  [tri |-> All(0), text |-> All(Null), pick |-> All(NoSym),
       set |-> All(FALSE), utri |-> All(0), utext |-> All(Null), upick |-> All(NoSym),
       vis |-> All(0), rev |-> All(0), valid |-> All(FALSE), write |-> All(FALSE),
       seen |-> [i \in DOMAIN t.props |-> 0], modules |-> 0, changed |-> TRUE, dropped |-> FALSE]

OnOff == {"bool", "tri"}
Texts == {"int", "text"}

(* sym_get_type *)
TypeNow(t, S, s) ==
  IF t.type[s] = "tri" /\ (S.modules = 0 \/ (IsMember(t, s) /\ S.vis[s] = 2))
  THEN "bool" ELSE t.type[s]

(* sym_get_string_value, and what an expression reads of any name *)
TextOf(t, S, s) == IF t.type[s] \in OnOff THEN LevelName[S.tri[s] + 1] ELSE S.text[s]
RawText(S, x) == IF x \in Symbols THEN S.text[x] ELSE x
ValueNow(t, S, e) ==
  LET names == Range(Reads(e))
  IN  Value(e, [x \in names |-> CASE x \in Constants -> LevelOf(x)
                                  [] x \in Symbols -> S.tri[x]
                                  [] OTHER -> 0],
               [x \in names |-> IF x \in Symbols THEN TextOf(t, S, x) ELSE x])

(* The numbers of the properties of a symbol, in order. *)
IdsOf(t, Wanted(_)) == SelectSeq([i \in DOMAIN t.props |-> i], LAMBDA i : Wanted(t.props[i]))
PromptIds(t, s) == IdsOf(t, LAMBDA p : p.sym = s /\ p.prompt)
KindIds(t, s, kind) == IdsOf(t, LAMBDA p : p.sym = s /\ p.kind = kind)

RECURSIVE Calc(_, _, _)
RECURSIVE CalcEach(_, _, _)
CalcEach(t, S, names) ==
  IF names = <<>> THEN S ELSE CalcEach(t, Calc(t, S, Head(names)), Tail(names))

(* expr_calc_value: the memory after it, and the value *)
Valued(t, S, e) == [mem |-> S, val |-> ValueNow(t, S, e)]
Eval(t, S, e) == Valued(t, CalcEach(t, S, Reads(e)), e)

(* The memory in which the visibility of property i has been computed. *)
NoteSeen(x, i) == [x.mem EXCEPT !.seen[i] = x.val]
See(t, S, i) == NoteSeen(Eval(t, S, t.props[i].vis), i)

(* sym_get_default_prop and sym_get_range_prop: the first that is visible *)
RECURSIVE FirstSeen(_, _, _)
StopSeen(t, x, ids) ==
  IF x.seen[Head(ids)] # 0 THEN [mem |-> x, id |-> Head(ids)] ELSE FirstSeen(t, x, Tail(ids))
FirstSeen(t, S, ids) ==
  IF ids = <<>> THEN [mem |-> S, id |-> 0] ELSE StopSeen(t, See(t, S, Head(ids)), ids)

RECURSIVE SeeAll(_, _, _)
SeeAll(t, S, ids) == IF ids = <<>> THEN S ELSE SeeAll(t, See(t, S, Head(ids)), Tail(ids))

(* The largest of the levels, no when there is none. *)
Highest(levels) == CHOOSE x \in {0} \cup levels : \A y \in levels : y <= x

NoteVis(t, S, s) ==
  LET any == Highest({S.seen[i] : i \in Range(PromptIds(t, s))})
  IN  [S EXCEPT !.vis[s] = IF any = 1 /\ (t.type[s] # "tri" \/ S.modules = 0) THEN 2 ELSE any]
NoteRev(t, x, s) ==
  LET held == CASE t.rev[s] = Nil -> 0
                [] t.rev[s] # Nil /\ x.val = 1 /\ TypeNow(t, x.mem, s) = "bool" -> 2
                [] OTHER -> x.val
  IN  IF IsMember(t, s) THEN x.mem ELSE [x.mem EXCEPT !.rev[s] = held]
CalcRev(t, S, s) == NoteRev(t, Eval(t, S, IF IsMember(t, s) THEN Nil ELSE t.rev[s]), s)
CalcVisibility(t, S, s) == CalcRev(t, NoteVis(t, SeeAll(t, S, PromptIds(t, s)), s), s)

(* What a choice may take, in turn: what the user chose, the defaults that
   count (id is the property that must be visible, 0 for none), the members. *)
Candidate(id, member) == [id |-> id, s |-> member]
DefaultIds(t, s) == KindIds(t, s, "default")
OwnCandidates(t, s) ==
  [i \in DOMAIN DefaultIds(t, s) |-> Candidate(DefaultIds(t, s)[i], t.props[DefaultIds(t, s)[i]].expr.s)]
    \o [i \in DOMAIN t.members[s] |-> Candidate(0, t.members[s][i])]

Counts(S, c) == c.id = 0 \/ S.seen[c.id] # 0
LookAt(t, S, c) == IF Counts(S, c) THEN CalcVisibility(t, S, c.s) ELSE S

(* The first candidate that is visible is taken. *)
RECURSIVE TakeFirst(_, _, _, _)
TakeOr(t, S, s, list) ==
  IF Counts(S, Head(list)) /\ S.vis[Head(list).s] # 0 THEN [S EXCEPT !.pick[s] = Head(list).s]
  ELSE TakeFirst(t, S, s, Tail(list))
TakeFirst(t, S, s, list) ==
  IF list = <<>> THEN [S EXCEPT !.tri[s] = 0, !.pick[s] = NoSym]
  ELSE TakeOr(t, LookAt(t, IF Head(list).id = 0 THEN S ELSE See(t, S, Head(list).id), Head(list)), s, list)

\* Mutant of CalcChoice: the user's member is taken though it cannot be seen.
CalcChoice_Unseen(t, S, s) ==
  IF S.upick[s] # NoSym THEN [S EXCEPT !.pick[s] = S.upick[s]]
  ELSE TakeFirst(t, S, s, OwnCandidates(t, s))

(* sym_calc_choice *)
CalcChoice(t, S, s) ==
  TakeFirst(t, S, s, (IF S.upick[s] = NoSym THEN <<>> ELSE <<Candidate(0, S.upick[s])>>) \o OwnCandidates(t, s))

(* sym_validate_range: a number outside its range becomes the bound that
   was looked at last. *)
Bound(S, name) == NumberOf(RawText(S, name))
RangeOf(t, id) == t.props[id].expr
BecomesBound(S, s, name) == [S EXCEPT !.text[s] = Numeral(Bound(S, name))]
ClampHigh(S, s, name) == IF NumberOf(S.text[s]) > Bound(S, name) THEN BecomesBound(S, s, name) ELSE S
ClampLow(t, S, s, range) ==
  IF NumberOf(S.text[s]) < Bound(S, range.s) THEN BecomesBound(S, s, range.s)
  ELSE ClampHigh(CalcEach(t, S, <<range.t>>), s, range.t)
Clamp(t, r, s) ==
  IF r.id = 0 THEN r.mem
  ELSE ClampLow(t, CalcEach(t, r.mem, <<RangeOf(t, r.id).s>>), s, RangeOf(t, r.id))
ValidateRange(t, S, s) ==
  IF t.type[s] = "int" THEN Clamp(t, FirstSeen(t, S, KindIds(t, s, "range")), s) ELSE S

(* The value of the default that counts, no when there is none. *)
LevelFound(x, found) == [mem |-> x.mem, val |-> x.val, found |-> found]
DefaultLevel(t, d) ==
  LevelFound(IF d.id = 0 THEN [mem |-> d.mem, val |-> 0] ELSE Eval(t, d.mem, t.props[d.id].expr), d.id # 0)

(* The value of a bool or tristate, S.vis and S.rev being known. *)
OnOffValue(t, S, s) ==
  LET possible == Greater(S.vis[s], S.rev[s]) # 0
      Allowed(x) == Greater(Lesser(x, S.vis[s]), S.rev[s])
      Got(x, level, write) ==
        [x EXCEPT !.tri[s] = IF level = 1 /\ TypeNow(t, x, s) = "bool" THEN 2 ELSE level,
                  !.write[s] = @ \/ write]
      Default(d) == IF possible THEN Got(d.mem, Allowed(d.val), TRUE) ELSE Got(d.mem, d.val, d.found)
  IN  CASE IsMember(t, s) /\ S.vis[s] = 2 ->
             Got(S, IF S.pick[ChoiceOf(t, s)] = s THEN 2 ELSE 0, FALSE)
        [] ~(IsMember(t, s) /\ S.vis[s] = 2) /\ possible /\ S.set[s] -> Got(S, Allowed(S.utri[s]), TRUE)
        [] IsChoice(t, s) /\ possible /\ ~S.set[s] -> Got(S, Allowed(0), TRUE)
        [] IsChoice(t, s) /\ ~possible -> S
        [] OTHER -> Default(DefaultLevel(t, FirstSeen(t, S, DefaultIds(t, s))))

TextIs(S, s, text) == [S EXCEPT !.text[s] = text, !.write[s] = TRUE]
TextFrom(S, s, name) == TextIs(S, s, RawText(S, name))
DefaultText(t, d, s) ==
  IF d.id = 0 THEN [d.mem EXCEPT !.write[s] = d.mem.vis[s] # 0]
  ELSE TextFrom(CalcEach(t, d.mem, <<t.props[d.id].expr.s>>), s, t.props[d.id].expr.s)
TextValue(t, S, s) ==
  IF S.vis[s] # 0 /\ S.set[s] THEN TextIs(S, s, S.utext[s])
  ELSE DefaultText(t, FirstSeen(t, S, DefaultIds(t, s)), s)

(* sym_calc_value: the visibility, the value, and what is special about a
   choice, a number and the symbol that modules follow. *)
CalcValue(t, S, s) == IF t.type[s] \in OnOff THEN OnOffValue(t, S, s) ELSE TextValue(t, S, s)
CalcRest(t, S, s) ==
  IF IsChoice(t, s) /\ S.tri[s] = 2 THEN CalcChoice(t, S, s) ELSE ValidateRange(t, S, s)
Calc(t, S, s) ==
  LET start == [S EXCEPT !.valid[s] = TRUE, !.write[s] = @ /\ IsMember(t, s)]
      Emptied(x) == [x EXCEPT !.tri[s] = 0, !.text[s] = IF t.type[s] \in OnOff THEN "n" ELSE "",
                              !.pick[s] = NoSym]
      Listed(x) == IF IsChoice(t, s) /\ x.write[s] THEN Range(t.members[s]) ELSE {}
      Marked(x) == [x EXCEPT !.modules = IF s = Modules THEN x.tri[s] ELSE @,
                             !.write = [k \in Symbols |-> @[k] \/ k \in Listed(x)]]
  IN  CASE s \notin Symbols -> S
        [] s \in Symbols /\ S.valid[s] -> S
        [] s \in Symbols /\ ~S.valid[s] /\ t.type[s] = "unknown" ->
             [S EXCEPT !.valid[s] = TRUE, !.text[s] = s, !.tri[s] = 0]
        [] OTHER -> Marked(CalcRest(t, CalcValue(t, Emptied(CalcVisibility(t, start, s)), s), s))

(* sym_clear_all_valid *)
ClearAll(t, S) ==
  Calc(t, [S EXCEPT !.valid = [s \in Symbols |-> FALSE], !.changed = TRUE,
                    !.dropped = FALSE], Modules)

(* sym_tristate_within_range and sym_is_changable *)
WithinRange(t, S, s, val) ==
  LET type == TypeNow(t, S, s)
  IN  /\ S.vis[s] # 0 /\ type \in OnOff
      /\ type = "bool" => val # 1
      /\ S.vis[s] > S.rev[s]
      /\ IF IsMember(t, s) /\ S.vis[s] = 2 THEN val = 2 ELSE val \in S.rev[s] .. S.vis[s]

Changable(S, s) == S.vis[s] > S.rev[s]

CanSetTri(t, S, s, val) == S.tri[s] = val \/ WithinRange(t, S, s, val)

\* Mutant of SetTri: the cached values stay valid.
SetTri_NoClear(t, S, s, val) ==
  LET c == ChoiceOf(t, s)
      chosen == IsMember(t, s) /\ val = 2
      also == IF chosen THEN {c} \cup {k \in Range(t.members[c]) : S.vis[k] # 0} ELSE {}
      x == [S EXCEPT !.set = [k \in Symbols |-> @[k] \/ k \in {s} \cup also],
                     !.upick = [k \in Symbols |-> IF chosen /\ k = c THEN s ELSE @[k]],
                     !.utri[s] = val]
  IN  [x EXCEPT !.valid[s] = FALSE]

(* sym_set_tristate_value: a member that is chosen makes its choice, and
   every visible member of it, one the user has set. *)
SetTri(t, S, s, val) ==
  LET c == ChoiceOf(t, s)
      chosen == IsMember(t, s) /\ val = 2
      also == IF chosen THEN {c} \cup {k \in Range(t.members[c]) : S.vis[k] # 0} ELSE {}
      x == [S EXCEPT !.set = [k \in Symbols |-> @[k] \/ k \in {s} \cup also],
                     !.upick = [k \in Symbols |-> IF chosen /\ k = c THEN s ELSE @[k]],
                     !.utri[s] = val]
  IN  IF S.tri[s] = val THEN x ELSE ClearAll(t, x)

(* sym_toggle_tristate_value: n, m, y, n, ... to the first that can be set *)
Toggled(t, S, s) ==
  LET Nth(i) == (S.tri[s] + i) % 3
      i == CHOOSE j \in 1 .. 3 : /\ CanSetTri(t, S, s, Nth(j))
                                 /\ \A k \in 1 .. j - 1 : ~CanSetTri(t, S, s, Nth(k))
  IN  Nth(i)

(* sym_string_valid and sym_string_within_range, of an int or a string *)
StringValid(t, s, x) == t.type[s] = "text" \/ x \in DOMAIN Number
UpTo(S, x, name) == [mem |-> S, ok |-> NumberOf(x) <= Bound(S, name)]
Between(t, S, x, range) ==
  IF NumberOf(x) < Bound(S, range.s) THEN [mem |-> S, ok |-> FALSE]
  ELSE UpTo(CalcEach(t, S, <<range.t>>), x, range.t)
InRange(t, r, x) ==
  IF r.id = 0 THEN [mem |-> r.mem, ok |-> TRUE]
  ELSE Between(t, CalcEach(t, r.mem, <<RangeOf(t, r.id).s>>), x, RangeOf(t, r.id))
StringCheck(t, S, s, x) ==
  IF t.type[s] = "int" /\ StringValid(t, s, x) THEN InRange(t, FirstSeen(t, S, KindIds(t, s, "range")), x)
  ELSE [mem |-> S, ok |-> t.type[s] = "text"]

(* sym_set_string_value, of an int or a string *)
SetChecked(t, c, s, x) ==
  LET again == c.mem.utext[s] = x
      noted == [c.mem EXCEPT !.set[s] = TRUE, !.utext[s] = x,
                             !.dropped = @ \/ (again /\ ~c.mem.set[s])]
  IN  IF c.ok THEN [mem |-> IF again THEN noted ELSE ClearAll(t, noted), ok |-> TRUE] ELSE c
SetString(t, S, s, x) == SetChecked(t, StringCheck(t, S, s, x), s, x)

(* menu_is_visible *)
RECURSIVE MenuVisible(_, _, _)
RECURSIVE AnyVisible(_, _, _)
AnyOr(t, x, list) == IF x.ok THEN x ELSE AnyVisible(t, x.mem, list)
AnyVisible(t, S, list) ==
  IF list = <<>> THEN [mem |-> S, ok |-> FALSE]
  ELSE AnyOr(t, MenuVisible(t, S, Head(list)), Tail(list))

SeenOrBelow(t, S, m) ==
  LET s == SymOf(t, m)
  IN  CASE S.seen[t.prompt[m]] # 0 -> [mem |-> S, ok |-> TRUE]
        [] S.seen[t.prompt[m]] = 0 /\ (s = NoSym \/ S.tri[s] = 0) -> [mem |-> S, ok |-> FALSE]
        [] OTHER -> AnyVisible(t, S, t.kids[m])
MenuVisible(t, S, m) ==
  IF t.prompt[m] = 0 THEN [mem |-> S, ok |-> FALSE]
  ELSE SeenOrBelow(t, IF SymOf(t, m) = NoSym THEN See(t, S, t.prompt[m]) ELSE Calc(t, S, SymOf(t, m)), m)
=============================================================================
