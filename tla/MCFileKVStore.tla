---------------------------- MODULE MCFileKVStore ----------------------------
(***************************************************************************)
(* Instances of FileKVStore for TLC.  Strings are names; Spell gives their *)
(* characters, from which KVLines computes what a written line does.       *)
(***************************************************************************)
EXTENDS FileKVStore, KVLines

CONSTANTS empty, a, b, ab, aEq, eq, eqa, eqab, eqb, inj,
          other                  \* all strings that have no name

Names == {empty, a, b, ab, aEq, eq, eqa, eqab, eqb, inj}

Spell == [s \in Names |->
  CASE s = empty -> <<>>         [] s = a   -> <<"a">>
    [] s = b     -> <<"b">>      [] s = ab  -> <<"a", "b">>
    [] s = aEq   -> <<"a", Eq>>  [] s = eq  -> <<Eq>>
    [] s = eqa   -> <<Eq, "a">>  [] s = eqab -> <<Eq, "a", "b">>
    [] s = eqb   -> <<Eq, "b">>
    [] s = inj   -> <<Newline, Eq, "b">>]

Name(text) == IF \E s \in Names : Spell[s] = text
              THEN CHOOSE s \in Names : Spell[s] = text
              ELSE other

AllKeys == {empty, a, b, aEq}
AllValues == Names \cup {other}

EffectOf(text) ==
  LET spelt == LoadEffect(text, {Spell[k] : k \in AllKeys}, Untouched)
  IN  [k \in AllKeys |-> IF spelt[Spell[k]] = Untouched THEN Untouched
                         ELSE Name(spelt[Spell[k]])]

Nothing == [k \in AllKeys |-> Untouched]

\* `other' has no text; no pair that holds it is ever saved.
LineOf == [k \in AllKeys |-> [v \in AllValues |->
  IF v = other THEN Nothing ELSE EffectOf(TextOf(Spell[k], Spell[v]))]]

CutLinesOf == [k \in AllKeys |-> [v \in AllValues |->
  IF v = other THEN {}
  ELSE LET text == TextOf(Spell[k], Spell[v])
       IN  {EffectOf(SubSeq(text, 1, n)) : n \in 0 .. Len(text) - 1}]]
=============================================================================
