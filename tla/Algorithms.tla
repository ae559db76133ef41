------------------------------ MODULE Algorithms ------------------------------
(***************************************************************************)
(* The programs of LoxScanner, SqlParser and BloomFilter: which of them    *)
(* runs, and on what input, is chosen at the start.                        *)
(***************************************************************************)
EXTENDS LoxScanner, SqlParser, BloomFilter

VARIABLE program

vars == <<program, loxVars, sqlVars, bloomVars>>

Init ==
  /\ program \in {"lox", "sql", "bloom"}
  /\ IF program = "lox" THEN LoxInit ELSE LoxStart(<<>>)
  /\ IF program = "sql" THEN SqlInit ELSE SqlStart(<<>>)
  /\ IF program = "bloom" THEN BloomInit
     ELSE NewBloomFilter /\ size = 0 /\ hashes = 0 /\ hash = <<>>

Next ==
  /\ UNCHANGED program
  /\ \/ program = "lox" /\ LoxStep /\ UNCHANGED <<sqlVars, bloomVars>>
     \/ program = "sql" /\ SqlStep /\ UNCHANGED <<loxVars, bloomVars>>
     \/ program = "bloom" /\ BloomStep /\ UNCHANGED <<loxVars, sqlVars>>

Spec == Init /\ [][Next]_vars
=============================================================================
