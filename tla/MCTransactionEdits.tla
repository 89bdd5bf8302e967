-------------------------- MODULE MCTransactionEdits --------------------------
(***************************************************************************)
(* Finite instances.  Of TransactionEdits: c is the command line, s the    *)
(* server; proposal e sets the note, g clears it and sets the category.    *)
(* Of Terminal: two transactions at first, one at the edge of the span of  *)
(* 30 days, one that the rules of the list leave out, and one to come.     *)
(* They are looked at one after the other, not interleaved: the first to   *)
(* move decides which.                                                     *)
(***************************************************************************)
EXTENDS TransactionEdits, Terminal, TLC

CONSTANTS c, s, e, g, note, category, x, y

SetNote == [f \in {note} |-> x]
Recategorise == [f \in {note, category} |-> IF f = note THEN None ELSE y]
SetOther == [f \in {note} |-> y]

MCPatch == {SetNote, Recategorise, SetOther}
MCPatchOf == [k \in Edit |-> IF k = e THEN SetNote ELSE Recategorise]

(* Terminal *)
Fact(day, amount, description, metadata, tags, ignored) ==
    [day |-> day, amount |-> amount, account |-> "a", account_name |-> "Card",
     description |-> description, status |-> "posted", metadata |-> metadata,
     reporting |-> TRUE, tags |-> tags, ignored |-> ignored]
MCFacts == <<
    Fact(70, -5, "SHELL 1", Nothing, {}, FALSE),
    Fact(100, -3, "TRANSFER", "un", {"ignore-spending"}, TRUE),
    Fact(101, -2, "SHELL 1", "un", {}, FALSE)>>
MCAlphabet == <<"fun", "un">>
MCBegins == ("fun" :> {"fun"}) @@ ("un" :> {"un"})
MCWithin == ("fun" :> {"fun"}) @@ ("un" :> {"fun", "un"})
MCPattern == {{"SHELL 1", "TRANSFER"}, Blank, Malformed}
MCHistoryDays == [i \in Range(NetWorthInterval) |-> IF i = "monthly" THEN {31} ELSE {70, 100}]
MCFirstRules == <<Malformed,
    [category |-> "un", matchers |-> [f \in {"description"} |-> Malformed]],
    [category |-> "fun", matchers |-> [f \in {"description", "amount"} |->
        IF f = "amount" THEN Blank ELSE {"TRANSFER"}]]>>

AllInit == Init /\ TerminalInit
EditsAtInit == proposals = <<>> /\ clock = 0 /\ {directs, compacts, crashes} = {0}
               /\ \A p \in Proc : pc[p] = "idle"
TerminalAtInit == keys = 0 /\ elsewhere = 0 /\ today = FirstDay /\ app.active_view = "transactions"
AllNext ==
    \/ TerminalAtInit /\ Next /\ UNCHANGED terminalVars
    \/ EditsAtInit /\ TerminalNext /\ UNCHANGED vars
AllSpec == AllInit /\ [][AllNext]_<<vars, terminalVars>>

(* Types of both. *)
AllTypeOK == TypeOK /\ TerminalTypeOK
=============================================================================
