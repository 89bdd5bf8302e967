------------------------- MODULE SyncConnectionProofs -------------------------
(***************************************************************************)
(* For any number of processes, accounts and failures: connection.json     *)
(* lists only accounts that are on disk, and a sync that ran alone leaves  *)
(* the files as the provider said.                                         *)
(***************************************************************************)
EXTENDS SyncConnection, FiniteSetTheorems, TLAPS

\* Account a has been saved; only a remove_connection can have deleted it since.
Exists(a) == account[a] # "missing" \/ a \in gone

\* What a process may come to write into connection.json it has saved first, or
\* is about to save.
HeldExist ==
    \A p \in Proc : \A a \in conn[p].account_ids :
        Exists(a) \/ (pc[p] = "accounts" /\ a \in todo[p])

Saving == {"accounts", "deactivate", "balances"}

\* How far the files agree with the result of a sync that has run alone.
Progress(p) ==
    /\ pc[p] \in Saving => conn[p].account_ids = DOMAIN result[p]
    /\ pc[p] = "accounts" => DOMAIN result[p] \ todo[p] \subseteq Active
    /\ pc[p] = "deactivate" =>
          /\ DOMAIN result[p] \subseteq Active
          /\ Active \ DOMAIN result[p] = todo[p]
    /\ pc[p] = "balances" =>
          /\ Active = DOMAIN result[p]
          /\ state.account_ids = DOMAIN result[p]
          /\ \A a \in DOMAIN result[p] \ todo[p] :
                result[p][a] # NoAmount => balance[a] = result[p][a]

Alone == \A p \in Syncer \cap alone : Progress(p)

\* A process that has nothing to do holds nothing; one that edits has no result.
Idle ==
    /\ \A p \in Proc : pc[p] = "balances" => todo[p] \subseteq
           {a \in DOMAIN result[p] : result[p][a] # NoAmount}
    /\ \A p \in Proc : pc[p] \in Saving \cup {"fetch"} => p \in Syncer

IInv == TypeOK /\ ListedAccountsExist /\ HeldExist /\ Alone /\ Idle

-----------------------------------------------------------------------------

\* What a process holds that has nothing to do has the right type.
LEMMA EmptyTypes == NewState \in States /\ <<>> \in Results
  <1>1. <<>> \in [{} -> Amount \cup {NoAmount}]
    OBVIOUS
  <1> QED
    BY <1>1 DEF NewState, States, Results

\* The empty directory satisfies the invariant.
LEMMA InitIInv == Init => IInv
  <1> SUFFICES ASSUME Init PROVE IInv
    OBVIOUS
  <1>2. TypeOK
    BY EmptyTypes, SyncConnectionAssumption DEF Init, TypeOK, NewState, States
  <1> QED
    BY <1>2 DEF Init, IInv, ListedAccountsExist, HeldExist, Alone, Idle, NewState, Saving

\* What a fetch yields is a result, and NewState is a state.
LEMMA FetchType ==
  ASSUME TypeOK, NEW p \in Syncer, NEW m \in SUBSET (Account \ Manual), Fetch(p, m)
  PROVE  /\ result'[p] \in Results
         /\ DOMAIN result'[p] \in SUBSET Account
         /\ faults' \in 0..MaxFault
  <1> DEFINE listed == {a \in Account \ Manual : bank[a] # Closed}
  <1>1. result'[p] = [a \in listed |-> IF a \in m THEN NoAmount ELSE bank[a]]
    BY DEF Fetch, TypeOK, Proc
  <1>2. result'[p] \in [listed -> Amount \cup {NoAmount}]
    BY <1>1 DEF TypeOK
  <1>3. listed \in SUBSET (Account \ Manual)
    OBVIOUS
  <1>4. Cardinality(m) \in Nat
    <2>1. IsFiniteSet(m)
      BY FS_Subset, SyncConnectionAssumption
    <2> QED
      BY <2>1, FS_CardinalityType
  <1>5. faults' \in 0..MaxFault
    BY <1>4, SyncConnectionAssumption DEF Fetch, TypeOK
  <1>6. result'[p] \in Results
    BY <1>2, <1>3 DEF Results
  <1> QED
    BY <1>1, <1>3, <1>5, <1>6

\* Age changes last_sync only.
LEMMA AgedState ==
  ASSUME NEW s \in States
  PROVE  /\ Aged(s) \in States
         /\ Aged(s).account_ids = s.account_ids
  BY DEF Aged, States

\* Every step keeps the types.
LEMMA StepTypeOK == TypeOK /\ Idle /\ [Next]_vars => TypeOK'
  <1> SUFFICES ASSUME TypeOK, Idle, [Next]_vars PROVE TypeOK'
    OBVIOUS
  <1> USE SyncConnectionAssumption DEF TypeOK, Proc
  <1>1. ASSUME NEW p \in Syncer, Load(p, TRUE) \/ Load(p, FALSE) PROVE TypeOK'
    BY <1>1 DEF Load, disk
  <1>2. ASSUME NEW p \in Syncer, SyncStep(p) PROVE TypeOK'
    <2>1. ASSUME NEW m \in SUBSET (Account \ Manual), Fetch(p, m) PROVE TypeOK'
      <3>1. {a \in Account \ Manual : bank[a] # Closed} \in SUBSET Account
        OBVIOUS
      <3>2. result' \in [Proc -> Results] /\ faults' \in 0..MaxFault
        BY <2>1, FetchType DEF Fetch
      <3>3. conn' \in [Proc -> States] /\ todo' \in [Proc -> SUBSET Account]
        BY <2>1, <3>1 DEF Fetch, States
      <3> QED
        BY <2>1, <3>2, <3>3 DEF Fetch, disk
    <2>2. ASSUME NEW a \in Account, SaveAccount(p, a) PROVE TypeOK'
      BY <2>2 DEF SaveAccount, Wrote
    <2>3. ASSUME NEW a \in Account, Deactivate(p, a) PROVE TypeOK'
      BY <2>3 DEF Deactivate, Wrote
    <2>4. ASSUME NEW a \in Account, AppendZero(p, a) PROVE TypeOK'
      BY <2>4 DEF AppendZero, Wrote
    <2>5. ASSUME NEW a \in Account, AppendBalance(p, a) PROVE TypeOK'
      <3>1. result[p][a] \in Amount
        <4>1. PICK S \in SUBSET (Account \ Manual) :
                 result[p] \in [S -> Amount \cup {NoAmount}]
          BY DEF Results
        <4> QED
          BY <2>5, <4>1 DEF AppendBalance, Idle
      <3> QED
        BY <2>5, <3>1 DEF AppendBalance, Wrote
    <2>6. CASE ListAccounts(p)
      BY <2>6 DEF ListAccounts, disk, Active
    <2>7. CASE SaveConnection(p)
      <3>1. {a \in DOMAIN result[p] : result[p][a] # NoAmount} \in SUBSET Account
        BY DEF Results
      <3> QED
        BY <2>7, <3>1 DEF SaveConnection, Wrote
    <2>8. CASE Finish(p)
      BY EmptyTypes, <2>8 DEF Finish, End, disk
    <2> QED
      BY <1>2, <2>1, <2>2, <2>3, <2>4, <2>5, <2>6, <2>7, <2>8 DEF SyncStep
  <1>3. ASSUME NEW p \in Editor, EditStep(p) PROVE TypeOK'
    <2>1. CASE add_account(p)
      BY <1>3, <2>1 DEF add_account, Edit, disk
    <2>2. ASSUME NEW a \in Account, AddSaveAccount(p, a) PROVE TypeOK'
      BY <2>2 DEF AddSaveAccount, Wrote, States
    <2>3. CASE AddSaveConnection(p)
      BY EmptyTypes, <2>3 DEF AddSaveConnection, End, Wrote
    <2>4. ASSUME NEW a \in Account, set_balance(p, a) PROVE TypeOK'
      BY <2>4 DEF set_balance, Edit, disk
    <2>5. ASSUME NEW a \in Account, NEW v \in Amount, SetAppend(p, a, v) PROVE TypeOK'
      BY EmptyTypes, <2>5 DEF SetAppend, End, Wrote
    <2>6. CASE remove_connection(p)
      BY <2>6 DEF remove_connection, Edit, disk
    <2>7. ASSUME NEW a \in Account, DeleteAccount(p, a) PROVE TypeOK'
      BY <2>7 DEF DeleteAccount, Wrote
    <2>8. CASE DeleteConnection(p)
      BY EmptyTypes, <2>8 DEF DeleteConnection, End, Wrote
    <2> QED
      BY <1>3, <2>1, <2>2, <2>3, <2>4, <2>5, <2>6, <2>7, <2>8 DEF EditStep
  <1>4. ASSUME NEW a \in Account \ Manual, NEW v \in Amount \cup {Closed},
               BankChange(a, v)
        PROVE  TypeOK'
    BY <1>4 DEF BankChange, disk, local
  <1>5. CASE Age
    BY <1>5, AgedState DEF Age
  <1>6. ASSUME NEW p \in Proc, Abort(p) PROVE TypeOK'
    BY EmptyTypes, <1>6 DEF Abort, End, disk
  <1>7. CASE UNCHANGED vars
    BY <1>7 DEF vars, disk, local
  <1> QED
    BY <1>1, <1>2, <1>3, <1>4, <1>5, <1>6, <1>7 DEF Next

\* A step that keeps connection.json, saves accounts or records that it deletes
\* them, and changes p's memory only in a way HeldExist allows, keeps both.
LEMMA ListingKept ==
  ASSUME TypeOK, ListedAccountsExist, HeldExist, NEW p \in Proc,
         state'.account_ids \subseteq state.account_ids,
         \A a \in Account : Exists(a) => Exists(a)',
         \A q \in Proc \ {p} : /\ conn'[q].account_ids = conn[q].account_ids
                               /\ pc'[q] = pc[q] /\ todo'[q] = todo[q],
         \A a \in conn'[p].account_ids :
             Exists(a)' \/ (pc'[p] = "accounts" /\ a \in todo'[p])
  PROVE  ListedAccountsExist' /\ HeldExist'
  <1>1. ListedAccountsExist'
    BY DEF ListedAccountsExist, Exists, TypeOK, States
  <1>2. HeldExist'
    <2> SUFFICES ASSUME NEW q \in Proc, NEW a \in conn'[q].account_ids
                 PROVE  Exists(a)' \/ (pc'[q] = "accounts" /\ a \in todo'[q])
      BY DEF HeldExist
    <2>1. CASE q = p
      BY <2>1
    <2>2. CASE q # p
      BY <2>2 DEF HeldExist, TypeOK, States
    <2> QED
      BY <2>1, <2>2
  <1> QED
    BY <1>1, <1>2

\* Every step keeps the accounts that are listed, and those about to be, saved.
LEMMA StepListed ==
  TypeOK /\ ListedAccountsExist /\ HeldExist /\ Idle /\ [Next]_vars
    => ListedAccountsExist' /\ HeldExist'
  <1> SUFFICES ASSUME TypeOK, ListedAccountsExist, HeldExist, Idle, [Next]_vars
               PROVE  ListedAccountsExist' /\ HeldExist'
    OBVIOUS
  <1> USE SyncConnectionAssumption DEF Proc
  <1>1. ASSUME NEW p \in Syncer, Load(p, TRUE) \/ Load(p, FALSE)
        PROVE  ListedAccountsExist' /\ HeldExist'
    <2>1. \A a \in conn'[p].account_ids : Exists(a)
      BY <1>1 DEF Load, TypeOK, ListedAccountsExist, Exists
    <2> QED
      BY <1>1, <2>1, ListingKept DEF Load, TypeOK, Exists, disk
  <1>2. ASSUME NEW p \in Syncer, SyncStep(p)
        PROVE  ListedAccountsExist' /\ HeldExist'
    <2>1. ASSUME NEW m \in SUBSET (Account \ Manual), Fetch(p, m)
          PROVE  ListedAccountsExist' /\ HeldExist'
      BY <2>1, ListingKept DEF Fetch, TypeOK, Exists, disk
    <2>2. ASSUME NEW a \in Account, SaveAccount(p, a)
          PROVE  ListedAccountsExist' /\ HeldExist'
      <3>1. \A b \in conn'[p].account_ids :
                Exists(b)' \/ (pc'[p] = "accounts" /\ b \in todo'[p])
        BY <2>2 DEF SaveAccount, TypeOK, HeldExist, Exists, States
      <3> QED
        BY <2>2, <3>1, ListingKept DEF SaveAccount, TypeOK, Exists
    <2>3. ASSUME NEW a \in Account, Deactivate(p, a)
          PROVE  ListedAccountsExist' /\ HeldExist'
      <3>1. \A b \in conn'[p].account_ids : Exists(b)'
        BY <2>3 DEF Deactivate, TypeOK, HeldExist, Exists, States
      <3> QED
        BY <2>3, <3>1, ListingKept DEF Deactivate, TypeOK, Exists
    <2>4. ASSUME NEW a \in Account, AppendZero(p, a)
          PROVE  ListedAccountsExist' /\ HeldExist'
      <3>1. \A b \in conn'[p].account_ids : Exists(b)'
        BY <2>4 DEF AppendZero, TypeOK, HeldExist, Exists, States
      <3> QED
        BY <2>4, <3>1, ListingKept DEF AppendZero, TypeOK, Exists
    <2>5. ASSUME NEW a \in Account, AppendBalance(p, a)
          PROVE  ListedAccountsExist' /\ HeldExist'
      <3>1. \A b \in conn'[p].account_ids : Exists(b)'
        BY <2>5 DEF AppendBalance, TypeOK, HeldExist, Exists, States
      <3> QED
        BY <2>5, <3>1, ListingKept DEF AppendBalance, TypeOK, Exists
    <2>6. CASE ListAccounts(p)
      <3>1. \A b \in conn'[p].account_ids : Exists(b)'
        BY <2>6 DEF ListAccounts, TypeOK, HeldExist, Exists, States, disk
      <3> QED
        BY <2>6, <3>1, ListingKept DEF ListAccounts, TypeOK, Exists, disk
    <2>7. CASE SaveConnection(p)
      <3>1. \A b \in conn[p].account_ids : Exists(b)
        BY <2>7 DEF SaveConnection, HeldExist
      <3>2. ListedAccountsExist'
        BY <2>7, <3>1 DEF SaveConnection, ListedAccountsExist, Exists
      <3>3. HeldExist'
        <4> SUFFICES ASSUME NEW q \in Proc, NEW b \in conn[q].account_ids
                     PROVE  Exists(b) \/ (pc'[q] = "accounts" /\ b \in todo'[q])
          BY <2>7 DEF HeldExist, SaveConnection, Exists
        <4>1. CASE q = p
          BY <3>1, <4>1
        <4>2. CASE q # p
          BY <2>7, <4>2 DEF HeldExist, SaveConnection, TypeOK
        <4> QED
          BY <4>1, <4>2
      <3> QED
        BY <3>2, <3>3
    <2>8. CASE Finish(p)
      BY <2>8, ListingKept DEF Finish, End, TypeOK, Exists, disk, NewState
    <2> QED
      BY <1>2, <2>1, <2>2, <2>3, <2>4, <2>5, <2>6, <2>7, <2>8 DEF SyncStep
  <1>3. ASSUME NEW p \in Editor, EditStep(p)
        PROVE  ListedAccountsExist' /\ HeldExist'
    <2>1. CASE add_account(p)
      <3>1. \A b \in conn'[p].account_ids : Exists(b)'
        BY <1>3, <2>1 DEF add_account, TypeOK, ListedAccountsExist, Exists, disk
      <3> QED
        BY <1>3, <2>1, <3>1, ListingKept DEF add_account, Edit, TypeOK, Exists, disk
    <2>2. ASSUME NEW a \in Account, AddSaveAccount(p, a)
          PROVE  ListedAccountsExist' /\ HeldExist'
      <3>1. \A b \in conn'[p].account_ids : Exists(b)'
        BY <1>3, <2>2 DEF AddSaveAccount, TypeOK, HeldExist, Exists, States
      <3> QED
        BY <1>3, <2>2, <3>1, ListingKept DEF AddSaveAccount, TypeOK, Exists
    <2>3. CASE AddSaveConnection(p)
      <3>1. \A b \in conn[p].account_ids : Exists(b)
        BY <1>3, <2>3 DEF AddSaveConnection, HeldExist
      <3>2. ListedAccountsExist'
        BY <2>3, <3>1 DEF AddSaveConnection, ListedAccountsExist, Exists
      <3>3. HeldExist'
        <4> SUFFICES ASSUME NEW q \in Proc, NEW b \in conn'[q].account_ids
                     PROVE  Exists(b) \/ (pc'[q] = "accounts" /\ b \in todo'[q])
          BY <2>3 DEF HeldExist, AddSaveConnection, Exists
        <4>1. CASE q = p
          BY <2>3, <4>1 DEF AddSaveConnection, End, NewState, TypeOK
        <4>2. CASE q # p
          BY <2>3, <4>2 DEF HeldExist, AddSaveConnection, End, TypeOK
        <4> QED
          BY <4>1, <4>2
      <3> QED
        BY <3>2, <3>3
    <2>4. ASSUME NEW a \in Account, set_balance(p, a)
          PROVE  ListedAccountsExist' /\ HeldExist'
      <3>1. \A b \in conn'[p].account_ids : Exists(b)'
        BY <1>3, <2>4 DEF set_balance, Edit, TypeOK, HeldExist, Exists, disk
      <3> QED
        BY <1>3, <2>4, <3>1, ListingKept DEF set_balance, Edit, TypeOK, Exists, disk
    <2>5. ASSUME NEW a \in Account, NEW v \in Amount, SetAppend(p, a, v)
          PROVE  ListedAccountsExist' /\ HeldExist'
      BY <1>3, <2>5, ListingKept DEF SetAppend, End, TypeOK, Exists, NewState
    <2>6. CASE remove_connection(p)
      <3>1. \A b \in conn'[p].account_ids : Exists(b)'
        BY <1>3, <2>6 DEF remove_connection, Edit, TypeOK, HeldExist, Exists, disk
      <3> QED
        BY <1>3, <2>6, <3>1, ListingKept
           DEF remove_connection, Edit, TypeOK, Exists, disk
    <2>7. ASSUME NEW a \in Account, DeleteAccount(p, a)
          PROVE  ListedAccountsExist' /\ HeldExist'
      <3>1. \A b \in conn'[p].account_ids : Exists(b)'
        BY <1>3, <2>7 DEF DeleteAccount, TypeOK, HeldExist, Exists, States
      <3> QED
        BY <1>3, <2>7, <3>1, ListingKept DEF DeleteAccount, TypeOK, Exists
    <2>8. CASE DeleteConnection(p)
      BY <1>3, <2>8, ListingKept DEF DeleteConnection, End, TypeOK, Exists, NewState
    <2> QED
      BY <1>3, <2>1, <2>2, <2>3, <2>4, <2>5, <2>6, <2>7, <2>8 DEF EditStep
  <1>4. ASSUME NEW a \in Account \ Manual, NEW v \in Amount \cup {Closed},
               BankChange(a, v)
        PROVE  ListedAccountsExist' /\ HeldExist'
    BY <1>4 DEF BankChange, disk, local, ListedAccountsExist, HeldExist, Exists
  <1>5. CASE Age
    <2>1. /\ state'.account_ids = state.account_ids
          /\ \A p \in Proc : conn'[p].account_ids = conn[p].account_ids
      BY <1>5, AgedState DEF Age, TypeOK
    <2> QED
      BY <1>5, <2>1 DEF Age, ListedAccountsExist, HeldExist, Exists
  <1>6. ASSUME NEW p \in Proc, Abort(p) PROVE ListedAccountsExist' /\ HeldExist'
    BY <1>6, ListingKept DEF Abort, End, TypeOK, Exists, disk, NewState
  <1>7. CASE UNCHANGED vars
    BY <1>7 DEF vars, disk, local, ListedAccountsExist, HeldExist, Exists
  <1> QED
    BY <1>1, <1>2, <1>3, <1>4, <1>5, <1>6, <1>7 DEF Next

\* Every step keeps Idle.
LEMMA StepIdle == TypeOK /\ Idle /\ [Next]_vars => Idle'
  <1> SUFFICES ASSUME TypeOK, Idle, [Next]_vars PROVE Idle'
    OBVIOUS
  <1> USE SyncConnectionAssumption DEF Proc, TypeOK, Idle, Saving
  <1>1. ASSUME NEW p \in Syncer, Load(p, TRUE) \/ Load(p, FALSE) PROVE Idle'
    BY <1>1 DEF Load
  <1>2. ASSUME NEW p \in Syncer, SyncStep(p) PROVE Idle'
    <2>1. ASSUME NEW m \in SUBSET (Account \ Manual), Fetch(p, m) PROVE Idle'
      BY <2>1 DEF Fetch
    <2>2. ASSUME NEW a \in Account, SaveAccount(p, a) PROVE Idle'
      BY <2>2 DEF SaveAccount
    <2>3. ASSUME NEW a \in Account, Deactivate(p, a) PROVE Idle'
      BY <2>3 DEF Deactivate
    <2>4. ASSUME NEW a \in Account, AppendZero(p, a) PROVE Idle'
      BY <2>4 DEF AppendZero
    <2>5. ASSUME NEW a \in Account, AppendBalance(p, a) PROVE Idle'
      BY <2>5 DEF AppendBalance
    <2>6. CASE ListAccounts(p)
      BY <1>2, <2>6 DEF ListAccounts
    <2>7. CASE SaveConnection(p)
      BY <1>2, <2>7 DEF SaveConnection
    <2>8. CASE Finish(p)
      BY <2>8 DEF Finish, End
    <2> QED
      BY <1>2, <2>1, <2>2, <2>3, <2>4, <2>5, <2>6, <2>7, <2>8 DEF SyncStep
  <1>3. ASSUME NEW p \in Editor, EditStep(p) PROVE Idle'
    BY <1>3 DEF EditStep, add_account, AddSaveAccount, AddSaveConnection, set_balance,
                SetAppend, remove_connection, DeleteAccount, DeleteConnection, Edit, End
  <1>4. ASSUME NEW a \in Account \ Manual, NEW v \in Amount \cup {Closed},
               BankChange(a, v)
        PROVE  Idle'
    BY <1>4 DEF BankChange, local
  <1>5. CASE Age
    BY <1>5 DEF Age
  <1>6. ASSUME NEW p \in Proc, Abort(p) PROVE Idle'
    BY <1>6 DEF Abort, End
  <1>7. CASE UNCHANGED vars
    BY <1>7 DEF vars, local
  <1> QED
    BY <1>1, <1>2, <1>3, <1>4, <1>5, <1>6, <1>7 DEF Next

\* A step that writes nothing leaves the progress of the others as it is.
LEMMA QuietStep ==
  ASSUME TypeOK, Alone, NEW p \in Proc,
         UNCHANGED <<account, balance>>, state'.account_ids = state.account_ids,
         alone' \subseteq alone \cup {p},
         \A q \in Proc \ {p} : /\ conn'[q].account_ids = conn[q].account_ids
                               /\ pc'[q] = pc[q]
                               /\ todo'[q] = todo[q]
                               /\ result'[q] = result[q],
         p \in Syncer \cap alone' => Progress(p)'
  PROVE  Alone'
  <1> SUFFICES ASSUME NEW q \in Syncer \cap alone' PROVE Progress(q)'
    BY DEF Alone
  <1>1. CASE q = p
    BY <1>1
  <1>2. CASE q # p
    <2>1. q \in Proc \ {p} /\ Progress(q)
      BY <1>2 DEF Alone, Proc
    <2> QED
      BY <2>1 DEF Progress, Active, Saving
  <1> QED
    BY <1>1, <1>2

\* A step that writes ends the solitude of the others.
LEMMA WritingStep ==
  ASSUME NEW p \in Proc, Wrote(p), p \in Syncer \cap alone => Progress(p)'
  PROVE  Alone'
  BY DEF Wrote, Alone

\* Every step keeps the progress of the syncs that run alone.
LEMMA StepAlone == TypeOK /\ Idle /\ Alone /\ [Next]_vars => Alone'
  <1> SUFFICES ASSUME TypeOK, Idle, Alone, [Next]_vars PROVE Alone'
    OBVIOUS
  <1> USE SyncConnectionAssumption DEF Proc, Saving
  <1>1. ASSUME NEW p \in Syncer, Load(p, TRUE) \/ Load(p, FALSE) PROVE Alone'
    BY <1>1, QuietStep DEF Load, TypeOK, Progress, disk
  <1>2. ASSUME NEW p \in Syncer, SyncStep(p) PROVE Alone'
    <2>1. ASSUME NEW m \in SUBSET (Account \ Manual), Fetch(p, m) PROVE Alone'
      <3>1. Progress(p)'
        BY <2>1 DEF Fetch, TypeOK, Progress
      <3> QED
        BY <2>1, <3>1, QuietStep DEF Fetch, TypeOK, disk
    <2>2. ASSUME NEW a \in Account, SaveAccount(p, a) PROVE Alone'
      <3>1. p \in alone => Progress(p)'
        BY <2>2 DEF SaveAccount, TypeOK, Alone, Progress, Active
      <3> QED
        BY <2>2, <3>1, WritingStep DEF SaveAccount
    <2>3. ASSUME NEW a \in Account, Deactivate(p, a) PROVE Alone'
      <3>1. p \in alone => Progress(p)'
        BY <2>3 DEF Deactivate, TypeOK, Alone, Progress, Active
      <3> QED
        BY <2>3, <3>1, WritingStep DEF Deactivate
    <2>4. ASSUME NEW a \in Account, AppendZero(p, a) PROVE Alone'
      <3>1. p \in alone => Progress(p)'
        BY <2>4 DEF AppendZero, TypeOK, Alone, Progress, Active
      <3> QED
        BY <2>4, <3>1, WritingStep DEF AppendZero
    <2>5. ASSUME NEW a \in Account, AppendBalance(p, a) PROVE Alone'
      <3>1. DOMAIN result[p] \subseteq Account
        BY DEF TypeOK, Results
      <3>2. p \in alone => Progress(p)'
        BY <2>5, <3>1 DEF AppendBalance, TypeOK, Alone, Progress, Active
      <3> QED
        BY <2>5, <3>2, WritingStep DEF AppendBalance
    <2>6. CASE ListAccounts(p)
      <3>1. p \in alone => Progress(p)'
        BY <1>2, <2>6 DEF ListAccounts, TypeOK, Alone, Progress, Active, disk
      <3> QED
        BY <1>2, <2>6, <3>1, QuietStep DEF ListAccounts, TypeOK, disk
    <2>7. CASE SaveConnection(p)
      <3>1. p \in alone => Progress(p)'
        BY <1>2, <2>7 DEF SaveConnection, TypeOK, Alone, Progress, Active
      <3> QED
        BY <1>2, <2>7, <3>1, WritingStep DEF SaveConnection
    <2>8. CASE Finish(p)
      <3>1. Progress(p)'
        BY <1>2, <2>8 DEF Finish, End, TypeOK, Progress
      <3> QED
        BY <1>2, <2>8, <3>1, QuietStep DEF Finish, End, TypeOK, disk
    <2> QED
      BY <1>2, <2>1, <2>2, <2>3, <2>4, <2>5, <2>6, <2>7, <2>8 DEF SyncStep
  <1>3. ASSUME NEW p \in Editor, EditStep(p) PROVE Alone'
    <2>1. p \in Proc /\ p \notin Syncer
      BY <1>3
    <2>2. CASE \/ add_account(p)
               \/ remove_connection(p)
               \/ \E a \in Account : set_balance(p, a)
      BY <2>1, <2>2, QuietStep
         DEF add_account, remove_connection, set_balance, Edit, TypeOK, disk
    <2>3. CASE ~(\/ add_account(p)
                 \/ remove_connection(p)
                 \/ \E a \in Account : set_balance(p, a))
      <3>1. Wrote(p)
        BY <1>3, <2>3 DEF EditStep, AddSaveAccount, AddSaveConnection, SetAppend,
                          DeleteAccount, DeleteConnection
      <3> QED
        BY <2>1, <3>1, WritingStep
    <2> QED
      BY <2>2, <2>3
  <1>4. ASSUME NEW a \in Account \ Manual, NEW v \in Amount \cup {Closed},
               BankChange(a, v)
        PROVE  Alone'
    BY <1>4 DEF BankChange, disk, local, Alone, Progress, Active
  <1>5. CASE Age
    <2>1. /\ state'.account_ids = state.account_ids
          /\ \A p \in Proc : conn'[p].account_ids = conn[p].account_ids
      BY <1>5, AgedState DEF Age, TypeOK
    <2> SUFFICES ASSUME NEW q \in Syncer \cap alone PROVE Progress(q)'
      BY <1>5 DEF Age, Alone
    <2>2. Progress(q) /\ conn'[q].account_ids = conn[q].account_ids
      BY <2>1 DEF Alone
    <2> QED
      BY <1>5, <2>1, <2>2 DEF Age, Progress, Active
  <1>6. ASSUME NEW p \in Proc, Abort(p) PROVE Alone'
    <2>1. Progress(p)'
      BY <1>6 DEF Abort, End, TypeOK, Progress
    <2> QED
      BY <1>6, <2>1, QuietStep DEF Abort, End, TypeOK, disk
  <1>7. CASE UNCHANGED vars
    BY <1>7 DEF vars, disk, local, Alone, Progress, Active
  <1> QED
    BY <1>1, <1>2, <1>3, <1>4, <1>5, <1>6, <1>7 DEF Next

\* Only a sync that is making accounts inactive has one to zero, and no more than
\* one at a time.
Closing ==
    \A p \in Syncer :
        /\ closing[p] # {} => pc[p] = "deactivate"
        /\ \A a, b \in closing[p] : a = b

Zeroed == Closing /\ InactiveIsZeroUnlessExcused

\* Every step keeps Closing, and zero what is inactive.
LEMMA StepZero ==
  TypeOK /\ Idle /\ Closing /\ InactiveIsZeroUnlessExcused /\ [Next]_vars
    => Closing' /\ InactiveIsZeroUnlessExcused'
  <1> SUFFICES ASSUME TypeOK, Idle, Closing, InactiveIsZeroUnlessExcused, [Next]_vars
               PROVE  Closing' /\ InactiveIsZeroUnlessExcused'
    OBVIOUS
  <1> USE SyncConnectionAssumption
      DEF Proc, TypeOK, Closing, InactiveIsZeroUnlessExcused
  <1>1. ASSUME NEW p \in Syncer, Load(p, TRUE) \/ Load(p, FALSE)
        PROVE  Closing' /\ InactiveIsZeroUnlessExcused'
    BY <1>1 DEF Load, disk
  <1>2. ASSUME NEW p \in Syncer, SyncStep(p)
        PROVE  Closing' /\ InactiveIsZeroUnlessExcused'
    <2>1. ASSUME NEW m \in SUBSET (Account \ Manual), Fetch(p, m)
          PROVE  Closing' /\ InactiveIsZeroUnlessExcused'
      BY <2>1 DEF Fetch, disk
    <2>2. ASSUME NEW a \in Account, SaveAccount(p, a)
          PROVE  Closing' /\ InactiveIsZeroUnlessExcused'
      BY <2>2 DEF SaveAccount
    <2>3. ASSUME NEW a \in Account, Deactivate(p, a)
          PROVE  Closing' /\ InactiveIsZeroUnlessExcused'
      BY <2>3 DEF Deactivate
    <2>4. ASSUME NEW a \in Account, AppendZero(p, a)
          PROVE  Closing' /\ InactiveIsZeroUnlessExcused'
      <3>1. closing[p] = {a}
        BY <2>4 DEF AppendZero
      <3> QED
        BY <2>4, <3>1 DEF AppendZero
    <2>5. ASSUME NEW a \in Account, AppendBalance(p, a)
          PROVE  Closing' /\ InactiveIsZeroUnlessExcused'
      BY <2>5 DEF AppendBalance
    <2>6. CASE ListAccounts(p)
      BY <2>6 DEF ListAccounts, disk
    <2>7. CASE SaveConnection(p)
      BY <2>7 DEF SaveConnection
    <2>8. CASE Finish(p)
      BY <2>8 DEF Finish, End, disk
    <2> QED
      BY <1>2, <2>1, <2>2, <2>3, <2>4, <2>5, <2>6, <2>7, <2>8 DEF SyncStep
  <1>3. ASSUME NEW p \in Editor, EditStep(p)
        PROVE  Closing' /\ InactiveIsZeroUnlessExcused'
    <2>1. p \notin Syncer
      BY <1>3
    <2>2. CASE \/ add_account(p) \/ remove_connection(p) \/ AddSaveConnection(p)
               \/ DeleteConnection(p) \/ \E a \in Account : set_balance(p, a)
      BY <2>1, <2>2 DEF add_account, remove_connection, AddSaveConnection,
                        DeleteConnection, set_balance, Edit, End, disk
    <2>3. ASSUME NEW a \in Account, AddSaveAccount(p, a) \/ DeleteAccount(p, a)
          PROVE  Closing' /\ InactiveIsZeroUnlessExcused'
      BY <2>1, <2>3 DEF AddSaveAccount, DeleteAccount
    <2>4. ASSUME NEW a \in Account, NEW v \in Amount, SetAppend(p, a, v)
          PROVE  Closing' /\ InactiveIsZeroUnlessExcused'
      BY <2>1, <2>4 DEF SetAppend, End
    <2> QED
      BY <1>3, <2>2, <2>3, <2>4 DEF EditStep
  <1>4. ASSUME NEW a \in Account \ Manual, NEW v \in Amount \cup {Closed},
               BankChange(a, v)
        PROVE  Closing' /\ InactiveIsZeroUnlessExcused'
    BY <1>4 DEF BankChange, disk, local
  <1>5. CASE Age
    BY <1>5 DEF Age
  <1>6. ASSUME NEW p \in Proc, Abort(p)
        PROVE  Closing' /\ InactiveIsZeroUnlessExcused'
    BY <1>6 DEF Abort, End, disk
  <1>7. CASE UNCHANGED vars
    BY <1>7 DEF vars, disk, local
  <1> QED
    BY <1>1, <1>2, <1>3, <1>4, <1>5, <1>6, <1>7 DEF Next

-----------------------------------------------------------------------------

\* The invariant holds of every behaviour.
LEMMA Invariance == Spec => []IInv
  <1>1. IInv /\ [Next]_vars => IInv'
    BY StepTypeOK, StepListed, StepIdle, StepAlone DEF IInv
  <1> QED
    BY <1>1, InitIInv, PTL DEF Spec

\* The types of the files and of what the processes hold (sync/mod.rs, models).
THEOREM SyncTypes == Spec => []TypeOK
  <1>1. IInv => TypeOK
    BY DEF IInv
  <1> QED
    BY <1>1, Invariance, PTL

\* connection.json lists only accounts that are on disk, or that a
\* remove_connection deleted, wherever a sync or an add_account stops
\* (save_with_clock saves the accounts first and the connection after them).
THEOREM ListedAccounts == Spec => []ListedAccountsExist
  <1>1. IInv => ListedAccountsExist
    BY DEF IInv
  <1> QED
    BY <1>1, Invariance, PTL

\* A sync nobody interfered with leaves the files as the provider said, whatever
\* partial saves it found (save_with_clock, the loop over list_accounts).
THEOREM SyncSavesWhole == Spec => []SavedWhole
  <1>1. IInv => SavedWhole
    BY DEF IInv, Alone, Progress, SavedWhole
  <1> QED
    BY <1>1, Invariance, PTL

\* An account the provider stopped listing counts for nothing, but for a sync cut
\* short between the two saves or a balance appended to a closed account
\* (save_with_clock, the branch that makes accounts inactive).
THEOREM InactiveAccountsAreZero == Spec => []InactiveIsZeroUnlessExcused
  <1>1. Init => Zeroed
    <2> SUFFICES ASSUME Init PROVE Closing /\ InactiveIsZeroUnlessExcused
      BY DEF Zeroed
    <2> QED
      BY DEF Init, Proc, Closing, InactiveIsZeroUnlessExcused
  <1>2. IInv /\ Zeroed /\ [Next]_vars => Zeroed'
    BY StepZero DEF IInv, Zeroed
  <1>3. Zeroed => InactiveIsZeroUnlessExcused
    BY DEF Zeroed
  <1> QED
    BY <1>1, <1>2, <1>3, Invariance, PTL DEF Spec
=============================================================================
