------------------------------- MODULE Symlinks -------------------------------
(***************************************************************************)
(* The connections and accounts of the data directory, and the symbolic    *)
(* links that JsonFileStorage keeps to them by name                        *)
(* (src/storage/json_file.rs).  A data directory d is a record:            *)
(*   configs[c]   connection.toml: name and synchronizer                   *)
(*   states[c]    connection.json: the ids of its accounts                 *)
(*   accounts[a]  account.json: connection, name, active                   *)
(*   by_name[f]   connections/by-name/f: the connection it leads to        *)
(*   links[c][f]  connections/c/accounts/f: the account it leads to        *)
(* Ids are numbers, which stand for their order.                           *)
(***************************************************************************)
EXTENDS Integers, FiniteSets, Sequences, Functions

CONSTANTS
    Name,       \* names of connections and accounts
    Sanitized,  \* Sanitized[n]: n as the name of a file, or NoName
    Lower,      \* Lower[n]: n in lower case
    NoName

ASSUME SymlinksAssumption ==
    /\ Sanitized \in [Name -> Name \cup {NoName}]
    /\ DOMAIN Lower = Name
    /\ NoName \notin Name

EmptyDirectory == [configs |-> <<>>, states |-> <<>>, accounts |-> <<>>,
                   by_name |-> <<>>, links |-> <<>>]
Set(f, x, v) == [y \in DOMAIN f \cup {x} |-> IF y = x THEN v ELSE f[y]]
Without(f, x) == [y \in DOMAIN f \ {x} |-> f[y]]

\* In the order of their ids.
list_dirs(ids) ==
    CHOOSE s \in [1 .. Cardinality(ids) -> ids] : \A i, j \in DOMAIN s : i < j => s[i] < s[j]
list_connections(d) == list_dirs(DOMAIN d.configs)
account_ids(d, c) == IF c \in DOMAIN d.states THEN d.states[c] ELSE <<>>

\* Of names that look alike the first is linked.
Linked(names, i) ==
    /\ Sanitized[names[i]] # NoName
    /\ \A j \in 1 .. (i - 1) :
          Sanitized[names[j]] = NoName \/ Lower[Sanitized[names[j]]] # Lower[Sanitized[names[i]]]
LinksTo(ids, names) ==
    LET linked == {i \in DOMAIN ids : Linked(names, i)}
    IN  [f \in {Sanitized[names[i]] : i \in linked} |->
            ids[CHOOSE i \in linked : Sanitized[names[i]] = f]]

rebuild_connection_symlinks(d) ==
    LET ids == list_connections(d)
    IN  [d EXCEPT !.by_name = LinksTo(ids, [i \in DOMAIN ids |-> d.configs[ids[i]].name])]

\* Those of a list that are in a set.
Among(ids, all) ==
    LET places == list_dirs({i \in DOMAIN ids : ids[i] \in all})
    IN  [k \in DOMAIN places |-> ids[places[k]]]

Ours(d, c) == {a \in DOMAIN d.accounts : d.accounts[a].connection = c}

\* The accounts that the connection lists, and others that name it.
collect_accounts_for_connection(d, c) ==
    LET active == {a \in Ours(d, c) : d.accounts[a].active}
        listed == Among(account_ids(d, c), active)
    IN  listed \o list_dirs(active \ Range(listed))

update_account_symlinks(d, c) ==
    LET ids == collect_accounts_for_connection(d, c)
    IN  [d EXCEPT !.links = Set(@, c, LinksTo(ids, [i \in DOMAIN ids |-> d.accounts[ids[i]].name]))]

\* Mutant: the links by name are those of the connections there were.
save_connection_NoRebuild(d, c, ids) == update_account_symlinks([d EXCEPT !.states = Set(@, c, ids)], c)

save_connection(d, c, ids) ==
    rebuild_connection_symlinks(update_account_symlinks([d EXCEPT !.states = Set(@, c, ids)], c))

save_connection_config(d, c, config) == [d EXCEPT !.configs = Set(@, c, config)]

delete_connection(d, c) ==
    rebuild_connection_symlinks(
        [d EXCEPT !.configs = Without(@, c), !.states = Without(@, c), !.links = Without(@, c)])

save_account(d, a, account) == [d EXCEPT !.accounts = Set(@, a, account)]
delete_account(d, a) == [d EXCEPT !.accounts = Without(@, a)]

\* Those by name, and those of every connection: to relink one leaves the others alone,
\* so that the order does not matter.
rebuild_all_symlinks(d) ==
    LET links == [c \in DOMAIN d.links \cup DOMAIN d.configs |->
                     IF c \in DOMAIN d.configs THEN update_account_symlinks(d, c).links[c] ELSE d.links[c]]
    IN  [rebuild_connection_symlinks(d) EXCEPT !.links = links]

-----------------------------------------------------------------------------
(* What the links promise, said without the order in which they are made *)

\* Every link leads to something of its name; what has a name that can be a file's,
\* and that nothing else has, is linked; and of those that look alike one is.
LinksLeadThere(links, named) ==
    /\ \A f \in DOMAIN links : links[f] \in DOMAIN named /\ Sanitized[named[links[f]]] = f
    /\ \A x \in DOMAIN named : Sanitized[named[x]] # NoName =>
          \E f \in DOMAIN links : Lower[f] = Lower[Sanitized[named[x]]]
    /\ \A f, g \in DOMAIN links : Lower[f] = Lower[g] => f = g

LinksFollow(d) ==
    /\ LinksLeadThere(d.by_name, [c \in DOMAIN d.configs |-> d.configs[c].name])
    /\ \A c \in DOMAIN d.states :
          c \in DOMAIN d.links /\
          LinksLeadThere(d.links[c], [a \in {b \in Ours(d, c) : d.accounts[b].active}
                                         |-> d.accounts[a].name])
=============================================================================
