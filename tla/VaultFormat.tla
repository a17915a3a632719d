----------------------------- MODULE VaultFormat -----------------------------
(***************************************************************************)
(* How firmware writes a data vault: the cells of each table, as far as    *)
(* the readers of thd_gddv.cpp show the format.  It is the reference the   *)
(* decoder of Vault is checked against.                                    *)
(***************************************************************************)
EXTENDS Integers, Sequences, SequencesExt, TLC

N(v) == [t |-> 4, v |-> v]
S(v) == [t |-> 8, v |-> v]

Concat(parts) == FoldLeft(LAMBDA acc, part : acc \o part, <<>>, parts)

\* A place of a set of conditions: what is compared, and what joins it to the next.
Place(version, condition, device, comparison, argument) ==
    IF version = 1 THEN <<N(condition), N(comparison), N(argument)>>
    ELSE <<N(condition), S(device), N(0), N(comparison), N(argument)>>

\* A time takes a place of its own, joined by FOR; it always names what comes next.
ConditionCells(version, c, last) ==
    Place(version, c.condition, c.device, c.comparison, c.argument) \o
    IF c.time # 0
    THEN <<N("FOR")>> \o Place(version, "Time", "", c.time_comparison, c.time) \o <<N("AND")>>
    ELSE IF last THEN <<>> ELSE <<N("AND")>>

Places(set) == FoldLeft(LAMBDA n, c : n + IF c.time # 0 THEN 2 ELSE 1, 0, set)

SetCells(version, set) ==
    <<N(set[1].target)>> \o (IF version = 1 THEN <<>> ELSE <<N(Places(set))>>) \o
    Concat([j \in DOMAIN set |-> ConditionCells(version, set[j], j = Len(set))])

ConditionTable(version, sets) == <<N(version)>> \o Concat([i \in DOMAIN sets |-> SetCells(version, sets[i])])

\* Rows of fields of the kinds "n" (a number), "s" (a string), "l" (a string, or a
\* number that is read as text) and "x" (unused).
Numerals == "5" :> 5
RowCells(kinds, row) ==
    [i \in DOMAIN kinds |->
        CASE kinds[i] = "x" -> N(0)
          [] kinds[i] = "l" /\ row[i] \in DOMAIN Numerals -> N(Numerals[row[i]])
          [] kinds[i] = "n" -> N(row[i])
          [] OTHER -> S(row[i])]

Table(version, kinds, rows) == <<N(version)>> \o Concat([i \in DOMAIN rows |-> RowCells(kinds, rows[i])])

Key(path, cells) ==
    [kind |-> "key", size |-> 2 + Len(path) + Len(cells), path |-> path, cells |-> cells, cut |-> FALSE]

\* A repository header; the payload is that of a compressed one.
Repo(major, payload) ==
    [kind |-> "repo", size |-> 4, major |-> major, compressed |-> payload # <<>>, spoilt |-> FALSE,
     payload |-> payload]

\* Values without typed cells.
Bytes(values) == [i \in DOMAIN values |-> [t |-> 0, v |-> values[i]]]
Uuids(values) == [i \in DOMAIN values |-> [t |-> 7, v |-> values[i]]]
DeciKelvinOf(celsius) == 2732 + 10 * celsius
=============================================================================
