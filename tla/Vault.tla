-------------------------------- MODULE Vault --------------------------------
(***************************************************************************)
(* The decoder of the firmware's data vault (thd_gddv.cpp) as operators.   *)
(*                                                                         *)
(* A buffer is a sequence of items: the header of a repository (kind       *)
(* "repo") or a key with its value (kind "key"), each with its size in     *)
(* bytes.  A value is a sequence of cells, records of t, the type of the   *)
(* object (4 a number, 8 a string, 7 a UUID, 0 untyped bytes), and v.      *)
(*                                                                         *)
(* The decoder is a record p of                                            *)
(*   frames   the calls of parse_gddv that are active, outermost first:    *)
(*            buf and at (the next item), header and major of the          *)
(*            repository, own when the buffer is a decompressed copy       *)
(*   tables   what was decoded, and thrown once an exception is raised     *)
(*   status   "parsing", "done" or "error"                                 *)
(***************************************************************************)
EXTENDS Integers, Sequences, SequencesExt, FiniteSetsExt, TLC

CONSTANTS
    Slots,         \* conditions in a set of the first format (10 in the code)
    HeaderSize     \* sizeof(struct header)

NoTables ==
    [conditions |-> <<>>, custom_conditions |-> <<>>, targets |-> <<>>, psvts |-> <<>>,
     itmts |-> <<>>, ppccs |-> <<>>, idsps |-> <<>>, trippoints |-> <<>>, vspts |-> <<>>,
     vscts |-> <<>>, vscts_name |-> "", thrown |-> FALSE]

Throw(tables) == [tables EXCEPT !.thrown = TRUE]

-----------------------------------------------------------------------------
(* Cells.  The kind of a field is "n" (get_uint64), "s" (get_string_obj),  *)
(* "l" (either, numbers as text) or "x" (twelve bytes stepped over, always *)
(* a number in a vault).                                                   *)

Fits(cell, kind) ==
    \/ kind \in {"x", "l"}
    \/ kind = "n" /\ cell.t = 4
    \/ kind = "s" /\ cell.t = 8

\* The fields can be read from the cells after the first at; stepping over
\* the end is not noticed.
Readable(cells, at, kinds) ==
    \A i \in DOMAIN kinds : kinds[i] # "x" => at + i <= Len(cells) /\ Fits(cells[at + i], kinds[i])

Field(cell, kind) == IF kind = "l" /\ cell.t # 8 THEN ToString(cell.v) ELSE cell.v

\* One row of a table; a field that is stepped over is the last one.
Row(cells, at, kinds) ==
    [i \in {k \in DOMAIN kinds : kinds[k] # "x"} |-> Field(cells[at + i], kinds[i])]

\* The loop of every table: rows after the first from cells, to the end.
ReadRows(cells, from, kinds) ==
    LET width == Len(kinds)
        count == (Len(cells) - from + width - 1) \div width
    IN  [ok |-> \A k \in 1..count : Readable(cells, from + (k - 1) * width, kinds),
         rows |-> [k \in 1..count |-> Row(cells, from + (k - 1) * width, kinds)]]

\* The rows are appended to a table, or the exception of the first bad field is thrown.
Appended(tables, field, read) ==
    IF ~read.ok THEN Throw(tables) ELSE [tables EXCEPT ![field] = @ \o read.rows]

\* The rows become one more named table.
Named(tables, field, name, read) ==
    IF ~read.ok THEN Throw(tables)
    ELSE [tables EXCEPT ![field] = Append(@, [name |-> name, rows |-> read.rows])]

\* The first cell holds a version.
HasVersion(cells) == Readable(cells, 0, <<"n">>)

\* A key without a name: nullptr.
NameOr(name, default) == IF name = "" THEN default ELSE name

\* DECI_KELVIN_TO_CELSIUS, rounded.
Celsius(t) == IF t >= 2732 THEN (t - 2732 + 5) \div 10 ELSE -((2732 - t + 5) \div 10)

-----------------------------------------------------------------------------
(* Conditions.                                                             *)

Condition(row, target) ==
    [condition |-> row.condition, device |-> row.device, comparison |-> row.comparison,
     argument |-> row.argument, time_comparison |-> "", time |-> 0, target |-> target]

\* The fields of a condition and of the time that follows the operation FOR.
ConditionFields(version) == IF version = 1 THEN <<"n", "n", "n">> ELSE <<"n", "s", "x", "n", "n">>
TimeFields(version) ==
    IF version = 1 THEN <<"x", "n", "n", "x">> ELSE <<"x", "s", "x", "n", "n", "x">>

ConditionAt(cells, at, version, target) ==
    Condition([condition |-> cells[at + 1].v,
               device |-> IF version = 1 THEN "" ELSE cells[at + 2].v,
               comparison |-> cells[at + IF version = 1 THEN 2 ELSE 4].v,
               argument |-> cells[at + IF version = 1 THEN 3 ELSE 5].v], target)

RECURSIVE ConditionsFrom(_, _, _, _)

\* A time takes the slot after its condition.
NextSlot(i, timed) == IF timed THEN i + 2 ELSE i + 1

\* The conditions of the set s (target, count slots, read so far) from slot i on;
\* s.at is the number of cells read and s.ok becomes FALSE where the code throws.
ConditionsFrom(cells, version, i, s) ==
    IF i >= s.count THEN s
    ELSE
    LET kinds == ConditionFields(version)
        after == s.at + Len(kinds)
        more  == i < s.count - 1
        timed == more /\ Readable(cells, after, <<"n">>) /\ cells[after + 1].v = "FOR"
        times == TimeFields(version)
        ok    == /\ Readable(cells, s.at, kinds)
                 /\ more => Readable(cells, after, <<"n">>)
                 /\ timed => Readable(cells, after + 1, times)
        c     == ConditionAt(cells, s.at, version, s.target)
        place == after + IF version = 1 THEN 3 ELSE 5
    IN  IF ~ok THEN [s EXCEPT !.ok = FALSE]
        ELSE ConditionsFrom(cells, version, NextSlot(i, timed),
                [s EXCEPT !.at = after + (IF more THEN 1 ELSE 0) + IF timed THEN Len(times) ELSE 0,
                          !.set = Append(@, IF timed
                                            THEN [c EXCEPT !.time_comparison = cells[place].v,
                                                           !.time = cells[place + 1].v]
                                            ELSE c)])

RECURSIVE ConditionSetsFrom(_, _, _, _)

\* The sets that begin after the first at cells.
ConditionSetsFrom(tables, cells, version, at) ==
    IF at >= Len(cells) THEN tables
    ELSE
    LET start == at + IF version = 1 THEN 1 ELSE 2
        begun == /\ Readable(cells, at, IF version = 1 THEN <<"n">> ELSE <<"n", "n">>)
                 /\ cells[at + 1].v # -1
        s     == ConditionsFrom(cells, version, 0,
                     [ok |-> TRUE, at |-> start, set |-> <<>>, target |-> cells[at + 1].v,
                      count |-> IF version = 1 THEN Slots ELSE cells[at + 2].v])
    IN  IF ~begun \/ ~s.ok THEN Throw(tables)
        ELSE ConditionSetsFrom([tables EXCEPT !.conditions = Append(@, s.set)], cells, version, s.at)

parse_apct(tables, cells) ==
    IF ~HasVersion(cells) \/ cells[1].v \notin {1, 2} THEN Throw(tables)
    ELSE ConditionSetsFrom(tables, cells, cells[1].v, 1)

\* A table of the wrong type or version is not fatal.
parse_appc(tables, cells) ==
    IF ~HasVersion(cells) \/ cells[1].v # 1 THEN tables
    ELSE Appended(tables, "custom_conditions", ReadRows(cells, 1, <<"n", "s", "s", "n", "n">>))

\* A condition of a custom number becomes the one the custom row stands for.
merge_custom(custom, c) ==
    IF c.condition = custom[1] THEN [c EXCEPT !.device = custom[3], !.condition = custom[5]] ELSE c

merge_appc(tables) ==
    [tables EXCEPT !.conditions =
        [i \in DOMAIN @ |-> [j \in DOMAIN @[i] |->
            FoldLeft(LAMBDA c, custom : merge_custom(custom, c), @[i][j], tables.custom_conditions)]]]

-----------------------------------------------------------------------------
(* The other tables.                                                       *)

parse_apat(tables, cells) ==
    IF ~HasVersion(cells) \/ cells[1].v # 2 THEN Throw(tables)
    ELSE Appended(tables, "targets", ReadRows(cells, 1, <<"n", "s", "s", "n", "s", "s">>))

parse_psvt(tables, name, cells) ==
    IF ~HasVersion(cells) \/ cells[1].v > 2 THEN Throw(tables)
    ELSE Named(tables, "psvts", NameOr(name, "Default"),
               ReadRows(cells, 1, <<"s", "s", "n", "n", "n", "n", "n", "l", "n", "n", "n", "x">>))

\* Three more fields in the second version.
parse_itmt(tables, name, cells) ==
    IF ~HasVersion(cells) THEN Throw(tables)
    ELSE IF cells[1].v > 2 THEN tables
    ELSE Named(tables, "itmts", NameOr(name, "Default"),
               ReadRows(cells, 1, <<"s", "n", "s", "s", "s">> \o
                                  IF cells[1].v = 2 THEN <<"n", "s", "n", "n">> ELSE <<"x">>))

\* A header and rows of fixed size (one cell each); a piece of a row spoils the table.
parse_itmt3(tables, name, cells) ==
    IF Len(cells) < 2 \/ \E i \in 2..Len(cells) : cells[i].t # 0 THEN tables
    ELSE Named(tables, "itmts", NameOr(name, "Default"),
               [ok |-> TRUE, rows |-> [i \in 1..(Len(cells) - 1) |-> cells[i + 1].v]])

\* Both limits must be there; the second counts when no part of it is zero.
parse_ppcc(tables, name, cells) ==
    IF Len(cells) < 13 THEN tables
    ELSE [tables EXCEPT !.ppccs = Append(@,
             [name |-> name, limit |-> [i \in 1..5 |-> cells[i + 2].v],
              limit_1_valid |-> \A i \in 9..13 : cells[i].v # 0])]

get_ppcc_param(tables, name) == {p \in ToSet(tables.ppccs) : p.name = name /\ name = "TCPU.D0"}

parse_vspt(tables, cells) ==
    IF ~HasVersion(cells) THEN Throw(tables)
    ELSE IF cells[1].v > 1 THEN tables
    ELSE LET read == ReadRows(cells, 1, <<"n", "n">>)
         IN  Appended(tables, "vspts",
                 [ok |-> read.ok, rows |-> [i \in DOMAIN read.rows |->
                     <<Celsius(read.rows[i][1]), read.rows[i][2] \div 10>>]])

\* The name is taken whatever the version.
parse_vsct(tables, name, cells) ==
    LET named == [tables EXCEPT !.vscts_name = NameOr(name, "vsct")]
    IN  IF ~HasVersion(cells) THEN Throw(named)
        ELSE IF cells[1].v > 1 THEN named
        ELSE Appended(named, "vscts", ReadRows(cells, 1, <<"s", "n", "n", "n", "n", "n", "n">>))

\* UUIDs up to the first entry that is malformed.
parse_idsp(tables, cells) ==
    LET bad  == {i \in DOMAIN cells : cells[i].t # 7}
        good == IF bad = {} THEN Len(cells) ELSE Min(bad) - 1
    IN  [tables EXCEPT !.idsps = @ \o [i \in 1..good |-> cells[i].v]]

search_idsp(tables, uuid) == uuid \in ToSet(tables.idsps)

\* The ACPI names that begin with the letter the code looks for.
TripTypes ==
    [point \in {"_crt", "_cr3"} |-> "CRITICAL"] @@ [point \in {"_psv"} |-> "PASSIVE"]
        @@ [point \in {"_hot"} |-> "HOT"] @@ [point \in {"_ac0", "_ac1", "_ac2"} |-> "ACTIVE"]

parse_trip_point(tables, name, point, cells) ==
    IF cells = <<>> THEN tables
    ELSE [tables EXCEPT !.trippoints = Append(@,
             [name |-> name, temp |-> Celsius(cells[1].v),
              type |-> IF point \in DOMAIN TripTypes THEN TripTypes[point] ELSE "INVALID"])]

\* The first trip of the type of the participant's first domain; -1 when there is none.
get_trip_temp(tables, name, type) ==
    LET found == {i \in DOMAIN tables.trippoints : /\ tables.trippoints[i].name = name \o ".D0"
                                                   /\ tables.trippoints[i].type = type}
    IN  IF found = {} THEN -1 ELSE tables.trippoints[Min(found)].temp

\* Read for the log only, but a malformed row is an exception all the same.
parse_trt(tables, cells) ==
    IF ReadRows(cells, 0, <<"s", "s", "n", "n", "n", "n", "n", "n">>).ok THEN tables ELSE Throw(tables)

-----------------------------------------------------------------------------
(* Keys and repositories.                                                  *)

\* Part i of a key's path, "" when there are fewer.
Part(path, i) == IF i <= Len(path) THEN path[i] ELSE ""

\* What a key names: participants/name/type/point, shared/tables/type/point or
\* shared/.../type; other keys name nothing.
KeyNames(path) ==
    CASE Part(path, 1) = "participants" ->
             [name |-> Part(path, 2), type |-> Part(path, 3), point |-> Part(path, 4)]
      [] Part(path, 1) = "shared" ->
             [name |-> "", type |-> Part(path, 3),
              point |-> IF Part(path, 2) = "tables" THEN Part(path, 4) ELSE ""]
      [] OTHER -> [name |-> "", type |-> "", point |-> ""]

\* The table is named by the point, else by the participant.
TableName(key) == IF key.point # "" THEN key.point ELSE key.name

Dispatch(tables, key, cells) ==
    CASE key.type = "apct" -> parse_apct(tables, cells)
      [] key.type = "appc" -> parse_appc(tables, cells)
      [] key.type = "apat" -> parse_apat(tables, cells)
      [] key.type = "psvt" -> parse_psvt(tables, TableName(key), cells)
      [] key.type = "itmt" -> parse_itmt(tables, TableName(key), cells)
      [] key.type = "itmt3" -> parse_itmt3(tables, TableName(key), cells)
      [] key.type = "vsct" -> parse_vsct(tables, TableName(key), cells)
      [] key.type = "vspt" -> parse_vspt(tables, cells)
      [] key.type = "_trt" -> parse_trt(tables, cells)
      [] key.type = "ppcc" /\ key.name # "" -> parse_ppcc(tables, key.name, cells)
      [] key.type = "idsp" /\ key.name # "" -> parse_idsp(tables, cells)
      [] key.type = "trippoint" /\ key.name # "" /\ key.point # "" ->
             parse_trip_point(tables, key.name, key.point, cells)
      [] OTHER -> tables

\* A key whose lengths do not fit the buffer is an exception.
parse_gddv_key(tables, item) ==
    IF item.cut THEN Throw(tables) ELSE Dispatch(tables, KeyNames(item.path), item.cells)

\* Bytes from item at to the end of the buffer.
BytesFrom(buf, at) == FoldFunction(+, 0, [i \in at..Len(buf) |-> buf[i].size])

\* The payload of a compressed repository, in a buffer of its own.
handle_compressed_gddv(item) ==
    [buf |-> <<item>> \o item.payload, at |-> 2, header |-> item.size, major |-> item.major, own |-> TRUE]

\* parse_gddv is called for the header at item at of buf.
Call(p, buf, at) ==
    LET item == buf[at]
    IN  IF BytesFrom(buf, at) < HeaderSize \/ item.major \notin {1, 2}
        THEN [p EXCEPT !.status = "error"]
        ELSE IF item.major = 2 /\ item.compressed
        THEN IF item.spoilt THEN [p EXCEPT !.status = "error"]
             ELSE [p EXCEPT !.frames = Append(@, handle_compressed_gddv(item))]
        ELSE [p EXCEPT !.frames = Append(@, [buf |-> buf, at |-> at + 1, header |-> item.size,
                                             major |-> item.major, own |-> FALSE])]

\* parse_gddv returns.  The caller goes on where it ended; the end of a
\* decompressed buffer is not handed on.
Return(p) ==
    LET callers == Front(p.frames)
    IN  IF callers = <<>> THEN [p EXCEPT !.frames = <<>>, !.status = "done"]
        ELSE [p EXCEPT !.frames = IF Last(p.frames).own THEN callers
                                  ELSE [callers EXCEPT ![Len(callers)].at = Last(p.frames).at]]

\* Mutant: the size of a whole header is asked for after a key as well.
AtEndEarly(f) == BytesFrom(f.buf, f.at) <= 2 * f.header

\* Nothing is read that begins in the last bytes, as many as a header has.
AtEnd(f) == BytesFrom(f.buf, f.at) <= f.header

KeyRead(p, f, tables) ==
    [p EXCEPT !.tables = tables,
              !.frames[Len(p.frames)].at = f.at + 1,
              !.status = IF tables.thrown THEN "error" ELSE @]

\* One round of the loop of parse_gddv; f is the innermost call.  The first
\* format has keys only, without signatures.
parse_gddv(p, f) ==
    CASE AtEnd(f) -> Return(p)
      [] ~AtEnd(f) /\ f.buf[f.at].kind = "key" -> KeyRead(p, f, parse_gddv_key(p.tables, f.buf[f.at]))
      [] ~AtEnd(f) /\ f.buf[f.at].kind = "repo" /\ f.major = 2 -> Call(p, f.buf, f.at)
      [] OTHER -> [p EXCEPT !.status = "error"]

\* The vault that is read: the file in the firmware directory, when that is
\* allowed and its owner and mode are right, else what the INT3400 device shows.
gddv_load(source) ==
    IF source.feature /\ source.file_trusted /\ source.file # <<>> THEN source.file ELSE source.device

\* gddv_init up to the first item.
gddv_init(source) ==
    LET start == [frames |-> <<>>, tables |-> NoTables, status |-> "parsing"]
        buf   == gddv_load(source)
    IN  IF buf = <<>> \/ (buf # <<>> /\ buf[1].kind # "repo") THEN [start EXCEPT !.status = "error"]
        ELSE Call(start, buf, 1)

\* What gddv_init does with the tables of a vault that was read to its end.
Merged(p) == [p EXCEPT !.tables = merge_appc(@)]
=============================================================================
