------------------------------ MODULE Content ------------------------------
(***************************************************************************)
(* Device::content_query and Device::getprops: the output of a command,    *)
(* which escapes nothing, is taken apart again (src/src/services/content.rs*)
(* and props.rs).  The output is that of shell_checked, which also accepts *)
(* a stream that ended early and without an exit code (see Shell).         *)
(*                                                                         *)
(* A text is a sequence of tokens: the marks the parsers look for, and     *)
(* letters that mean nothing to them.                                      *)
(***************************************************************************)
EXTENDS Naturals, Sequences, SequencesExt

CONSTANTS
    Columns,        \* the projection: marks, "c=" for the first, ", c=" for others
    Tables,         \* tables, sequences of rows, a row being one text a column
    Tables2,        \* what the table may have become before the second query
    PropSets        \* sets of properties, name |-> text

ASSUME ContentAssumption == Columns \in Seq(STRING) /\ Columns # <<>>

VARIABLES
    table,          \* the provider's rows, as they are now
    properties,     \* the device's properties
    query,          \* where content_query is: idle, check, or what it returned
    rows,           \* the rows it has parsed
    asked,          \* history: the table at the first query
    cut,            \* history: which of the outputs ended early
    got,            \* what getprops returned
    came            \* history: how much of its output getprops was given

contentVars == <<table, properties, query, rows, asked, cut, got, came>>

NL == "\n"
CR == "\r"
RowMark == "Row: "
Notice  == "No result found."

-----------------------------------------------------------------------------
(* str::lines: a last line that is empty is none. *)
Lines(text) ==
    LET Add(ls, t) == IF t = NL THEN Append(ls, <<>>)
                      ELSE [ls EXCEPT ![Len(ls)] = Append(@, t)]
        all == FoldLeft(Add, << <<>> >>, text)
    IN  IF Last(all) = <<>> THEN Front(all) ELSE all

RECURSIVE TrimEnd(_)
TrimEnd(line) == IF line # <<>> /\ Last(line) = CR THEN TrimEnd(Front(line)) ELSE line

(* The first place of a mark in a text, 0 if there is none. *)
LastFind(text, mark) ==
    LET at == {i \in DOMAIN text : text[i] = mark}
    IN  IF at = {} THEN 0 ELSE CHOOSE i \in at : \A j \in at : j <= i
Find(text, mark) == LET IsMark(t) == t = mark IN SelectInSeq(text, IsMark)

(* parse_fields: where each column starts, each looked for after the one    *)
(* before it; the last one takes the rest of the line.                      *)
Starts(fields) ==
    LET at[i \in DOMAIN Columns] ==
            IF i = 1 THEN IF IsPrefix(<<Columns[1]>>, fields) THEN 1 ELSE 0
            ELSE LET past == SubSeq(fields, at[i - 1] + 1, Len(fields))
                     k == Find(past, Columns[i])
                 IN  IF at[i - 1] = 0 \/ k = 0 THEN 0 ELSE at[i - 1] + k
    IN  at

(* parse_rows, line by line; a result that is not ok stays so. *)
Parse(result, line) ==
    LET parsed == result.rows
        fields == SubSeq(line, 3, Len(line))    \* after "Row: " and a number
        start  == Starts(fields)
        value(i) == SubSeq(fields, start[i] + 1,
                           IF i = Len(Columns) THEN Len(fields) ELSE start[i + 1] - 1)
    IN
    IF ~result.ok \/ line = <<>> \/ line = <<Notice>> THEN result
    ELSE IF line[1] = RowMark
    THEN IF Len(line) > 1 /\ \A i \in DOMAIN Columns : start[i] # 0
         THEN [result EXCEPT !.rows = Append(parsed, [i \in DOMAIN Columns |-> value(i)])]
         ELSE [result EXCEPT !.ok = FALSE]
    ELSE IF parsed = <<>> THEN [result EXCEPT !.ok = FALSE]
    ELSE [result EXCEPT !.rows[Len(parsed)][Len(Columns)] = @ \o <<NL>> \o line]

TrimmedLines(text) == LET ls == Lines(text)
                      IN  [i \in DOMAIN ls |-> TrimEnd(ls[i])]

ParseRows(text) == FoldLeft(Parse, [rows |-> <<>>, ok |-> TRUE], TrimmedLines(text))

CountRows(text) == LET IsRow(line) == IsPrefix(<<RowMark>>, line)
                   IN  Len(SelectSeq(Lines(text), IsRow))

-----------------------------------------------------------------------------
(* parse_all: what has been parsed, and a value that goes on. *)
Open == "["
Between == "]: ["
Shut == "]"

Entry(name, value) == [name |-> name, value |-> value]

(* A value is at its end where a line of it ends in a bracket. *)
SettledAtOnce(state, e) ==
    [props |-> [x \in DOMAIN state.props \cup {e.name} |->
                   IF x = e.name THEN e.value ELSE state.props[x]],
     pending |-> <<>>]
Settled(state, e) ==
    IF e.value # <<>> /\ Last(e.value) = Shut
    THEN [props |-> [x \in DOMAIN state.props \cup {e.name} |->
                        IF x = e.name THEN Front(e.value) ELSE state.props[x]],
          pending |-> <<>>]
    ELSE [state EXCEPT !.pending = <<e>>]

ParseProp(state, line) ==
    LET k == Find(line, Between) IN
    IF state.pending # <<>>
    THEN Settled(state, [state.pending[1] EXCEPT !.value = @ \o <<NL>> \o line])
    ELSE IF IsPrefix(<<Open>>, line) /\ k > 1
    THEN Settled(state, Entry(line[2], SubSeq(line, k + 1, Len(line))))
    ELSE state

ParseAll(text) ==
    FoldLeft(ParseProp, [props |-> <<>>, pending |-> <<>>], TrimmedLines(text)).props

-----------------------------------------------------------------------------
(* What the device prints *)

RenderRow(row, columns) ==
    <<RowMark, "0 ">> \o FlattenSeq([i \in DOMAIN columns |-> <<columns[i]>> \o row[i]])
                      \o <<NL>>

Render(t, columns) ==
    IF t = <<>> THEN <<Notice, NL>>
    ELSE FlattenSeq([i \in DOMAIN t |-> RenderRow(t[i], columns)])

Names(p) == SetToSeq(DOMAIN p)      \* in the order getprop prints them
RenderProp(p, name) == <<Open, name, Between>> \o p[name] \o <<Shut, NL>>
RenderProps(p) == FlattenSeq([i \in DOMAIN Names(p) |-> RenderProp(p, Names(p)[i])])

(* The output, or with early the part of it that came before the end.      *)
Outputs(text, early) == IF early THEN {SubSeq(text, 1, k) : k \in 0 .. Len(text)}
                                 ELSE {text}

-----------------------------------------------------------------------------
(* content_query_with: two queries, each of the table as it is then.        *)
QueryRows ==
    /\ query = "idle"
    /\ asked' = table
    /\ \E early \in BOOLEAN : \E text \in Outputs(Render(table, Columns), early) :
          LET result == ParseRows(text) IN
          /\ cut' = IF early THEN {"rows"} ELSE {}
          /\ rows' = result.rows
          /\ query' = IF result.ok THEN "check" ELSE "parse"
    /\ UNCHANGED <<table, properties, got, came>>

QueryIds ==
    /\ query = "check"
    /\ \E early \in BOOLEAN :
       \E text \in Outputs(Render(table, <<Columns[1]>>), early) :
          /\ cut' = IF early THEN cut \cup {"ids"} ELSE cut
          /\ query' = IF CountRows(text) = Len(rows) THEN "ok" ELSE "parse"
    /\ UNCHANGED <<table, properties, rows, asked, got, came>>

(* shell_checked fails: a command that exits with an error, no connection. *)
QueryFails ==
    /\ query \in {"idle", "check"}
    /\ query' = "failed"
    /\ UNCHANGED <<table, properties, rows, asked, cut, got, came>>

GetProps ==
    /\ query = "idle"
    /\ \E early \in BOOLEAN : \E text \in Outputs(RenderProps(properties), early) :
          /\ cut' = IF early THEN {"props"} ELSE {}
          /\ got' = ParseAll(text) /\ came' = Len(text)
    /\ query' = "props"
    /\ UNCHANGED <<table, properties, rows, asked>>

(* Somebody else writes to the provider between the two queries. *)
TableChanges ==
    /\ query = "check"
    /\ table' \in Tables2 \ {table}
    /\ UNCHANGED <<properties, query, rows, asked, cut, got, came>>

ContentInit ==
    /\ table \in Tables /\ properties \in PropSets
    /\ query = "idle" /\ rows = <<>> /\ asked = <<>> /\ cut = {} /\ got = <<>>
    /\ came = 0

ContentNext == QueryRows \/ QueryIds \/ QueryFails \/ GetProps \/ TableChanges

-----------------------------------------------------------------------------
(* Properties *)

RowsOf(t) == {t[i] : i \in DOMAIN t}
Has(text, t) == \E i \in DOMAIN text : text[i] = t
EndsIn(text, t) == text # <<>> /\ Last(text) = t

(* A text no parser could be led astray by, blank lines apart: no line that *)
(* looks like a row or the notice, no carriage return before a line's end.  *)
Harmless(text) ==
    /\ \A i \in DOMAIN Lines(text) : i > 1 =>
          ~IsPrefix(<<RowMark>>, Lines(text)[i]) /\ Lines(text)[i] # <<Notice>>
    /\ ~Has(text, CR)

(* A line of it is empty, or its last newline ends it. *)
Blank(text) ==
    \/ EndsIn(text, NL)
    \/ \E i \in 2 .. Len(text) : text[i - 1] = NL /\ text[i] = NL

(* As the projection should be: only the last column is free text.          *)
OneLine(row) ==
    \A i \in 1 .. Len(Columns) - 1 :
        ~Has(row[i], NL) /\ \A j \in DOMAIN Columns : ~Has(row[i], Columns[j])
WellFormed(t) == \A r \in RowsOf(t) : OneLine(r) /\ Harmless(Last(r))

(* content_query is right, or an error: with whole outputs the cross-check  *)
(* finds every row too many or too few (device/mod.rs:125-127 "a mis-parse  *)
(* surfaces as an error instead of silently dropped rows"), and a table     *)
(* whose free text is in the last column comes back as it was.  One of the  *)
(* outputs may even have ended early: then no row is missing, and only the  *)
(* last one's text may be.                                                  *)
QueryIsTrue ==
    query = "ok" =>
    /\ cut = {} /\ table = asked => Len(rows) = Len(asked)
    /\ WellFormed(asked) /\ (\A r \in RowsOf(asked) : ~Blank(Last(r))) =>
          /\ cut = {} => rows = asked
          /\ cut # {"rows", "ids"} /\ table = asked =>
                /\ Len(rows) = Len(asked)
                /\ \A i \in DOMAIN rows : \A c \in DOMAIN Columns :
                      IF i = Len(rows) /\ c = Len(Columns)
                      THEN IsPrefix(rows[i][c], asked[i][c])
                      ELSE rows[i][c] = asked[i][c]

(* A text without the carriage returns at the ends of its lines; the places *)
(* of the brackets in it that end a line; and the text up to the first.     *)
Plain(v) ==
    FlattenSeq([i \in DOMAIN v |->
        IF i < Len(v) /\ v[i] = CR /\ v[i + 1] = NL THEN <<>> ELSE <<v[i]>>])
Brackets(v) == {i \in 1 .. Len(v) - 1 : v[i] = Shut /\ v[i + 1] = NL}
Shown(v) == IF Brackets(v) = {} THEN v ELSE SubSeq(v, 1, Min(Brackets(v)) - 1)

(* A line of text v that is past such a bracket says that x is t.           *)
Says(v, x, t) ==
    \E i \in DOMAIN v :
        /\ v[i] = NL /\ \E b \in Brackets(v) : b < i
        /\ IsPrefix(<<Open, x, Between>> \o t \o <<Shut>>,
                    SubSeq(v \o <<Shut>>, i + 1, Len(v) + 1))

(* The closing bracket of property x was among what came.                   *)
Came(x) ==
    \E i \in DOMAIN Names(properties) :
        /\ Names(properties)[i] = x
        /\ came >= Len(FlattenSeq([j \in 1 .. i |->
                           RenderProp(properties, Names(properties)[j])])) - 1

(* getprops returns every property whose end came, with "a value ends at    *)
(* the first line that ends in `]`" (props.rs:27) and is whole up to there; *)
(* an output that is cut short loses what had not come and nothing else.    *)
(* What else it returns can be two things: a beginning of the one value     *)
(* that was cut, if the cut is at a bracket; and, for a name that a value   *)
(* spells out as getprop would in a line past such a bracket, what it says  *)
(* there.                                                                   *)
PropsAreTrue ==
    LET text == [x \in DOMAIN properties |-> Plain(properties[x])]
        said(x, t) == \E y \in DOMAIN text : Says(text[y], x, t)
    IN
    query = "props" =>
    /\ \A x \in DOMAIN text : Came(x) =>
          x \in DOMAIN got /\ (got[x] = Shown(text[x]) \/ said(x, got[x]))
    /\ \A x \in DOMAIN got : ~(x \in DOMAIN text /\ Came(x)) =>
          \/ x \in DOMAIN text /\ IsPrefix(got[x] \o <<Shut>>, text[x])
          \/ said(x, got[x])

(* A text written on several lines, the last of them not empty, comes back  *)
(* as it was: content.rs:45-47 "a continuation belongs to that column,      *)
(* newline and all", and the test of content.rs:104, "kept whole".          *)
ValuesKeptWhole ==
    query = "ok" /\ cut = {} /\ WellFormed(asked)
    /\ (\A r \in RowsOf(asked) : ~EndsIn(Last(r), NL)) => rows = asked

=============================================================================
