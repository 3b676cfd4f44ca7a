----------------------------- MODULE FuseBytes -----------------------------
(***************************************************************************)
(* Byte buffers and the cursor that reads them (bytes.rs).                 *)
(*                                                                         *)
(* A buffer is a sequence of cells of two bytes.  A cell says which part   *)
(* it is of which value, so reading a number at the wrong place, or with   *)
(* the wrong width, gives Junk.  A value is a pair <<tag, x>>; a name is a *)
(* value of any number of cells, and the NUL after it is a cell.           *)
(*                                                                         *)
(* A format is what is read in turn: numbers and strings, with the field   *)
(* each goes to, and bytes to skip.                                        *)
(***************************************************************************)
EXTENDS Integers, Sequences, TLC

Cell(v, part, of) == [val |-> v, part |-> part, of |-> of]
Cells(v, n) == [k \in 1 .. n |-> Cell(v, k, n)]
Nul == Cell(<<"nul", 0>>, 1, 1)
Junk == <<"junk", 0>>
Const(n) == <<"const", n>>
Num(v) == v[2]

\* The value that a run of cells is, if they are one.
Value(cells) ==
  IF cells # <<>> /\ cells = Cells(cells[1].val, Len(cells)) THEN cells[1].val
  ELSE Junk

From(buf, n) == SubSeq(buf, n + 1, Len(buf))
-----------------------------------------------------------------------------
\* Writer: a number is appended to the buffer in the cells of its width.
W16(v) == Cells(v, 1)
W32(v) == Cells(v, 2)
W64(v) == Cells(v, 4)
Zero == Cell(Const(0), 1, 1)
PadTo(buf, n) ==
  IF Len(buf) < n THEN buf \o [k \in 1 .. n - Len(buf) |-> Zero] ELSE buf
-----------------------------------------------------------------------------
\* Reader: u16, u32, u64, skip (of bytes) and cstr.
U16(field) == [kind |-> "int", field |-> field, cells |-> 1]
U32(field) == [kind |-> "int", field |-> field, cells |-> 2]
U64(field) == [kind |-> "int", field |-> field, cells |-> 4]
Skip(bytes) == [kind |-> "skip", field |-> "", cells |-> bytes \div 2]
CStr(field) == [kind |-> "cstr", field |-> field, cells |-> 0]

Truncated == [ok |-> FALSE]
Got(fields, rest) == [ok |-> TRUE, got |-> fields, rest |-> rest]

\* Where the first NUL is; 0 if there is none.
NulAt(buf) ==
  LET at == {k \in DOMAIN buf : buf[k] = Nul}
  IN IF at = {} THEN 0 ELSE CHOOSE k \in at : \A j \in at : k <= j

\* How many cells reading the item consumes; -1 if the buffer is too short.
Takes(item, buf) ==
  IF item.kind = "cstr" THEN IF NulAt(buf) = 0 THEN -1 ELSE NulAt(buf)
  ELSE IF item.cells <= Len(buf) THEN item.cells ELSE -1

ReadItem(item, buf) ==
  LET n == Takes(item, buf)
  IN Value(SubSeq(buf, 1, IF item.kind = "cstr" THEN n - 1 ELSE n))

RECURSIVE ReadAs(_, _, _)
ReadAs(format, buf, fields) ==
  IF format = <<>> THEN Got(fields, buf)
  ELSE LET item == Head(format)
           n == Takes(item, buf)
       IN IF n < 0 THEN Truncated
          ELSE ReadAs(Tail(format), From(buf, n),
                      IF item.kind = "skip" THEN fields
                      ELSE fields @@ (item.field :> ReadItem(item, buf)))

\* The fields of the format, and what remains; or ProtoError::Truncated.
Read(format, buf) == ReadAs(format, buf, [none |-> Junk])
=============================================================================
