------------------------------ MODULE MyValues ------------------------------
(* One cell of a MySQL table on each of the ways apitap carries it: the binlog *)
(* decoder, and the binary result set as LOAD DATA text, as Postgres COPY, as  *)
(* RowBinary and as Arrow. A value a lane accepts must be the value the server *)
(* holds, whatever the encodings fold, bias, complement, pad or leave out.     *)
(* Also the column types prepare gives a table that comes from another engine. *)
EXTENDS Integers, Sequences, FiniteSets

CONSTANTS
    Base,      \* values of a byte in the integer encodings (256 in the code)
    Years, Months, Days,   \* civil dates tried, 0 for the parts MySQL lets be zero
    FracBase,  \* the packed TIME's fraction field (2^24), above its micros
    Unit,      \* micros a step of the short fraction stands for (10 000, 100)
    Short,     \* values of the short fraction field (256, 65 536)
    Bias,      \* of the packed TIME's integer part (0x800000)
    DigPer,    \* decimal digits of a full NEWDECIMAL group (9)
    DecDigits, \* digits a scaled integer holds (38)
    Widths     \* declared lengths of the string columns tried by prepare

VARIABLES
    cell,   \* the column's type and the value the server holds
    got     \* what the lane that carried it delivered: lane -> result

vars == <<cell, got>>

Lanes == {"binlog", "tsv", "copy", "rowbinary", "arrow"}
Refused == [as |-> "refused"]
Text(v) == [as |-> "text", v |-> v]    \* a spelling the destination reads
Typed(v) == [as |-> "typed", v |-> v]  \* a number or bytes in the destination's type

-----------------------------------------------------------------------------
(* Integers: w bytes of the declared type; MEDIUMINT is 3 in the binlog, 4 in a result set. *)
Sent(v, w) == v % (Base ^ w)
Signed(raw, w) == IF 2 * raw >= Base ^ w THEN raw - Base ^ w ELSE raw
ReadAs(raw, w, unsigned) == IF unsigned THEN raw ELSE Signed(raw, w)
ResultWidth(w) == IF w = 3 THEN 4 ELSE w

\* decode_cell: the width's own sign, MEDIUMINT extended from 24 bits to 32 first.
BinlogInt(c) ==
    LET raw == Sent(c.v, c.w)
        wide == IF 2 * raw >= Base ^ 3 THEN raw + (Base ^ 4 - Base ^ 3) ELSE raw
    IN Text(IF c.w = 3 /\ ~c.u THEN Signed(wide, 4) ELSE ReadAs(raw, c.w, c.u))

\* my_tsv and tsv_write: the text of the integer in the result set.
TsvInt(c) == Text(ReadAs(Sent(c.v, ResultWidth(c.w)), ResultWidth(c.w), c.u))

\* my_pg: signed only, so an unsigned type is widened, BIGINT UNSIGNED to numeric (0).
PgWidth(c) == IF ~c.u THEN IF c.w = 1 THEN 2 ELSE ResultWidth(c.w)
              ELSE CASE c.w = 1 -> 2 [] c.w = 2 -> 4 [] c.w \in {3, 4} -> 8 [] c.w = 8 -> 0
Narrowed(v, w) == IF w = 0 THEN v ELSE Signed(v % (Base ^ w), w)
PgInt(c) == Typed(Narrowed(TsvInt(c).v, PgWidth(c)))

\* my_ar delivers as my_pg does; ar_cell reads the cell and widens it.
ArWidth(c) == IF c.u THEN CASE c.w = 1 -> 2 [] c.w = 2 -> 4 [] c.w \in {3, 4} -> 8 [] c.w = 8 -> 0
              ELSE IF c.w = 1 THEN 2 ELSE ResultWidth(c.w)
ArInt(c) == Typed(Narrowed(ReadAs(Sent(c.v, ResultWidth(c.w)), ResultWidth(c.w), c.u), ArWidth(c)))

\* my_rb and encode_value: the bytes are copied, and the destination's column has the same
\* width and sign.
RbInt(c) == Typed(ReadAs(Sent(c.v, ResultWidth(c.w)), ResultWidth(c.w), c.u))

IntCells ==
    {[k |-> "int", w |-> w, u |-> u, v |-> v] : w \in {1, 2, 3, 4, 8}, u \in BOOLEAN,
        v \in UNION {{-(Base ^ n) \div 2, (Base ^ n) \div 2 - 1, (Base ^ n) \div 2, Base ^ n - 1, -1, 0, 1} :
                     n \in {1, 2, 3, 4, 8}}}
ValidInt(c) == IF c.u THEN c.v \in 0..(Base ^ c.w - 1)
               ELSE c.v \in (-(Base ^ c.w) \div 2)..((Base ^ c.w) \div 2 - 1)

-----------------------------------------------------------------------------
(* YEAR: LOAD DATA reads a text of one digit as a year of this century. *)
ReadYear(t) == IF t.digits = 4 THEN t.n ELSE 2000 + t.n
BinlogYear(c) ==
    LET byte == IF c.v = 0 THEN 0 ELSE c.v - 1900
    IN Text(ReadYear(IF byte = 0 THEN [digits |-> 4, n |-> 0] ELSE [digits |-> 4, n |-> 1900 + byte]))
TsvYear(c) == Text(ReadYear([digits |-> 4, n |-> c.v]))
TypedYear(c) == Typed(c.v)

YearCells == {[k |-> "year", v |-> y] : y \in {0, 1901, 1999, 2000, 2155}}

-----------------------------------------------------------------------------
(* Dates. DayNumber is the reference: days since 1970-01-01 counted from the month lengths. *)
Leap(y) == y % 4 = 0 /\ (y % 100 # 0 \/ y % 400 = 0)
MonthDays(y) == <<31, IF Leap(y) THEN 29 ELSE 28, 31, 30, 31, 30, 31, 31, 30, 31, 30, 31>>
YearStart(y) == 365 * y + (y + 3) \div 4 - (y + 99) \div 100 + (y + 399) \div 400
MonthStart[y \in Years, m \in 1..12] ==
    IF m = 1 THEN 0 ELSE MonthStart[y, m - 1] + MonthDays(y)[m - 1]
DayNumber(y, m, d) == YearStart(y) + MonthStart[y, m] + d - 1 - YearStart(1970)

days_from_civil(y0, m, d) ==
    LET y == IF m <= 2 THEN y0 - 1 ELSE y0
        era == y \div 400   \* both branches of the code's truncating division
        yoe == y - era * 400
        mp == (m + 9) % 12
        doy == (153 * mp + 2) \div 5 + d - 1
        doe == yoe * 365 + yoe \div 4 - yoe \div 100 + doy
    IN era * 146097 + doe - 719468

civil_from_days(days) ==
    LET z == days + 719468
        era == z \div 146097
        doe == z - era * 146097
        yoe == (doe - doe \div 1460 + doe \div 36524 - doe \div 146096) \div 365
        doy == doe - (365 * yoe + yoe \div 4 - yoe \div 100)
        mp == (5 * doy + 2) \div 153
        m == IF mp < 10 THEN mp + 3 ELSE mp - 9
    IN <<yoe + era * 400 + IF m <= 2 THEN 1 ELSE 0, m, doy - (153 * mp + 2) \div 5 + 1>>

\* The binary result set's payload: nothing for the zero value, and trailing zero parts left
\* out (4, 7 or 11 bytes).
Payload(c) ==
    [len |-> CASE c.us # 0 -> 11 [] c.us = 0 /\ c.h + c.mi + c.s # 0 -> 7
               [] OTHER -> IF c.y + c.m + c.d = 0 THEN 0 ELSE 4, cell |-> c]
Clock(p) == <<IF p.len >= 7 THEN p.cell.h ELSE 0, IF p.len >= 7 THEN p.cell.mi ELSE 0,
              IF p.len >= 7 THEN p.cell.s ELSE 0, IF p.len >= 11 THEN p.cell.us ELSE 0>>

\* bin_date_days: the zero date and a partial one have no day.
bin_date_days(p) ==
    IF p.len < 4 \/ p.cell.m = 0 \/ p.cell.d = 0 THEN Refused
    ELSE Typed(days_from_civil(p.cell.y, p.cell.m, p.cell.d))

bin_datetime_micros(p) ==
    LET day == bin_date_days(p)
    IN IF day = Refused THEN Refused ELSE Typed(<<day.v>> \o Clock(p))

\* write_date, write_datetime: the zero value is relayed as its literal.
write_date(p) == IF p.len = 0 THEN Text(<<0, 0, 0>>) ELSE Text(<<p.cell.y, p.cell.m, p.cell.d>>)
write_datetime(p) ==
    IF p.len = 0 THEN Text(<<0, 0, 0, 0, 0, 0, 0>>) ELSE Text(write_date(p).v \o Clock(p))

\* decode_cell, DATE: 15 bits of year, 4 of month, 5 of day.
BinlogDate(c) ==
    LET v == c.y * 512 + c.m * 32 + c.d
    IN Text(<<v \div 512, (v \div 32) % 16, v % 32>>)

\* read_frac: what the tail of fsp digits holds, in micros; and the digits printed.
FracUnit(fsp) == CASE fsp = 0 -> 1000000 [] fsp \in {1, 2} -> 10000 [] fsp \in {3, 4} -> 100
                   [] OTHER -> 1
read_frac(c) == IF c.fsp = 0 THEN 0 ELSE (c.us \div FracUnit(c.fsp)) * FracUnit(c.fsp)
push_frac(us, fsp) == IF fsp = 0 THEN 0 ELSE (us \div (10 ^ (6 - fsp))) * 10 ^ (6 - fsp)

\* DATETIME2: a sign bit and 17 bits of year * 13 + month, then the day; the clock below.
BinlogDatetime(c) ==
    LET hi == 2 ^ 22 + (c.y * 13 + c.m) * 32 + c.d
        v == hi % (2 ^ 22)
        ym == v \div 32
        lo == c.h * 4096 + c.mi * 64 + c.s
    IN Text(<<ym \div 13, ym % 13, v % 32, (lo \div 4096) % 32, (lo \div 64) % 64, lo % 64,
              push_frac(read_frac(c), c.fsp)>>)

\* TIMESTAMP2: seconds since 1970, here as days and a rest; nought is the zero TIMESTAMP.
BinlogTimestamp(c) ==
    LET zero == c.y + c.m + c.d = 0
        days == IF zero THEN 0 ELSE DayNumber(c.y, c.m, c.d)
        rem == c.h * 3600 + c.mi * 60 + c.s
    IN IF days = 0 /\ rem = 0 /\ read_frac(c) = 0 THEN Text(<<0, 0, 0, 0, 0, 0, 0>>)
       ELSE Text(civil_from_days(days)
                 \o <<rem \div 3600, (rem % 3600) \div 60, rem % 60, read_frac(c)>>)

Dates == {<<y, m, d>> \in Years \X Months \X Days :
    /\ y = 0 => m = 0 /\ d = 0
    /\ (m = 0 \/ d <= MonthDays(y)[m])}
Clocks == {<<0, 0, 0>>, <<0, 0, 1>>, <<23, 59, 59>>}
Stamp(k, d, t, f) == [k |-> k, y |-> d[1], m |-> d[2], d |-> d[3], h |-> t[1], mi |-> t[2],
                      s |-> t[3], fsp |-> f[1], us |-> f[2]]
Fractions == {<<0, 0>>, <<2, 120000>>, <<4, 100>>, <<6, 1>>, <<6, 0>>, <<6, 999999>>}
DateCells ==
    {Stamp("date", d, <<0, 0, 0>>, <<0, 0>>) : d \in Dates} \cup
    {Stamp("datetime", d, t, f) : d \in Dates, t \in Clocks, f \in Fractions} \cup
    {Stamp("timestamp", d, t, f) :
        d \in {e \in Dates : e[2] # 0 /\ e[3] # 0 /\ e[1] \in 1970..2105}, t \in Clocks, f \in Fractions} \cup
    {Stamp("timestamp", <<0, 0, 0>>, <<0, 0, 0>>, <<0, 0>>)}
\* The epoch itself is not a TIMESTAMP.
ValidDate(c) == c.k = "timestamp" => ~(<<c.y, c.m, c.d, c.h, c.mi, c.s>> = <<1970, 1, 1, 0, 0, 0>>)

-----------------------------------------------------------------------------
(* TIME: a signed number of seconds and a fraction, packed into one number. *)
Rem(n, k) == IF n < 0 THEN -((-n) % k) ELSE n % k   \* the server's C remainder

\* How the server writes it: the integer part floored and biased; the short fraction as the
\* remainder, in a field that wraps; the long one as a single biased number.
TimeBytes(c) ==
    LET packed == (IF c.neg THEN -1 ELSE 1) * (c.int * FracBase + c.frac)
    IN [int |-> Bias + packed \div FracBase,
        short |-> (IF packed < 0 THEN -((-Rem(packed, FracBase)) \div Unit)
                   ELSE Rem(packed, FracBase) \div Unit) % Short,
        whole |-> packed + Bias * FracBase]

\* Mutant: the two halves are decoded apart.
TimePackedApart(b, fsp) == (b.int - Bias) * FracBase + b.short * Unit

\* decode_cell, TIME2: a negative value with a fraction borrowed a second.
TimePacked(b, fsp) ==
    LET ip == b.int - Bias
        borrow == ip < 0 /\ b.short # 0
    IN CASE fsp = "none" -> ip * FracBase
         [] fsp = "short" -> (IF borrow THEN ip + 1 ELSE ip) * FracBase
                             + (IF borrow THEN b.short - Short ELSE b.short) * Unit
         [] fsp = "long" -> b.whole - Bias * FracBase

BinlogTime(c) ==
    LET packed == TimePacked(TimeBytes(c), c.fsp)
        a == IF packed < 0 THEN -packed ELSE packed
    IN Text([neg |-> packed < 0, int |-> a \div FracBase, frac |-> a % FracBase])

TimeCells ==
    {[k |-> "time", neg |-> n, int |-> i, frac |-> f, fsp |-> p] :
        n \in BOOLEAN, i \in 0..(Bias - 2), f \in 0..(FracBase - 2), p \in {"none", "short", "long"}}
ValidTime(c) ==
    /\ c.fsp = "none" => c.frac = 0
    /\ c.fsp = "short" => c.frac % Unit = 0 /\ c.frac \div Unit < Short
    /\ c.int + c.frac = 0 => ~c.neg

-----------------------------------------------------------------------------
(* DECIMAL(p, s): digits in groups, the first bit the sign, complemented when negative.       *)
(* Groups here are of DigPer digits in one byte, as the code's leftover groups of two are.    *)
Number(ds) == LET n[i \in 0..Len(ds)] == IF i = 0 THEN 0 ELSE 10 * n[i - 1] + ds[i] IN n[Len(ds)]
Digits(v, w) == [i \in 1..w |-> (v \div 10 ^ (w - i)) % 10]
Groups(ds, fromRight) ==
    LET rest == Len(ds) % DigPer
        full == Len(ds) \div DigPer
        at(i) == IF fromRight THEN SubSeq(ds, rest + (i - 1) * DigPer + 1, rest + i * DigPer)
                 ELSE SubSeq(ds, (i - 1) * DigPer + 1, i * DigPer)
        whole == [i \in 1..full |-> at(i)]
    IN IF rest = 0 THEN whole
       ELSE IF fromRight THEN <<SubSeq(ds, 1, rest)>> \o whole
       ELSE Append(whole, SubSeq(ds, full * DigPer + 1, Len(ds)))
DecBytes(c) ==
    LET g == Groups(c.int, TRUE) \o Groups(c.frac, FALSE)
        b == [i \in 1..Len(g) |-> IF c.neg THEN 255 - Number(g[i]) ELSE Number(g[i])]
    IN [b EXCEPT ![1] = (@ + 128) % 256]

\* The text without the leading zeros of the integer part, as the server prints it.
Stripped(ds) ==
    LET nz == {i \in DOMAIN ds : ds[i] # 0}
        first == CHOOSE i \in nz : \A j \in nz : i <= j
    IN IF nz = {} THEN <<0>> ELSE SubSeq(ds, first, Len(ds))
DecText(c) == [neg |-> c.neg, int |-> Stripped(c.int), frac |-> c.frac]

\* decode_decimal: zero groups before the first that is not print nothing, the later ones are
\* padded; the fraction's are always padded.
decode_decimal(c) ==
    LET raw == DecBytes(c)
        neg == raw[1] < 128
        b == [i \in 1..Len(raw) |->
                 LET x == IF i = 1 THEN (raw[1] + 128) % 256 ELSE raw[i]
                 IN IF neg THEN 255 - x ELSE x]
        shape == Groups(c.int, TRUE)
        out[i \in 0..Len(shape)] ==
            IF i = 0 THEN << >>
            ELSE IF out[i - 1] # << >> THEN out[i - 1] \o Digits(b[i], Len(shape[i]))
            ELSE IF b[i] = 0 THEN << >> ELSE Stripped(Digits(b[i], DigPer))
        int == out[Len(shape)]
        tail == Groups(c.frac, FALSE)
        frac[i \in 0..Len(tail)] ==
            IF i = 0 THEN << >> ELSE frac[i - 1] \o Digits(b[Len(shape) + i], Len(tail[i]))
    IN Text([neg |-> neg, int |-> IF int = << >> THEN <<0>> ELSE int, frac |-> frac[Len(tail)]])

\* dec_bytes_to_scaled_i128 on the server's text, where the precision fits; else the text.
ScaledOf(t) == (IF t.neg THEN -1 ELSE 1) * Number(t.int \o t.frac)
RbDecimal(c) == IF Len(c.int) + Len(c.frac) <= DecDigits THEN Typed(ScaledOf(DecText(c)))
                ELSE Text(DecText(c))

Precisions == {<<1, 0>>, <<3, 0>>, <<5, 0>>, <<0, 2>>, <<2, 1>>, <<4, 3>>}
DecCells ==
    UNION {{[k |-> "decimal", neg |-> n, int |-> Digits(v, p[1]), frac |-> Digits(f, p[2])] :
               n \in BOOLEAN, v \in {x \in {0, 1, 10, 99, 100, 10007} : x < 10 ^ p[1]},
               f \in {x \in {0, 1, 10, 99, 101} : x < 10 ^ p[2]}} : p \in Precisions}
ValidDec(c) == c.neg => Number(c.int \o c.frac) # 0

-----------------------------------------------------------------------------
(* Strings. A CHAR, BINARY, ENUM or SET column's metadata folds two bits of the length into   *)
(* the type byte; the value's prefix is one byte or two by that length.                       *)
StringMetaWritten(type, len) == [rt |-> type - (len \div 256) * 16, low |-> len % 256]

string_meta(m) ==
    LET high == 3 - ((m.rt \div 16) % 4)
    IN [rt |-> m.rt + high * 16, len |-> m.low + high * 256]

Prefix(len) == IF len < 256 THEN 1 ELSE 2

\* MT_STRING: a prefix read at the wrong width puts every later column out of step (-1);
\* BINARY(n) comes without its trailing zeros and is padded back.
BinlogString(c) ==
    LET meta == string_meta(StringMetaWritten(254, c.len))
        onWire == IF c.binary THEN c.size ELSE c.size + c.zeros
    IN IF meta.rt # 254 \/ Prefix(meta.len) # Prefix(c.len) THEN Text(<<-1, -1>>)
       ELSE IF c.binary /\ onWire < meta.len THEN Text(<<onWire, meta.len - onWire>>)
       ELSE Text(<<c.size, onWire - c.size>>)
StringText(c) == Text(<<c.size, c.zeros>>)
StringCells ==
    {[k |-> "string", binary |-> FALSE, len |-> l, size |-> n, zeros |-> 0] :
        l \in {1, 255, 256, 512, 768, 1020}, n \in {0, 1}} \cup
    {[k |-> "string", binary |-> TRUE, len |-> l, size |-> n, zeros |-> l - n] :
        l \in {1, 255}, n \in {0, 1}}

\* BIT(n): whole bytes plus one when bits are left over. -1 when the width is not the server's.
BinlogBit(c) == IF c.n \div 8 + (IF c.n % 8 > 0 THEN 1 ELSE 0) = (c.n + 7) \div 8
                THEN Text(c.v) ELSE Text(-1)
BitCells == {[k |-> "bit", n |-> n, v |-> v] : n \in {1, 7, 8, 9, 12, 64}, v \in {0, 1}}

\* ENUM, SET: the index or the bitmask by the labels of the catalog, known or not, whole or
\* (a column altered under the stream) too few.
render_enum(labels, v) ==
    CASE v = 0 -> Text(<< >>)
      [] v # 0 /\ v <= Len(labels) -> Text(<<labels[v]>>)
      [] OTHER -> Refused
render_set(labels, bits) ==
    IF labels = << >> \/ \E b \in bits : b > Len(labels) THEN Refused
    ELSE Text([i \in 1..Cardinality(bits) |->
                  labels[CHOOSE b \in bits : Cardinality({x \in bits : x < b}) = i - 1]])
Labels == <<"a", "b", "c">>
EnumCells ==
    {[k |-> "enum", v |-> v, known |-> n] : v \in 0..3, n \in {0, 2, 3}} \cup
    {[k |-> "set", bits |-> b, known |-> n] : b \in SUBSET (1..3), n \in {0, 2, 3}}
Known(c) == SubSeq(Labels, 1, c.known)

-----------------------------------------------------------------------------
Binlog(c) ==
    CASE c.k = "int" -> BinlogInt(c) [] c.k = "year" -> BinlogYear(c) [] c.k = "date" -> BinlogDate(c)
      [] c.k = "datetime" -> BinlogDatetime(c) [] c.k = "timestamp" -> BinlogTimestamp(c)
      [] c.k = "time" -> BinlogTime(c) [] c.k = "decimal" -> decode_decimal(c)
      [] c.k = "string" -> BinlogString(c) [] c.k = "bit" -> BinlogBit(c)
      [] c.k = "enum" -> render_enum(Known(c), c.v) [] c.k = "set" -> render_set(Known(c), c.bits)

\* What the server itself prints: TIME by CAST, the rest already text or bytes in the result.
ServerText(c) ==
    CASE c.k = "decimal" -> Text(DecText(c)) [] c.k = "string" -> StringText(c)
      [] c.k = "time" -> Text([neg |-> c.neg, int |-> c.int, frac |-> c.frac])
      [] c.k = "bit" -> Text(c.v)
      [] c.k = "enum" -> render_enum(Labels, c.v) [] c.k = "set" -> render_set(Labels, c.bits)

Tsv(c) ==
    CASE c.k = "int" -> TsvInt(c) [] c.k = "year" -> TsvYear(c) [] c.k = "date" -> write_date(Payload(c))
      [] c.k \in {"datetime", "timestamp"} -> write_datetime(Payload(c))
      [] OTHER -> ServerText(c)

\* The typed lanes share the temporal decoders and differ in the integers and decimals.
TypedLane(c, int, dec) ==
    CASE c.k = "int" -> int [] c.k = "decimal" -> dec
      [] c.k = "year" -> TypedYear(c) [] c.k = "date" -> bin_date_days(Payload(c))
      [] c.k \in {"datetime", "timestamp"} -> bin_datetime_micros(Payload(c))
      [] OTHER -> ServerText(c)

Carried(lane, c) ==
    CASE lane = "binlog" -> Binlog(c) [] lane = "tsv" -> Tsv(c)
      [] lane = "copy" -> IF c.k = "int" THEN PgInt(c) ELSE TypedLane(c, Refused, Text(DecText(c)))
      [] lane = "rowbinary" ->
             IF c.k = "int" THEN RbInt(c)
             ELSE IF c.k = "decimal" THEN RbDecimal(c) ELSE TypedLane(c, Refused, Refused)
      [] lane = "arrow" ->
             IF c.k = "int" THEN ArInt(c)
             ELSE IF c.k = "decimal" THEN RbDecimal(c) ELSE TypedLane(c, Refused, Refused)

Cells ==
    {c \in IntCells : ValidInt(c)} \cup YearCells \cup {c \in DateCells : ValidDate(c)}
    \cup {c \in TimeCells : ValidTime(c)} \cup {c \in DecCells : ValidDec(c)}
    \cup StringCells \cup BitCells \cup EnumCells

Init == cell \in Cells /\ got = << >>

Carry(lane) ==
    /\ got = << >>
    /\ got' = [l \in {lane} |-> Carried(lane, cell)]
    /\ UNCHANGED cell

Over == got # << >> /\ UNCHANGED vars

Next == Over \/ \E lane \in Lanes : Carry(lane)

Spec == Init /\ [][Next]_vars

-----------------------------------------------------------------------------
(* The types a staging table gets when the source is another engine: columns are sequences of *)
(* declared lengths, 0 for a type that is not a bounded string, with the set of the key's.    *)
RowLimit == 65535
Cost(n) == 4 * n + 2
bounded(n) == n # 0 /\ n <= 16383

\* prepare: keys always keep VARCHAR; the others in column order while the row fits.
as_varchar(cols, key) ==
    LET fixed[i \in 0..Len(cols)] ==
            IF i = 0 THEN 0
            ELSE fixed[i - 1] + (IF ~bounded(cols[i]) THEN 16 ELSE IF i \in key THEN Cost(cols[i]) ELSE 0)
        rest[i \in 0..Len(cols)] ==
            IF i = 0 THEN [bytes |-> fixed[Len(cols)], kept |-> {j \in key : bounded(cols[j])}]
            ELSE IF ~bounded(cols[i]) \/ i \in key THEN rest[i - 1]
            ELSE IF rest[i - 1].bytes + Cost(cols[i]) <= RowLimit
                 THEN [bytes |-> rest[i - 1].bytes + Cost(cols[i]), kept |-> rest[i - 1].kept \cup {i}]
                 ELSE [rest[i - 1] EXCEPT !.bytes = @ + 16]
    IN rest[Len(cols)].kept

\* A key part that is no VARCHAR, or one past 768 characters, is refused; other types index.
pk_unindexable(cols, key) ==
    \E i \in key : cols[i] # 0 /\ (i \notin as_varchar(cols, key) \/ cols[i] > 768)

RowBytes(cols, key) ==
    LET sum[i \in 0..Len(cols)] ==
            IF i = 0 THEN 0
            ELSE sum[i - 1] + IF i \in as_varchar(cols, key) THEN Cost(cols[i]) ELSE 16
    IN sum[Len(cols)]

Deferred(cols, key) == {i \in 1..Len(cols) : bounded(cols[i]) /\ i \notin as_varchar(cols, key)}

Layouts == {<<a, b, c>> : a, b, c \in Widths}

-----------------------------------------------------------------------------
\* What the server holds, in the form a lane delivers.
Holds(c, as) ==
    CASE c.k \in {"int", "year"} -> c.v
      [] c.k = "date" -> IF as = "text" THEN <<c.y, c.m, c.d>> ELSE DayNumber(c.y, c.m, c.d)
      [] c.k \in {"datetime", "timestamp"} ->
             (IF as = "text" THEN <<c.y, c.m, c.d>> ELSE <<DayNumber(c.y, c.m, c.d)>>)
             \o <<c.h, c.mi, c.s, c.us>>
      [] c.k = "decimal" -> IF as = "text" THEN DecText(c) ELSE ScaledOf(c)
      [] OTHER -> ServerText(c).v

\* Only these may be refused: a date without a calendar day where the destination's type has
\* no such value, and a label the catalog no longer has.
MayRefuse(c, lane) ==
    \/ c.k \in {"date", "datetime", "timestamp"} /\ c.m * c.d = 0 /\ lane \notin {"binlog", "tsv"}
    \/ c.k = "enum" /\ lane = "binlog" /\ c.v > c.known
    \/ c.k = "set" /\ lane = "binlog" /\ (c.known = 0 \/ \E b \in c.bits : b > c.known)

\* Whatever lane carries a cell, bulk or binlog, the destination gets the value the server
\* holds or the run is refused, and only a value that has no counterpart is refused: rows that
\* CDC touches and rows it does not never spell one value in two ways (decode_cell, encode_value,
\* encode_pg, tsv_write, ar_cell).
LanesAgree ==
    \A lane \in DOMAIN got :
        IF got[lane] = Refused THEN MayRefuse(cell, lane)
        ELSE got[lane].v = Holds(cell, got[lane].as)

\* A staging table prepare accepts fits MySQL's row but for the pointers of the strings that
\* were deferred to LONGTEXT last, which the greedy pass does not reserve (prepare).
RowsFit ==
    \A cols \in Layouts, key \in SUBSET (1..3) :
        \/ pk_unindexable(cols, key)
        \/ RowBytes(cols, key) <= RowLimit + 16 * Cardinality(Deferred(cols, key))
=============================================================================
