---------------------------- MODULE QueryParams -----------------------------
(***************************************************************************)
(* The path and query validation of the API routes, http/params.rs: a       *)
(* repeated key is invalid, an unknown key is ignored, and a number decodes *)
(* like JavaScript's Number(text) and must then be an integer in range.     *)
(*                                                                          *)
(* A text is what is left of it after js_trim.  The text of a number is a   *)
(* record [word, sign, radix, whole, fraction, exponent] of its parts: word *)
(* is "digits", "empty", "Infinity" or "other", radix is 10 unless a 0x, 0o *)
(* or 0b prefix follows the optional sign, and whole and fraction are       *)
(* sequences of digits.  Every other text is a record [name, length,        *)
(* letters]: its length in UTF-16 code units, and whether all its letters   *)
(* may stand in a genre key.                                                *)
(***************************************************************************)
EXTENDS Integers, SequencesExt

CONSTANTS
    MaxSafeInteger,     \* MAX_SAFE_INTEGER, 2^53 - 1
    DefaultPageSize,    \* DEFAULT_PAGE_SIZE
    MaxPageSize,        \* MAX_PAGE_SIZE
    SearchMaxPageSize,  \* SEARCH_MAX_PAGE_SIZE
    MaxTermLength       \* SEARCH_MAX_TERM_LENGTH

ASSUME QueryParamsAssumption ==
    /\ \A n \in {MaxSafeInteger, DefaultPageSize, MaxPageSize, SearchMaxPageSize, MaxTermLength} : n \in Nat \ {0}
    /\ DefaultPageSize <= MaxPageSize /\ MaxPageSize <= MaxSafeInteger

Invalid == [valid |-> FALSE]
Valid(value) == [valid |-> TRUE, value |-> value]

-----------------------------------------------------------------------------
(* JavaScript's Number(text) *)

\* The value of a text as a set: a number that is not finite or not whole, and
\* a text that is no number, are no value of a parameter.
NoNumber == {}

Horner(digits, radix) == FoldLeft(LAMBDA value, digit : value * radix + digit, 0, digits)

AllBelow(digits, radix) == \A k \in DOMAIN digits : digits[k] < radix

\* A prefix is one of the bare text, so a signed one is not a number.
RadixNumber(text) ==
    IF text.sign = "" /\ text.whole # << >> /\ text.fraction = << >> /\ AllBelow(text.whole, text.radix)
    THEN {Horner(text.whole, text.radix)}
    ELSE NoNumber

Signed(sign, n) == IF sign = "-" THEN -n ELSE n

\* n times 10 ^ shift, where that is a whole number.
Shifted(n, shift) ==
    CASE shift = 0 -> {n}
      [] shift > 0 -> {n * 10 ^ shift}
      [] shift < 0 /\ n % 10 ^ (-shift) = 0 -> {n \div 10 ^ (-shift)}
      [] OTHER -> NoNumber

\* is_decimal_literal: at least one digit in the mantissa.
DecimalNumber(text) ==
    UNION {Shifted(Signed(text.sign, Horner(mantissa, 10)), text.exponent - Len(text.fraction)) :
               mantissa \in {m \in {text.whole \o text.fraction} : m # << >> /\ AllBelow(m, 10)}}

JsNumber(text) ==
    CASE text.word = "empty" -> {0}
      [] text.word \in {"Infinity", "other"} -> NoNumber
      [] text.word = "digits" -> IF text.radix = 10 THEN DecimalNumber(text) ELSE RadixNumber(text)

IntegerIn(text, min, max) ==
    LET values == {n \in JsNumber(text) : n \in min..max /\ n <= MaxSafeInteger}
    IN  IF values = {} THEN Invalid ELSE Valid(CHOOSE n \in values : TRUE)

-----------------------------------------------------------------------------
(* The parameters of the routes: a query is a sequence of <<key, text>> *)

PositionsOf(query, key) == {k \in DOMAIN query : query[k][1] = key}

\* single: what Parse makes of the one value, or default without one.
Single(query, key, default, Parse(_)) ==
    LET positions == PositionsOf(query, key)
    IN  IF positions = {} THEN default
        ELSE IF \E k \in positions : positions = {k} THEN Parse(query[CHOOSE k \in positions : TRUE][2])
        ELSE Invalid

Offset(query) == Single(query, "offset", Valid(0), LAMBDA text : IntegerIn(text, 0, MaxSafeInteger))

\* A size that is read without its upper bound.
SizeUnbounded(query, default, max) ==
    Single(query, "size", Valid(default), LAMBDA text : IntegerIn(text, 1, MaxSafeInteger))

Size(query, default, max) == Single(query, "size", Valid(default), LAMBDA text : IntegerIn(text, 1, max))

Page(query, default, max) ==
    LET offset == Offset(query)
        size == Size(query, default, max)
    IN  IF offset.valid /\ size.valid THEN Valid([offset |-> offset.value, size |-> size.value]) ELSE Invalid

Pagination(query) == Page(query, DefaultPageSize, MaxPageSize)

Term(query) ==
    Single(query, "q", Invalid, LAMBDA text : IF text.length \in 1..MaxTermLength THEN Valid(text.name) ELSE Invalid)

Search(query) ==
    LET page == Page(query, SearchMaxPageSize, SearchMaxPageSize)
    IN  IF Term(query).valid THEN page ELSE Invalid

BrowseOrders == {"best-selling", "most-downloaded", "newest", "oldest", "name-asc", "name-desc"}
IsGenreKey(text) == text.letters /\ text.length \in 1..64

Genre(query) == Single(query, "genre", Invalid, LAMBDA text : IF IsGenreKey(text) THEN Valid(text.name) ELSE Invalid)
Order(query) == Single(query, "order", Invalid, LAMBDA text : IF text.name \in BrowseOrders THEN Valid(text.name) ELSE Invalid)

Browse(query) == IF Genre(query).valid /\ Order(query).valid THEN Pagination(query) ELSE Invalid

\* game_id: a segment that does not decode, or is white space only, is invalid.
PathId(segment) == IF segment.decodes /\ segment.length > 0 THEN Valid(segment) ELSE Invalid
=============================================================================
