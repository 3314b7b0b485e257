------------------------------- MODULE Json -------------------------------
(***************************************************************************)
(* The JSON reader and writer of the HTTP library (frozen), which takes    *)
(* the ids out of every request and makes the replies of the queries.  A   *)
(* text is a sequence of characters.  The reader is an operator for each   *)
(* function of the parser, from a parser state to the next one; the server *)
(* lets it allocate its tokens, so there is room for all of them.          *)
(***************************************************************************)
EXTENDS Integers, Sequences, SequencesExt

INVALID == -1       \* JSON_STRING_INVALID
INCOMPLETE == -2    \* JSON_STRING_INCOMPLETE
END == "end"        \* END_OF_STRING

is_space(ch) == ch \in {" ", "\t", "\r", "\n"}
is_alpha(ch) == ch \in {"a", "b", "d", "e", "f", "g", "h", "i", "l", "n", "o",
                        "p", "r", "s", "t", "u", "x"}
Digits == <<"0", "1", "2", "3", "4", "5", "6", "7", "8", "9">>
is_digit(ch) == ch \in Range(Digits)
is_hex_digit(ch) == is_digit(ch) \/ ch \in {"a", "b", "d", "e", "f"}

(* struct frozen; rc is what the function called last returns. *)
Frozen == [cur |-> 1, toks |-> <<>>, rc |-> 0]

Fail(f, rc) == [f EXCEPT !.rc = rc]

(* TRY and EXPECT leave the function at the first error. *)
TRY(f, Rest(_)) == IF f.rc < 0 THEN f ELSE Rest(f)
EXPECT(ok, f, rc, Rest(_)) == IF ok THEN Rest(f) ELSE Fail(f, rc)

left(s, f) == Len(s) - f.cur + 1
CharAt(s, f) == IF f.cur > Len(s) THEN END ELSE s[f.cur]

(* f with cur behind the run of characters that Ok accepts. *)
Past(s, f, Ok(_)) ==
    [f EXCEPT !.cur = CHOOSE i \in f.cur..Len(s) + 1 :
        /\ \A k \in f.cur..i - 1 : Ok(s[k])
        /\ i = Len(s) + 1 \/ ~Ok(s[i])]

Ahead(f, n) == [f EXCEPT !.cur = @ + n]

skip_whitespaces(s, f) == Past(s, f, is_space)
cur(s, f) == CharAt(s, skip_whitespaces(s, f))

test_and_skip(s, f, ch) ==
    LET h == skip_whitespaces(s, f)
    IN  IF CharAt(s, h) = ch THEN Ahead(h, 1)
        ELSE Fail(h, IF CharAt(s, h) = END THEN INCOMPLETE ELSE INVALID)

(* At the backslash: how much longer than it the escape is, or an error. *)
get_escape_len(s, f) ==
    LET ch == IF f.cur < Len(s) THEN s[f.cur + 1] ELSE END
    IN  IF ch = "u"
        THEN IF left(s, f) < 6 THEN INCOMPLETE
             ELSE IF \A i \in 2..5 : is_hex_digit(s[f.cur + i]) THEN 5 ELSE INVALID
        ELSE IF ch \in {"\"", "\\", "/", "b", "f", "n", "r", "t"}
             THEN IF left(s, f) < 2 THEN INCOMPLETE ELSE 1
        ELSE INVALID

capture_ptr(f, ptr, type) ==
    [f EXCEPT !.toks = Append(@, [ptr |-> ptr, len |-> 0, num_desc |-> 0, type |-> type])]

capture_len(f, ind, ptr) ==
    [f EXCEPT !.toks[ind].len = ptr - f.toks[ind].ptr,
              !.toks[ind].num_desc = Len(f.toks) - ind]

(* The token captured last ends where the parser stands. *)
EndToken(f) == capture_len(f, Len(f.toks), f.cur)

----------------------------------------------------------------------------
(* The scalars. *)
parse_identifier(s, f) ==
    LET h == skip_whitespaces(s, f)
    IN  EndToken(Past(s, capture_ptr(h, h.cur, "string"),
                      LAMBDA ch : ch = "_" \/ is_alpha(ch) \/ is_digit(ch)))

(* The characters of a string up to its closing quote; one that no quote   *)
(* follows, or that ends the text, is incomplete.                          *)
RECURSIVE StringTail(_, _)
StringTail(s, f) ==
    LET ch == CharAt(s, f)
        n  == get_escape_len(s, f)
    IN  IF ch = END \/ left(s, f) <= 1 THEN Fail(f, INCOMPLETE)
        ELSE IF ch = "\"" THEN Ahead(EndToken(f), 1)
        ELSE IF ch # "\\" THEN StringTail(s, Ahead(f, 1))
        ELSE IF n > 0 THEN StringTail(s, Ahead(f, 1 + n))
        ELSE Fail(f, n)

parse_string(s, f) ==
    TRY(test_and_skip(s, f, "\""),
        LAMBDA h : StringTail(s, capture_ptr(h, h.cur, "string")))

(* digit+ *)
SomeDigits(s, f) ==
    EXPECT(f.cur <= Len(s), f, INCOMPLETE, LAMBDA h :
        EXPECT(is_digit(s[h.cur]), h, INVALID, LAMBDA k : Past(s, k, is_digit)))

(* f, or what Rest makes of it behind one of the characters. *)
Optional(s, f, Chars, Rest(_)) ==
    IF f.rc >= 0 /\ CharAt(s, f) \in Chars THEN Rest(Ahead(f, 1)) ELSE f

parse_number(s, f) ==
    LET h    == skip_whitespaces(s, f)
        sign == Optional(s, capture_ptr(h, h.cur, "number"), {"-"}, LAMBDA k : k)
        int  == SomeDigits(s, sign)
        frac == Optional(s, int, {"."}, LAMBDA k : SomeDigits(s, k))
        exp  == Optional(s, frac, {"e", "E"}, LAMBDA k :
                    EXPECT(k.cur <= Len(s), k, INCOMPLETE, LAMBDA j :
                        SomeDigits(s, Optional(s, j, {"+", "-"}, LAMBDA i : i))))
    IN  TRY(exp, EndToken)

(* null, true and false. *)
expect(s, f, word, type) ==
    LET h    == capture_ptr(f, f.cur, type)
        n    == IF left(s, h) < Len(word) THEN left(s, h) ELSE Len(word)
        same == \A i \in 1..n : s[h.cur + i - 1] = word[i]
    IN  IF ~same THEN Fail(h, INVALID)
        ELSE IF n < Len(word) THEN Fail(h, INCOMPLETE)
        ELSE EndToken(Ahead(h, n))

----------------------------------------------------------------------------
(* Values, pairs, and the loops of arrays and objects; a comma may follow  *)
(* each element and need not.                                              *)
RECURSIVE parse_value(_, _)
RECURSIVE Elements(_, _, _)

parse_key(s, f) ==
    LET ch == cur(s, f)
    IN  IF is_alpha(ch) THEN parse_identifier(s, f)
        ELSE IF ch = "\"" THEN parse_string(s, f)
        ELSE Fail(f, IF ch = END THEN INCOMPLETE ELSE INVALID)

parse_pair(s, f) ==
    TRY(parse_key(s, f), LAMBDA k :
        TRY(test_and_skip(s, k, ":"), LAMBDA v : parse_value(s, v)))

Elements(s, f, close) ==
    LET Comma(h) == Optional(s, skip_whitespaces(s, h), {","}, LAMBDA k : k)
        element  == IF close = "}" THEN parse_pair(s, f) ELSE parse_value(s, f)
    IN  IF cur(s, f) = close THEN f
        ELSE TRY(element, LAMBDA h : Elements(s, Comma(h), close))

Container(s, f, open, close, type) ==
    LET ind == Len(f.toks) + 1
    IN  TRY(test_and_skip(s, f, open), LAMBDA h :
        TRY(Elements(s, capture_ptr(h, h.cur - 1, type), close), LAMBDA k :
        TRY(test_and_skip(s, k, close), LAMBDA j : capture_len(j, ind, j.cur))))

parse_array(s, f) == Container(s, f, "[", "]", "array")
parse_object(s, f) == Container(s, f, "{", "}", "object")

parse_value(s, f) ==
    LET h == skip_whitespaces(s, f)
        ch == CharAt(s, h)
    IN  CASE ch = "\"" -> parse_string(s, h)
          [] ch = "{"  -> parse_object(s, h)
          [] ch = "["  -> parse_array(s, h)
          [] ch = "n"  -> expect(s, h, <<"n", "u", "l", "l">>, "null")
          [] ch = "t"  -> expect(s, h, <<"t", "r", "u", "e">>, "true")
          [] ch = "f"  -> expect(s, h, <<"f", "a", "l", "s", "e">>, "false")
          [] ch = "-" \/ is_digit(ch) -> parse_number(s, h)
          [] OTHER -> Fail(h, IF ch = END THEN INCOMPLETE ELSE INVALID)

doit(s) ==
    IF s = <<>> THEN Fail(Frozen, INCOMPLETE)
    ELSE TRY(parse_object(s, Frozen), LAMBDA f : capture_ptr(f, f.cur, "eof"))

(* The tokens of a text, none if it cannot be read. *)
Tokens(f) == IF f.rc < 0 THEN <<>> ELSE f.toks

parse_json2(s) == Tokens(doit(s))

(* The text of a token. *)
TokenText(s, tok) == SubSeq(s, tok.ptr, tok.ptr + tok.len - 1)

(* Mutant: the members of a container are taken for members of the object *)
(* it is in.                                                               *)
DescendantsNone(tok) == 0

(* What is stepped over with a value. *)
Descendants(tok) == IF tok.type \in {"array", "object"} THEN tok.num_desc ELSE 0

(* The first part of a path: what comes before an index or a dot. *)
path_part_len(p) ==
    LET At == {i \in DOMAIN p : p[i] \in {"[", "."}}
    IN  IF At = {} THEN Len(p) ELSE Min(At) - 1

compare(s, str, len) == \A i \in 1..len : s[i] = str[i]

(* find_json_token for a path that is one key, as all of the server's are: *)
(* the keys of the object are compared in turn, and a value that is a      *)
(* container is stepped over with its descendants.  0 if there is none.    *)
RECURSIVE KeyFrom(_, _, _, _)
KeyFrom(s, toks, key, i) ==
    IF i - 2 >= toks[1].num_desc \/ toks[i].type # "string" THEN 0
    ELSE IF /\ toks[i].len = path_part_len(key)
            /\ compare(key, TokenText(s, toks[i]), path_part_len(key)) THEN i + 1
    ELSE KeyFrom(s, toks, key, i + 2 + Descendants(toks[i + 1]))

find_json_token(s, toks, key) ==
    IF toks[1].type # "object" THEN 0 ELSE KeyFrom(s, toks, key, 2)

----------------------------------------------------------------------------
(* The writer.  Texts fit the buffers the server gives it.                 *)
DigitsOf[n \in Nat] ==
    IF n < 10 THEN <<Digits[n + 1]>> ELSE DigitsOf[n \div 10] \o <<Digits[(n % 10) + 1]>>

json_emit_long(n) == IF n < 0 THEN <<"-">> \o DigitsOf[-n] ELSE DigitsOf[n]

Escaped(ch) ==
    CASE ch \in {"\"", "\\"} -> <<"\\", ch>>
      [] ch = "\n" -> <<"\\", "n">>
      [] ch = "\r" -> <<"\\", "r">>
      [] ch = "\t" -> <<"\\", "t">>
      [] OTHER -> <<ch>>

json_emit_quoted_str(str) == <<"\"">> \o FlattenSeq([i \in DOMAIN str |-> Escaped(str[i])])
                             \o <<"\"">>

(* json_emit: a format and its arguments. *)
RECURSIVE json_emit(_, _)
json_emit(fmt, args) ==
    IF fmt = <<>> THEN <<>>
    ELSE CASE Head(fmt) = "i" -> json_emit_long(Head(args)) \o json_emit(Tail(fmt), Tail(args))
           [] Head(fmt) = "s" -> json_emit_quoted_str(Head(args)) \o json_emit(Tail(fmt), Tail(args))
           [] Head(fmt) = "T" -> <<"t", "r", "u", "e">> \o json_emit(Tail(fmt), args)
           [] Head(fmt) = "F" -> <<"f", "a", "l", "s", "e">> \o json_emit(Tail(fmt), args)
           [] OTHER -> <<Head(fmt)>> \o json_emit(Tail(fmt), args)

(* stoull: the number that a text begins with. *)
stoull(str) ==
    LET digits == SelectInSeq(str, LAMBDA ch : ~is_digit(ch))
        lead   == IF digits = 0 THEN str ELSE SubSeq(str, 1, digits - 1)
        Value(ch) == (CHOOSE i \in DOMAIN Digits : Digits[i] = ch) - 1
    IN  FoldLeft(LAMBDA acc, ch : 10 * acc + Value(ch), 0, lead)
=============================================================================
