-------------------------------- MODULE Heads ---------------------------------
(***************************************************************************)
(* What the head of a response is made with: the decimal numerals of       *)
(* server/helpers.rs, two digits at a time from a table and from the       *)
(* right of a fixed buffer, and the choice of a content encoding from      *)
(* Accept-Encoding (AcceptEncoding of server/encoding.rs).  Pure code:     *)
(* each behaviour is one call with one input.                              *)
(***************************************************************************)
EXTENDS Integers, Sequences, FiniteSets

CONSTANTS
  Statuses,   \* status codes
  Numbers,    \* numbers that are written
  MaxTags     \* bound: tags of an Accept-Encoding header

VARIABLES call, out
vars == <<call, out>>

-----------------------------------------------------------------------------
(* DEC_DIGITS_LUT holds the two digits of each number below 100.           *)
Lut(d) == <<d \div 10, d % 10>>
Digit(n) == <<n>>
Blank == -1

(* write_status_line writes into the 13 bytes "HTTP/1.1    ", at curr and  *)
(* leftwards; the result is what follows the version.                      *)
StatusLine(n) ==
  LET rest == n \div 100
      digits == (IF rest < 10 THEN Digit(rest) ELSE Lut(rest)) \o Lut(n % 100)
      blanks == 5 - Len(digits) - 1
  IN [i \in 1..blanks |-> Blank] \o [i \in DOMAIN digits |-> digits[i]] \o (IF n > 999 THEN <<Blank, Blank>> ELSE <<Blank>>)

(* convert_usize: four digits while there are more, then two, then one or  *)
(* two.                                                                    *)
LastDigitsTwo(n) == Lut(n)
LastDigits(n) == IF n < 10 THEN Digit(n) ELSE Lut(n)
UptoFour(n) == IF n >= 100 THEN LastDigits(n \div 100) \o Lut(n % 100) ELSE LastDigits(n)
RECURSIVE ConvertUsize(_)
ConvertUsize(n) ==
  IF n >= 10000
  THEN LET rem == n % 10000 IN ConvertUsize(n \div 10000) \o Lut(rem \div 100) \o Lut(rem % 100)
  ELSE UptoFour(n)

(* write_content_length has a buffer of its own below 10, 100 and 1000.    *)
WriteContentLength(n) ==
  CASE n < 10 -> Digit(n)
    [] n >= 10 /\ n < 100 -> Lut(n)
    [] n >= 100 /\ n < 1000 -> Digit(n \div 100) \o Lut(n % 100)
    [] OTHER -> ConvertUsize(n)

-----------------------------------------------------------------------------
(* ContentEncoding::from and its quality, in tenths.                       *)
Encoding(name) == IF name \in {"br", "gzip", "deflate"} THEN name ELSE "identity"
Quality(encoding) ==
  CASE encoding = "br" -> 11 [] encoding = "gzip" -> 10 [] encoding = "deflate" -> 9 [] OTHER -> 1

(* AcceptEncoding::new: the text after ";" is read as a number, which      *)
(* "q=0.5" is not.                                                         *)
AcceptEncoding(tag) ==
  [encoding |-> Encoding(tag.name), quality |-> IF tag.q = "none" THEN Quality(Encoding(tag.name)) ELSE 0]

(* parse: a stable sort, the best first, of which the first is taken.      *)
Parse(tags) ==
  LET encodings == [i \in DOMAIN tags |-> AcceptEncoding(tags[i])]
      best == {i \in DOMAIN tags : \A j \in DOMAIN tags : encodings[j].quality <= encodings[i].quality}
  IN encodings[CHOOSE i \in best : \A j \in best : i <= j].encoding

-----------------------------------------------------------------------------
Tags == [name : {"br", "gzip", "deflate", "identity", "*"}, q : {"none", "q=0", "q=0.5", "q=1"}]
Calls == [fn : {"status"}, arg : Statuses] \cup [fn : {"length"}, arg : Numbers]
           \cup [fn : {"accept"}, arg : UNION {[1..n -> Tags] : n \in 1..MaxTags}]

Init == call \in Calls /\ out = <<>>
Run ==
  /\ out = <<>>
  /\ out' = CASE call.fn = "status" -> StatusLine(call.arg)
              [] call.fn = "length" -> WriteContentLength(call.arg)
              [] call.fn = "accept" -> <<Parse(call.arg)>>
  /\ UNCHANGED call
Next == Run
Spec == Init /\ [][Next]_vars

-----------------------------------------------------------------------------
Value(digits) ==
  LET value[i \in 0..Len(digits)] == IF i = 0 THEN 0 ELSE 10 * value[i - 1] + digits[i]
  IN value[Len(digits)]
Written(fn) == call.fn = fn /\ out # <<>>

(* What call and out are.                                                  *)
TypeOK == call.fn \in {"status", "length", "accept"} /\ Len(out) <= 10

(* Content-Length is the number's decimal numeral, without a leading zero  *)
(* and with a digit for every step of the conversion, in particular at the *)
(* borders of its cases: 9, 99, 999, 9999 and numbers like 10005 whose     *)
(* inner digits are zero.                                                  *)
Decimal == Written("length") => Value(out) = call.arg /\ (out[1] = 0 => out = <<0>>)

(* The status line is " nnn " for every status the server can have: the    *)
(* digits never reach the blank after the version.                         *)
ThreeDigits ==
  Written("status") => /\ Len(out) = 5 /\ out[1] = Blank /\ out[5] = Blank
                       /\ Value(SubSeq(out, 2, 4)) = call.arg

(* A body is compressed only in a way the client named, and one it         *)
(* excluded with "q=0" is used only if every tag has an explicit quality:  *)
(* all of these count as nothing, so the first is taken, however it is     *)
(* rated (encoding.rs:826).                                                *)
Negotiated ==
  (Written("accept") /\ out[1] # "identity") =>
     \E i \in DOMAIN call.arg :
        /\ call.arg[i].name = out[1]
        /\ call.arg[i].q # "none" => \A j \in DOMAIN call.arg : call.arg[j].q # "none"
=============================================================================
