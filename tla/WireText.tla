------------------------------ MODULE WireText ------------------------------
(***************************************************************************)
(* UTF-8 text as the codecs of WMFS see it: a sequence of characters whose *)
(* encodings differ in length.  "a" stands for a character of one byte,    *)
(* "e" for one of two bytes and Broken for what is left of a character     *)
(* that was cut in two, which no decoder accepts.                          *)
(***************************************************************************)
EXTENDS Integers, Sequences, SequencesExt

Broken == "?"

CharBytes(c) == IF c = "e" THEN 2 ELSE 1

(* len(text.encode())                                                      *)
Bytes(text) == FoldLeft(LAMBDA n, c : n + CharBytes(c), 0, text)

(* encoded[:limit].decode("utf-8", "ignore"): the characters that fit.     *)
Prefix(text, limit) ==
    SubSeq(text, 1, CHOOSE n \in 0..Len(text) :
        /\ Bytes(SubSeq(text, 1, n)) <= limit
        /\ n < Len(text) => Bytes(SubSeq(text, 1, n + 1)) > limit)

(* encoded[:limit]: the bytes that fit, the last character cut in two.     *)
Cut(text, limit) ==
    LET whole == Prefix(text, limit) IN
    IF Bytes(text) > limit /\ Bytes(whole) < limit
    THEN Append(whole, Broken) ELSE whole

Decodable(text) == Broken \notin ToSet(text)
=============================================================================
