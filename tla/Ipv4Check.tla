------------------------------- MODULE Ipv4Check -------------------------------
(***************************************************************************)
(* ipv4check of raw_udp.c: the checksum of an IPv4 header, for words of    *)
(* any width.  The header is the sequence of its words as they lie in      *)
(* memory.                                                                 *)
(*                                                                         *)
(* RFC 791 defines the checksum with a sum whose carry is brought around   *)
(* after every addition.  The code adds up in a wider integer and brings   *)
(* the carries around at the end, with two folds; that two are enough, and *)
(* enough whatever the words are, is what has to be shown.                 *)
(***************************************************************************)
EXTENDS Integers, Sequences

CONSTANT WordRange   \* values of a uint16_t, 2^16 in the code

ASSUME WordAssumption == WordRange \in Nat /\ WordRange > 2

Words == 0 .. WordRange - 1

--------------------------------------------------------------------------------
(* The number of words in n bytes, the last of which may be half a word. *)
WordCount(n) == 1 + (n - 1) \div 2

(* for (int i = 0; i < n; i++) sum += data[i] *)
WordSum(data, n) ==
  LET sum[i \in 0 .. n] == IF i = 0 THEN 0 ELSE sum[i - 1] + data[i] IN sum[n]

(* Mutant of Fold: the carry of the first fold is dropped. *)
FoldOnce(sum) == (sum \div WordRange) + (sum % WordRange)

(* The two assignments that bring the carries around.  The second keeps    *)
(* the bits above the word; they are cut off by the conversion in Answer.  *)
Fold(sum) ==
  LET s == (sum \div WordRange) + (sum % WordRange) IN s + s \div WordRange

(* (uint16_t) ~sum *)
Answer(sum) == (WordRange - 1 - Fold(sum)) % WordRange

ipv4check(data, n) == Answer(WordSum(data, WordCount(n)))

--------------------------------------------------------------------------------
(* The reference: addition with end-around carry. *)
OnesAdd(a, b) == IF a + b < WordRange THEN a + b ELSE a + b - WordRange + 1

OnesSum(data) ==
  LET sum[i \in 0 .. Len(data)] ==
        IF i = 0 THEN 0 ELSE OnesAdd(sum[i - 1], data[i])
  IN sum[Len(data)]

(* What a receiver looks at: the words of a header, its checksum included, *)
(* add up to a word of ones.                                               *)
Verifies(data) == OnesSum(data) = WordRange - 1

================================================================================
