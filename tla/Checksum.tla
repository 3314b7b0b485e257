------------------------------ MODULE Checksum ------------------------------
(***************************************************************************)
(* The checksum of superblock and log blocks: the XOR of all words behind  *)
(* the first, plus a constant that keeps a zeroed block from being valid.  *)
(* A word is a number below 64, XORed bit by bit.                          *)
(***************************************************************************)
EXTENDS Integers, Sequences, FiniteSets

CHECKSUM_OFFSET == 100

(* The bit of a word that stands for the given value. *)
Bit(w, value) == (w \div value) % 2

(* A bit of the XOR is set when an odd number of words have it. *)
Odd(words, value) ==
    Cardinality({k \in DOMAIN words : Bit(words[k], value) = 1}) % 2

Xor(words) ==
    Odd(words, 1) + 2 * Odd(words, 2) + 4 * Odd(words, 4)
        + 8 * Odd(words, 8) + 16 * Odd(words, 16) + 32 * Odd(words, 32)

(* Mutant: the loop ends after the word that follows the checksum. *)
FirstWordOnly(words) == Xor(<<Head(words)>>) + CHECKSUM_OFFSET

compute_checksum_xor(words) == Xor(words) + CHECKSUM_OFFSET
=============================================================================
