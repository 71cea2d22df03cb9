-------------------------------- MODULE Utf8 --------------------------------
(***************************************************************************)
(* The strict UTF-8 checks of src/libpgagroal/utf8.c:                      *)
(* pgagroal_validate_utf8_password (ASCII fast path, then a scan that      *)
(* rejects on the first illegal character) and pgagroal_utf8_char_length   *)
(* (the same scan over a counted buffer, returning the number of code      *)
(* points or (size_t)-1).  Each is a state machine that consumes one       *)
(* character per step.  pg_utf_mblen and pg_utf8_islegal come from the     *)
(* PostgreSQL sources bundled with pgagroal, not from src/; they are       *)
(* written from spec section 4.4.  A reference definition, independent of  *)
(* both, says what valid UTF-8 is: a concatenation of encodings of         *)
(* Unicode scalar values.                                                  *)
(***************************************************************************)
EXTENDS Integers, Sequences, SequencesExt

CONSTANTS
    Bytes,    \* the byte values inputs are made of (never 0: C strings)
    MaxLen,   \* longest input
    Garbage,  \* what lies in memory after the end of a counted buffer
    NULL,     \* a NULL pointer (the password argument, the return value)
    Running   \* no value returned yet

ASSUME Bytes \subseteq 1..255 /\ MaxLen \in Nat /\ Garbage \subseteq 0..255

(* The two C functions; the password may be a NULL pointer.                *)
Functions == {"validate", "char_length"}
Inputs == BoundedSeq(Bytes, MaxLen)
SIZE_MAX == -1   \* (size_t)-1

VARIABLES
    fn,       \* which function runs
    input,    \* its input bytes (or NULL)
    mem,      \* the bytes the scan can read: input, then what follows it
    i,        \* bytes consumed (p - password, or i)
    count,    \* code points counted (pgagroal_utf8_char_length)
    result    \* Running, or the returned value

vars == <<fn, input, mem, i, count, result>>

-----------------------------------------------------------------------------
(* pg_utf_mblen: the length the lead byte announces; a byte that is not a  *)
(* lead byte announces 1.                                                  *)
pg_utf_mblen(b) ==
    CASE b < \h80            -> 1
      [] b \div 32 = 6       -> 2   \* 110xxxxx
      [] b \div 16 = 14      -> 3   \* 1110xxxx
      [] b \div 8 = 30       -> 4   \* 11110xxx
      [] OTHER               -> 1

(* pg_utf8_islegal(source, length): the length is 1..4, every trailing     *)
(* byte is a continuation byte, the second byte is restricted so that the  *)
(* form is the shortest one and no surrogate or value above U+10FFFF is    *)
(* encoded, and the lead byte is neither a continuation byte, C0, C1 nor   *)
(* above F4.                                                               *)
SecondByteRange(lead) ==
    CASE lead = \hE0 -> \hA0..\hBF
      [] lead = \hED -> \h80..\h9F
      [] lead = \hF0 -> \h90..\hBF
      [] lead = \hF4 -> \h80..\h8F
      [] OTHER       -> \h80..\hBF

pg_utf8_islegal(s, len) ==
    /\ len \in 1..4
    /\ \A k \in 3..len : s[k] \in \h80..\hBF
    /\ len >= 2 => s[2] \in SecondByteRange(s[1])
    /\ ~(s[1] \in \h80..\hC1) /\ s[1] <= \hF4

(* HIGHBIT and IS_HIGHBIT_SET of the compatibility header the bundled     *)
(* PostgreSQL sources are built with: ((unsigned char)(ch) & 0x80).        *)
HIGHBIT == \h80
IS_HIGHBIT_SET(ch) == (ch % 256) \div HIGHBIT = 1

(* pg_is_ascii: no byte has its high bit set.                              *)
pg_is_ascii(s) == \A k \in 1..Len(s) : ~IS_HIGHBIT_SET(s[k])

-----------------------------------------------------------------------------
(* The reference: decode a candidate character arithmetically and accept   *)
(* it when it is a scalar value whose encoding is exactly these bytes.     *)
Encode(cp) ==
    CASE cp < \h80    -> <<cp>>
      [] cp < \h800   -> <<\hC0 + cp \div 64, \h80 + (cp % 64)>>
      [] cp < \h10000 -> <<\hE0 + cp \div 4096, \h80 + ((cp \div 64) % 64),
                           \h80 + (cp % 64)>>
      [] OTHER        -> <<\hF0 + cp \div 262144, \h80 + ((cp \div 4096) % 64),
                           \h80 + ((cp \div 64) % 64), \h80 + (cp % 64)>>

Decode(t) ==
    LET lead == CASE Len(t) = 1 -> t[1]
                  [] Len(t) = 2 -> t[1] - \hC0
                  [] Len(t) = 3 -> t[1] - \hE0
                  [] OTHER      -> t[1] - \hF0
        RECURSIVE Acc(_, _)
        Acc(v, k) == IF k > Len(t) THEN v ELSE Acc(v * 64 + t[k] - \h80, k + 1)
    IN  Acc(lead, 2)

IsScalar(cp) == cp \in 0..\h10FFFF /\ cp \notin \hD800..\hDFFF

IsChar(t) == IsScalar(Decode(t)) /\ Encode(Decode(t)) = t

RECURSIVE Chars(_)
(* The number of characters s is made of, or -1 if it is not valid UTF-8; *)
(* the split is unique because no encoding is a prefix of another.         *)
Chars(s) ==
    IF s = <<>> THEN 0
    ELSE LET ks == {k \in 1..4 : k <= Len(s) /\ IsChar(SubSeq(s, 1, k))
                                 /\ Chars(SubSeq(s, k + 1, Len(s))) >= 0}
         IN  IF ks = {} THEN -1
             ELSE 1 + Chars(SubSeq(s, (CHOOSE k \in ks : TRUE) + 1, Len(s)))

WellFormed(s) == Chars(s) >= 0

-----------------------------------------------------------------------------
(* The bytes at offset i (0-based, as p or buf + i) seen as a C array.     *)
At(off) == [k \in 1..4 |-> IF off + k <= Len(mem) THEN mem[off + k] ELSE 0]

(* Mutant: pg_utf8_islegal is not consulted.                              *)
RejectedNoLegal(off, remaining) ==
    LET char_len == pg_utf_mblen(mem[off + 1])
    IN  char_len <= 0 \/ remaining < char_len

(* Mutant: the bound check i + char_len > len is missing.                 *)
RejectedUnbounded(off, remaining) ==
    LET char_len == pg_utf_mblen(mem[off + 1])
    IN  char_len <= 0 \/ ~pg_utf8_islegal(At(off), char_len)

(* The three ways a character is rejected, in the order C evaluates them.  *)
Rejected(off, remaining) ==
    LET char_len == pg_utf_mblen(mem[off + 1])
    IN  \/ char_len <= 0
        \/ remaining < char_len
        \/ ~pg_utf8_islegal(At(off), char_len)

(* Mutant: the copy is one byte too long and takes the terminator along.  *)
CopyLong(s) == s \o <<0>>

(* strdup(password): a byte-identical copy up to the terminator.          *)
Copy(s) == s

(* A call starts with any input; after a counted buffer lies garbage, after *)
(* a C string its terminating NUL.                                         *)
Init ==
    /\ fn \in Functions
    /\ input \in Inputs \cup (IF fn = "validate" THEN {NULL} ELSE {})
    /\ \E tail \in [1..3 -> Garbage] :
          mem = IF input = NULL THEN <<>>
                ELSE IF fn = "validate" THEN input \o <<0>> \o tail
                ELSE input \o tail
    /\ i = 0
    /\ count = 0
    /\ result = Running

(* pgagroal_validate_utf8_password, lines 81-91: a NULL password is        *)
(* rejected, a pure ASCII one copied at once.                              *)
ValidateEntry ==
    /\ fn = "validate" /\ result = Running /\ i = 0
    /\ \/ input = NULL /\ result' = NULL
       \/ input # NULL /\ pg_is_ascii(input) /\ result' = Copy(input)
    /\ UNCHANGED <<fn, input, mem, i, count>>

(* One turn of the loop of lines 99-110, entered past the fast path.       *)
ValidateStep ==
    /\ fn = "validate" /\ result = Running
    /\ input # NULL /\ ~pg_is_ascii(input)
    /\ i < Len(input)
    /\ IF Rejected(i, Len(input) - i)
         THEN result' = NULL /\ UNCHANGED i
         ELSE i' = i + pg_utf_mblen(mem[i + 1]) /\ UNCHANGED result
    /\ UNCHANGED <<fn, input, mem, count>>

(* Line 114: the loop ran out, the password is copied.                     *)
ValidateDone ==
    /\ fn = "validate" /\ result = Running
    /\ input # NULL /\ ~pg_is_ascii(input)
    /\ i = Len(input)
    /\ result' = Copy(input)
    /\ UNCHANGED <<fn, input, mem, i, count>>

(* One turn of the loop of pgagroal_utf8_char_length, lines 56-65.         *)
CharLengthStep ==
    /\ fn = "char_length" /\ result = Running
    /\ i < Len(input)
    /\ IF Rejected(i, Len(input) - i)
         THEN result' = SIZE_MAX /\ UNCHANGED <<i, count>>
         ELSE /\ i' = i + pg_utf_mblen(mem[i + 1])
              /\ count' = count + 1
              /\ UNCHANGED result
    /\ UNCHANGED <<fn, input, mem>>

(* Line 67.                                                                *)
CharLengthDone ==
    /\ fn = "char_length" /\ result = Running
    /\ i >= Len(input)
    /\ result' = count
    /\ UNCHANGED <<fn, input, mem, i, count>>

Returned == result # Running /\ UNCHANGED vars

Next == ValidateEntry \/ ValidateStep \/ ValidateDone
        \/ CharLengthStep \/ CharLengthDone \/ Returned

Spec == Init /\ [][Next]_vars

-----------------------------------------------------------------------------
TypeOK ==
    /\ fn \in Functions
    /\ input \in Inputs \cup {NULL}
    /\ i \in 0..Len(mem) /\ count \in 0..MaxLen + 1
    /\ \/ result \in {Running, NULL}
       \/ fn = "validate" /\ result \in Inputs
       \/ fn = "char_length" /\ result \in {SIZE_MAX} \cup 0..MaxLen

(* pgagroal_validate_utf8_password returns a byte-identical copy of every  *)
(* valid password and NULL for every invalid one, whichever of the ASCII   *)
(* fast path and the character scan decides (spec section 4.4).            *)
ValidateExact ==
    (fn = "validate" /\ result # Running /\ input # NULL) =>
        result = IF WellFormed(input) THEN input ELSE NULL

(* pgagroal_utf8_char_length returns the number of code points of a valid  *)
(* buffer and (size_t)-1 for an invalid one, and never lets a character    *)
(* run into the memory past len.                                           *)
CharLengthExact ==
    (fn = "char_length" /\ result # Running) =>
        result = IF WellFormed(input) THEN Chars(input) ELSE SIZE_MAX

=============================================================================
