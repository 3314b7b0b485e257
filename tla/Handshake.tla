----------------------------- MODULE Handshake ------------------------------
(***************************************************************************)
(* What ws_handshake answers to a Sec-WebSocket-Key: the base64 text of    *)
(* the SHA-1 digest of the key and a fixed text.  Characters and bytes are *)
(* numbers below 256.  A 32-bit word is the pair of its halves, the        *)
(* significant one first.                                                  *)
(***************************************************************************)
EXTENDS Integers, SequencesExt

LOCAL INSTANCE Bitwise

Half == 2 ^ 16

Words(Op(_, _), u, v) == <<Op(u[1], v[1]), Op(u[2], v[2])>>
WAnd(u, v) == Words(LAMBDA a, b : a & b, u, v)
WOr(u, v)  == Words(LAMBDA a, b : a | b, u, v)
WXor(u, v) == Words(LAMBDA a, b : a ^^ b, u, v)

(* The sum of words, modulo 2^32. *)
Plus(ws) ==
    LET lo == FoldLeft(LAMBDA n, w : n + w[2], 0, ws)
        hi == FoldLeft(LAMBDA n, w : n + w[1], lo \div Half, ws)
    IN  <<hi % Half, lo % Half>>

(* Rotation to the left by fewer than 16 bits, and by more. *)
rol(w, bits) ==
    LET u == IF bits < 16 THEN w ELSE <<w[2], w[1]>>
        k == bits % 16
        Shifted(a, b) == ((a * 2 ^ k) % Half) + (b \div 2 ^ (16 - k))
    IN  <<Shifted(u[1], u[2]), Shifted(u[2], u[1])>>

----------------------------------------------------------------------------
(* One block of 64 bytes.  l is the circular buffer of the last 16 words.  *)
blk0(block, i) ==
    <<256 * block[4 * i + 1] + block[4 * i + 2], 256 * block[4 * i + 3] + block[4 * i + 4]>>

blk(l, i) ==
    rol(WXor(WXor(l[(i + 13) % 16], l[(i + 8) % 16]), WXor(l[(i + 2) % 16], l[i % 16])), 1)

(* The macros R0 to R4: what they mix of w, x and y, and their constants. *)
Mix(i, w, x, y) ==
    IF i < 20 THEN WXor(WAnd(w, WXor(x, y)), y)
    ELSE IF i \in 40..59 THEN WOr(WAnd(WOr(w, x), y), WAnd(w, x))
    ELSE WXor(WXor(w, x), y)

K(i) == CASE i < 20      -> <<\h5A82, \h7999>>
          [] i \in 20..39 -> <<\h6ED9, \hEBA1>>
          [] i \in 40..59 -> <<\h8F1B, \hBCDC>>
          [] OTHER       -> <<\hCA62, \hC1D6>>

(* A round.  The next one takes the five variables turned by one place. *)
Round(r, i) ==
    LET s == r.s
        b == IF i < 16 THEN r.l[i] ELSE blk(r.l, i)
    IN  [l |-> [r.l EXCEPT ![i % 16] = b],
         s |-> <<Plus(<<s[5], Mix(i, s[2], s[3], s[4]), b, K(i), rol(s[1], 5)>>),
                 s[1], rol(s[2], 30), s[3], s[4]>>]

cs_sha1_transform(state, buffer) ==
    LET start == [l |-> [i \in 0..15 |-> blk0(buffer, i)], s |-> state]
        end   == FoldLeft(Round, start, [i \in 1..80 |-> i - 1])
    IN  [i \in 1..5 |-> Plus(<<state[i], end.s[i]>>)]

(* cs_sha1_ctx.  count is in bits; count[1] stays 0 for the texts hashed   *)
(* here, and buffer is the part of its 64 bytes that is in use.            *)
cs_sha1_init ==
    [state  |-> <<<<\h6745, \h2301>>, <<\hEFCD, \hAB89>>, <<\h98BA, \hDCFE>>,
                  <<\h1032, \h5476>>, <<\hC3D2, \hE1F0>>>>,
     count  |-> 0,
     buffer |-> <<>>]

cs_sha1_update(ctx, data) ==
    LET all  == ctx.buffer \o data
        full == Len(all) \div 64
        Block(i) == SubSeq(all, 64 * i - 63, 64 * i)
    IN  [state  |-> FoldLeft(LAMBDA s, i : cs_sha1_transform(s, Block(i)), ctx.state,
                             [i \in 1..full |-> i]),
         count  |-> ctx.count + 8 * Len(data),
         buffer |-> SubSeq(all, 64 * full + 1, Len(all))]

(* Big-endian bytes of the count, taken before the padding is hashed, and  *)
(* of the digest.  Zeros follow the 0200 until 8 bytes of a block are left.*)
cs_sha1_final(ctx) ==
    LET finalcount == <<0, 0, 0, 0>> \o
                      [i \in 1..4 |-> (ctx.count \div 256 ^ (4 - i)) % 256]
        zeros  == [i \in 1..(55 - Len(ctx.buffer)) % 64 |-> 0]
        padded == cs_sha1_update(cs_sha1_update(ctx, <<128>> \o zeros), finalcount)
        Byte(w, k) == (w[(k + 1) \div 2] \div 256 ^ (k % 2)) % 256
    IN  [i \in 1..20 |-> Byte(padded.state[(i + 3) \div 4], ((i - 1) % 4) + 1)]

----------------------------------------------------------------------------
(* The alphabet A-Z a-z 0-9 + /, and the fill character. *)
b64 == [i \in 1..26 |-> 64 + i] \o [i \in 1..26 |-> 96 + i] \o
       [i \in 1..10 |-> 47 + i] \o <<43, 47>>
Fill == 61

mg_base64_encode(src) ==
    LET At(i) == IF i > Len(src) THEN 0 ELSE src[i]
        Code(v) == b64[v + 1]
        Quad(i) == LET a == At(i)  b == At(i + 1)  c == At(i + 2)
                   IN  <<Code(a \div 4),
                         Code((a % 4) * 16 + (b \div 16)),
                         IF i + 1 <= Len(src) THEN Code((b % 16) * 4 + (c \div 64)) ELSE Fill,
                         IF i + 2 <= Len(src) THEN Code(c % 64) ELSE Fill>>
    IN  FlattenSeq([n \in 1..(Len(src) + 2) \div 3 |-> Quad(3 * n - 2)])

(* "258EAFA5-E914-47DA-95CA-C5AB0DC85B11" *)
magic == <<50, 53, 56, 69, 65, 70, 65, 53, 45, 69, 57, 49, 52, 45, 52, 55, 68, 65, 45,
           57, 53, 67, 65, 45, 67, 53, 65, 66, 48, 68, 67, 56, 53, 66, 49, 49>>

MG_VPRINTF_BUFFER_SIZE == 100

(* snprintf cuts the text to the buffer. *)
AcceptValue(key) ==
    LET buf == key \o magic
        fit == SubSeq(buf, 1, Min({Len(buf), MG_VPRINTF_BUFFER_SIZE - 1}))
    IN  mg_base64_encode(cs_sha1_final(cs_sha1_update(cs_sha1_init, fit)))
=============================================================================
