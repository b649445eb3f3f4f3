-------------------------- MODULE ClientStreamProofs --------------------------
(***************************************************************************)
(* What the client program displays, for any texts, any size of the buffer *)
(* and each of the first contents in Garbage.  Messages reach the client   *)
(* as a stream of characters; one recv returns as many of them as have     *)
(* arrived and fit, and writes them over the beginning of a buffer that    *)
(* may still hold remains.  The invariant says which message every         *)
(* character under way belongs to, what the buffer holds of a message that *)
(* was cut in two, and which messages what is displayed came with.         *)
(***************************************************************************)
EXTENDS ChatClientProofs

------------------------------------------------------------------------------
(* The buffer, and a message as it travels *)

\* A buffer is a sequence of MAX_LEN characters.
LEMMA FrameIsSeq ==
    ASSUME NEW f \in [1 .. MAX_LEN -> Bytes]
    PROVE  f \in Seq(Bytes) /\ Len(f) = MAX_LEN /\ DOMAIN f = 1 .. MAX_LEN
<1>1. MAX_LEN \in Nat
    BY FrameAssumption
<1> QED BY <1>1

\* recv returns a beginning of what has arrived, no longer than the buffer.
LEMMA ChunkFits ==
    ASSUME NEW S, NEW w \in Seq(S)
    PROVE  /\ Chunk(w) \in Seq(S) /\ Len(Chunk(w)) \in 0 .. MAX_LEN /\ Len(Chunk(w)) <= Len(w)
           /\ \A i \in 1 .. Len(Chunk(w)) : Chunk(w)[i] = w[i]
           /\ w # <<>> => Len(Chunk(w)) > 0
           /\ Len(Chunk(w)) = Len(w) \/ Len(Chunk(w)) = MAX_LEN
<1>1. MAX_LEN \in Nat /\ MAX_LEN > 0
    BY FrameAssumption
<1>2. PICK n \in Nat : n = Len(w)
    OBVIOUS
<1>3. PICK c \in Nat : c = (IF n < MAX_LEN THEN n ELSE MAX_LEN) /\ c <= n /\ c <= MAX_LEN
    BY <1>1
<1>4. Chunk(w) = SubSeq(w, 1, c)
    BY <1>2, <1>3 DEF Chunk
<1>5. /\ SubSeq(w, 1, c) \in Seq(S) /\ Len(SubSeq(w, 1, c)) = c
      /\ \A i \in 1 .. c : SubSeq(w, 1, c)[i] = w[i]
    BY <1>2, <1>3
<1>6. w # <<>> => n > 0
    BY <1>2
<1> QED BY <1>1, <1>2, <1>3, <1>4, <1>5, <1>6

\* What was received begins the buffer; behind it, nothing has changed.
LEMMA ReceivedFits ==
    ASSUME NEW f \in [1 .. MAX_LEN -> Bytes], NEW b \in Seq(Bytes), Len(b) <= MAX_LEN
    PROVE  /\ Received(f, b) \in [1 .. MAX_LEN -> Bytes]
           /\ \A i \in 1 .. MAX_LEN : Received(f, b)[i] = IF i <= Len(b) THEN b[i] ELSE f[i]
<1>1. MAX_LEN \in Nat /\ f \in Seq(Bytes) /\ Len(f) = MAX_LEN
    BY FrameAssumption, FrameIsSeq
<1>2. PICK c \in Nat : c = Len(b) /\ c <= MAX_LEN
    BY <1>1
<1> DEFINE r == SubSeq(f, c + 1, MAX_LEN)
<1>3. r \in Seq(Bytes) /\ Len(r) = MAX_LEN - c /\ \A i \in 1 .. MAX_LEN - c : r[i] = f[c + i]
    BY <1>1, <1>2
<1>4. Received(f, b) = b \o r
    BY <1>2 DEF Received
<1> HIDE DEF r
<1>5. /\ b \o r \in Seq(Bytes) /\ Len(b \o r) = MAX_LEN
      /\ \A i \in 1 .. MAX_LEN : (b \o r)[i] = IF i <= c THEN b[i] ELSE r[i - c]
    BY <1>1, <1>2, <1>3
<1>6. \A i \in 1 .. MAX_LEN : i > c => r[i - c] = f[i]
  <2> TAKE i \in 1 .. MAX_LEN
  <2> HAVE i > c
  <2>1. i - c \in 1 .. MAX_LEN - c /\ c + (i - c) = i
      BY <1>1, <1>2
  <2> QED BY <1>3, <2>1
<1>7. b \o r \in [1 .. MAX_LEN -> Bytes]
  <2>1. PICK q \in Seq(Bytes) : q = b \o r /\ Len(q) = MAX_LEN
      BY <1>5
  <2>2. q \in [1 .. Len(q) -> Bytes]
      OBVIOUS
  <2> QED BY <2>1, <2>2
<1> QED BY <1>1, <1>2, <1>4, <1>5, <1>6, <1>7

\* The characters of a concatenation.
LEMMA Concatenated ==
    ASSUME NEW u \in Seq(Bytes), NEW v \in Seq(Bytes)
    PROVE  \E w \in Seq(Bytes) :
              /\ w = u \o v /\ Len(w) = Len(u) + Len(v)
              /\ \A i \in 1 .. Len(u) : w[i] = u[i]
              /\ \A i \in 1 .. Len(v) : w[Len(u) + i] = v[i]
<1>1. PICK n \in Nat, k \in Nat : n = Len(u) /\ k = Len(v)
    OBVIOUS
<1>2. /\ u \o v \in Seq(Bytes) /\ Len(u \o v) = n + k
      /\ \A i \in 1 .. n + k : (u \o v)[i] = IF i <= n THEN u[i] ELSE v[i - n]
    BY <1>1
<1>3. PICK w \in Seq(Bytes) : w = u \o v
    BY <1>2, Zenon
<1>4. ASSUME NEW i \in 1 .. k
      PROVE  w[n + i] = v[i]
  <2>1. n + i \in 1 .. n + k /\ ~(n + i <= n) /\ (n + i) - n = i
      OBVIOUS
  <2> QED BY <1>2, <1>3, <2>1
<1>5. Len(w) = n + k /\ \A i \in 1 .. n : w[i] = u[i]
    BY <1>2, <1>3
<1>6. /\ Len(w) = Len(u) + Len(v)
      /\ \A i \in 1 .. Len(u) : w[i] = u[i]
      /\ \A i \in 1 .. Len(v) : w[Len(u) + i] = v[i]
    BY <1>1, <1>4, <1>5
<1> QED BY <1>3, <1>6, Zenon

\* The characters of a sequence with one more.
LEMMA Appended ==
    ASSUME NEW s \in Seq(Bytes), NEW y \in Bytes
    PROVE  \E w \in Seq(Bytes) : /\ w = Append(s, y) /\ Len(w) = Len(s) + 1
                                 /\ \A i \in 1 .. Len(s) : w[i] = s[i]
                                 /\ w[Len(s) + 1] = y
<1>1. Append(s, y) \in Seq(Bytes)
    OBVIOUS
<1>2. PICK w \in Seq(Bytes) : w = Append(s, y)
    BY <1>1, Zenon
<1>3. /\ Len(w) = Len(s) + 1
      /\ \A i \in 1 .. Len(s) : w[i] = s[i]
      /\ w[Len(s) + 1] = y
    BY <1>2
<1> QED BY <1>2, <1>3, Zenon

\* Three fields, each with its separator.
LEMMA Joined ==
    ASSUME NEW a \in Seq(Bytes), NEW b \in Seq(Bytes), NEW c \in Seq(Bytes)
    PROVE  get_concatenated_msg(<<a, b, c>>) =
              (Append(a, split_token) \o Append(b, split_token)) \o Append(c, split_token)
<1> DEFINE seqs == [i \in 1 .. 3 |-> Append(<<a, b, c>>[i], split_token)]
           Flat(f) == f = [i \in 1 .. Len(seqs) |-> IF i = 1 THEN seqs[i] ELSE f[i - 1] \o seqs[i]]
           wit == [i \in 1 .. 3 |-> IF i = 1 THEN seqs[1]
                                    ELSE IF i = 2 THEN seqs[1] \o seqs[2]
                                    ELSE (seqs[1] \o seqs[2]) \o seqs[3]]
           g == CHOOSE f : Flat(f)
<1>0. nr_of_separations = 3 /\ split_token \in Bytes
    BY ClientConstants DEF Bytes
<1>t. Len(seqs) = 3 /\ seqs[1] \in Seq(Bytes) /\ seqs[2] \in Seq(Bytes) /\ seqs[3] \in Seq(Bytes)
  <2>1. <<a, b, c>>[1] = a /\ <<a, b, c>>[2] = b /\ <<a, b, c>>[3] = c
      OBVIOUS
  <2>2. /\ Append(a, split_token) \in Seq(Bytes) /\ Append(b, split_token) \in Seq(Bytes)
        /\ Append(c, split_token) \in Seq(Bytes)
      BY <1>0
  <2>3. \A i \in 1 .. 3 : seqs[i] \in Seq(Bytes)
      BY <2>1, <2>2
  <2> QED BY <2>3
<1>1. /\ seqs[1] = Append(a, split_token) /\ seqs[2] = Append(b, split_token)
      /\ seqs[3] = Append(c, split_token)
  <2>1. <<a, b, c>>[1] = a /\ <<a, b, c>>[2] = b /\ <<a, b, c>>[3] = c
      OBVIOUS
  <2> QED BY <2>1
<1>2. get_concatenated_msg(<<a, b, c>>) = Seqs!FlattenSeq(seqs)
    BY <1>0 DEF get_concatenated_msg
<1> HIDE DEF seqs
<1>3. Seqs!FlattenSeq(seqs) = g[3]
  <2>1. Len(seqs) # 0
      BY <1>t
  <2>2. Seqs!FlattenSeq(seqs) = g[Len(seqs)]
      BY <2>1 DEF Seqs!FlattenSeq
  <2> QED BY <1>t, <2>2
<1>4. Flat(g)
  <2>1. Flat(wit)
      BY <1>t
  <2> HIDE DEF Flat, wit
  <2> QED BY <2>1, Zenon
<1> HIDE DEF g
<1>5. g = [i \in 1 .. 3 |-> IF i = 1 THEN seqs[i] ELSE g[i - 1] \o seqs[i]]
    BY <1>t, <1>4
<1>6. \A i \in 1 .. 3 : g[i] = IF i = 1 THEN seqs[i] ELSE g[i - 1] \o seqs[i]
    BY <1>5, Zenon
<1>7. g[1] = seqs[1] /\ g[2] = g[2 - 1] \o seqs[2] /\ g[3] = g[3 - 1] \o seqs[3]
  <2>1. 1 \in 1 .. 3 /\ 2 \in 1 .. 3 /\ 3 \in 1 .. 3 /\ 2 # 1 /\ 3 # 1
      OBVIOUS
  <2> QED BY <1>6, <2>1, Zenon
<1>8. 2 - 1 = 1 /\ 3 - 1 = 2
    OBVIOUS
<1>9. g[3] = (seqs[1] \o seqs[2]) \o seqs[3]
    BY <1>7, <1>8
<1> QED BY <1>1, <1>2, <1>3, <1>9

\* m is the message with an empty thread number, the action x and the text t.
Packet(m, x, t) ==
    /\ m \in Seq(Bytes) /\ Len(m) = Len(t) + 4
    /\ m[1] = split_token /\ m[2] = x /\ m[3] = split_token
    /\ \A i \in 1 .. Len(t) : m[i + 3] = t[i]
    /\ m[Len(t) + 4] = split_token

\* The characters of a message the server sends.
LEMMA Encoded ==
    ASSUME NEW x \in Bytes, NEW t \in Seq(Bytes)
    PROVE  Packet(get_concatenated_msg(<< <<>>, <<x>>, t >>), x, t)
<1>0. split_token \in Bytes
    BY DEF Bytes
<1>1. PICK e \in Seq(Bytes) : e = <<>> /\ Len(e) = 0
  <2>1. <<>> \in Seq(Bytes) /\ Len(<<>>) = 0
      OBVIOUS
  <2> QED BY <2>1, Zenon
<1>2. PICK b \in Seq(Bytes) : b = <<x>> /\ Len(b) = 1 /\ b[1] = x
  <2>1. <<x>> \in Seq(Bytes) /\ Len(<<x>>) = 1 /\ <<x>>[1] = x
      OBVIOUS
  <2> QED BY <2>1, Zenon
<1>3. PICK s1 \in Seq(Bytes) :
         /\ s1 = Append(e, split_token)
         /\ Len(s1) = Len(e) + 1 /\ s1[Len(e) + 1] = split_token
    BY <1>0, Appended, Zenon
<1>4. PICK s2 \in Seq(Bytes) :
         /\ s2 = Append(b, split_token)
         /\ Len(s2) = Len(b) + 1 /\ s2[Len(b) + 1] = split_token
         /\ \A i \in 1 .. Len(b) : s2[i] = b[i]
    BY <1>0, Appended, ZenonT(30)
<1>5. PICK n \in Nat : n = Len(t)
    OBVIOUS
<1>6. PICK s3 \in Seq(Bytes) : /\ s3 = Append(t, split_token) /\ Len(s3) = n + 1
                               /\ s3[n + 1] = split_token /\ \A i \in 1 .. n : s3[i] = t[i]
  <2>1. \E s \in Seq(Bytes) : /\ s = Append(t, split_token) /\ Len(s) = Len(t) + 1
                              /\ s[Len(t) + 1] = split_token /\ \A i \in 1 .. Len(t) : s[i] = t[i]
      BY <1>0, Appended, ZenonT(30)
  <2> QED BY <1>5, <2>1, Zenon
<1>7. PICK h \in Seq(Bytes) : /\ h = s1 \o s2 /\ Len(h) = 3
                              /\ h[1] = split_token /\ h[2] = x /\ h[3] = split_token
  <2>1. PICK h \in Seq(Bytes) : /\ h = s1 \o s2 /\ Len(h) = Len(s1) + Len(s2)
                                /\ \A i \in 1 .. Len(s1) : h[i] = s1[i]
                                /\ \A i \in 1 .. Len(s2) : h[Len(s1) + i] = s2[i]
      BY Concatenated
  <2>2. 1 + 1 = 2 /\ 1 + 2 = 3 /\ 1 \in 1 .. 1 /\ 1 \in 1 .. 2 /\ 2 \in 1 .. 2
      OBVIOUS
  <2>3. Len(s1) = 1 /\ s1[1] = split_token
      BY <1>1, <1>3
  <2>4. Len(s2) = 2 /\ s2[1] = x /\ s2[2] = split_token
    <3>1. Len(s2) = 1 + 1 /\ s2[1 + 1] = split_token /\ s2[1] = b[1]
        BY <1>2, <1>4, <2>2
    <3> QED BY <1>2, <2>2, <3>1
  <2>5. Len(h) = 3 /\ h[1] = split_token /\ h[2] = x /\ h[3] = split_token
      BY <2>1, <2>2, <2>3, <2>4
  <2> QED BY <2>1, <2>5, Zenon
<1>8. PICK m \in Seq(Bytes) : /\ m = h \o s3 /\ Len(m) = Len(h) + Len(s3)
                              /\ \A i \in 1 .. Len(h) : m[i] = h[i]
                              /\ \A i \in 1 .. Len(s3) : m[Len(h) + i] = s3[i]
    BY Concatenated
<1>9. /\ Len(m) = n + 4 /\ m[1] = split_token /\ m[2] = x /\ m[3] = split_token
      /\ \A i \in 1 .. n + 1 : m[3 + i] = s3[i]
  <2>1. /\ Len(m) = 3 + (n + 1) /\ \A i \in 1 .. 3 : m[i] = h[i]
        /\ \A i \in 1 .. n + 1 : m[3 + i] = s3[i]
      BY <1>6, <1>7, <1>8, Zenon
  <2>2. Len(m) = n + 4 /\ 1 \in 1 .. 3 /\ 2 \in 1 .. 3 /\ 3 \in 1 .. 3
      BY <2>1
  <2> QED BY <1>7, <2>1, <2>2, Zenon
<1>10. m[n + 4] = split_token
  <2>1. n + 1 \in 1 .. n + 1 /\ 3 + (n + 1) = n + 4
      OBVIOUS
  <2> QED BY <1>6, <1>9, <2>1
<1>11. ASSUME NEW i \in 1 .. n
       PROVE  m[i + 3] = t[i]
  <2>1. i \in 1 .. n + 1 /\ 3 + i = i + 3
      OBVIOUS
  <2> QED BY <1>6, <1>9, <2>1
<1>12. get_concatenated_msg(<<e, b, t>>) = (s1 \o s2) \o s3
  <2>1. get_concatenated_msg(<<e, b, t>>) =
           (Append(e, split_token) \o Append(b, split_token)) \o Append(t, split_token)
      BY Joined, ZenonT(30)
  <2> QED BY <1>3, <1>4, <1>6, <2>1, Zenon
<1>13. Packet(m, x, t)
    BY <1>5, <1>9, <1>10, <1>11 DEF Packet
<1> QED BY <1>1, <1>2, <1>7, <1>8, <1>12, <1>13, Zenon

------------------------------------------------------------------------------
(* Types *)

\* beyond what ClientInv says: what travels and what lies in the buffer are characters
TypeInv ==
    /\ main \in {"start", "lookup", "connect", "running"} \cup Ended
    /\ link \in Links
    /\ wire \in Seq(Bytes) /\ frame \in [1 .. MAX_LEN -> Bytes]
    /\ named \in BOOLEAN /\ cl_event_fd \in BOOLEAN /\ mixed \in BOOLEAN
    /\ sender \in Senders /\ receiver \in Receivers

\* A text consists of characters other than the separator and the end of a string.
LEMMA TextChars ==
    ASSUME NEW k \in 1 .. Len(Texts)
    PROVE  /\ Texts[k] \in Seq(Bytes)
           /\ \A i \in 1 .. Len(Texts[k]) : Texts[k][i] # split_token /\ Texts[k][i] # NUL
<1>1. Texts[k] \in Seq(Letters)
    BY ClientConstants
<1>2. PICK t \in Seq(Letters) : t = Texts[k]
    BY <1>1, Zenon
<1>3. \A i \in 1 .. Len(t) : t[i] \in Letters
    OBVIOUS
<1>4. t \in Seq(Bytes)
  <2>1. Letters \subseteq Bytes
      BY DEF Bytes
  <2>2. t \in [1 .. Len(t) -> Letters] /\ Len(t) \in Nat
      OBVIOUS
  <2>3. t \in [1 .. Len(t) -> Bytes]
      BY <2>1, <2>2
  <2> HIDE DEF Letters, Bytes
  <2> QED BY <2>2, <2>3
<1> QED BY <1>2, <1>3, <1>4, ClientConstants

\* What the server sends is a message whose action is R or U.
LEMMA ServerBytes ==
    ASSUME ClientInv, SvReply \/ SvTell
    PROVE  \E x \in {"R", "U"}, t \in Seq(Bytes), m \in Seq(Bytes) :
              /\ wire' = wire \o m /\ Packet(m, x, t) /\ Len(out') = Len(out) + 1
              /\ Len(out') \in 1 .. Len(Texts) + 1
              /\ IF SvReply THEN out = <<>> /\ x = "R" /\ t = <<>>
                            ELSE Len(out) \in 1 .. Len(Texts) /\ x = "U" /\ t = Texts[Len(out)]
              /\ UNCHANGED <<link, log, read>>
<1>0. "R" \in Bytes /\ "U" \in Bytes
    BY DEF Bytes
<1>1. out \in Seq(Replies) /\ Len(out) \in Nat /\ Len(Texts) \in Nat
    BY ClientConstants DEF ClientInv, ConnInv
<1>2. CASE SvReply
  <2>1. PICK t \in Seq(Bytes) : t = <<>>
    <3>1. <<>> \in Seq(Bytes)
        OBVIOUS
    <3> QED BY <3>1, Zenon
  <2>2. PICK m \in Seq(Bytes) :
           m = get_concatenated_msg(<< <<>>, <<"R">>, t >>) /\ Packet(m, "R", t)
    <3>1. Packet(get_concatenated_msg(<< <<>>, <<"R">>, t >>), "R", t)
        BY <1>0, Encoded, Zenon
    <3>2. get_concatenated_msg(<< <<>>, <<"R">>, t >>) \in Seq(Bytes)
        BY <3>1, Zenon DEF Packet
    <3> QED BY <3>1, <3>2, Zenon
  <2>3. /\ out = <<>> /\ wire' = wire \o m /\ out' = Append(out, Msg("INIT_REQ", 0, 0))
        /\ UNCHANGED <<link, log, read>>
      BY <1>2, <2>1, <2>2, Zenon DEF SvReply, SvSends
  <2>4. Len(out') = Len(out) + 1 /\ Len(out) = 0
      BY <2>3
  <2>5. Len(out') \in 1 .. Len(Texts) + 1
      BY <1>1, <2>4
  <2>6. "R" \in {"R", "U"}
      OBVIOUS
  <2> QED BY <1>2, <2>1, <2>2, <2>3, <2>4, <2>5, <2>6, Zenon
<1>3. CASE SvTell /\ ~SvReply
  <2>0. HasSent("INIT_DONE")
    <3>1. \E i \in 1 .. read : log[i].action = "INIT_DONE"
        BY <1>3 DEF SvTell, HasRead
    <3> QED BY <3>1 DEF HasSent, ClientInv, ConnInv
  <2>1. Len(out) >= 1 /\ Len(out) \in 1 .. Len(Texts) /\ Told + 1 = Len(out)
    <3>1. out # <<>>
        BY <2>0 DEF ClientInv, RecvInv
    <3>2. Len(out) # 0
        BY <1>1, <3>1
    <3>3. Told < Len(Texts)
        BY <1>3 DEF SvTell
    <3> QED BY <1>1, <3>2, <3>3 DEF Told
  <2>2. PICK t \in Seq(Bytes) : t = Texts[Len(out)]
      BY <2>1, TextChars, Zenon
  <2>3. PICK m \in Seq(Bytes) :
           m = get_concatenated_msg(<< <<>>, <<"U">>, t >>) /\ Packet(m, "U", t)
    <3>1. Packet(get_concatenated_msg(<< <<>>, <<"U">>, t >>), "U", t)
        BY <1>0, Encoded, Zenon
    <3>2. get_concatenated_msg(<< <<>>, <<"U">>, t >>) \in Seq(Bytes)
        BY <3>1, Zenon DEF Packet
    <3> QED BY <3>1, <3>2, Zenon
  <2>4. PICK r : out' = Append(out, r)
      BY <1>3 DEF SvTell, SvSends
  <2>5. wire' = wire \o m /\ UNCHANGED <<link, log, read>>
    <3>1. wire' = wire \o get_concatenated_msg(<< <<>>, <<"U">>, Texts[Told + 1] >>)
        BY <1>3, Zenon DEF SvTell, SvSends
    <3>2. UNCHANGED <<link, log, read>>
        BY <1>3, Zenon DEF SvTell, SvSends
    <3>3. Texts[Told + 1] = t
        BY <2>1, <2>2
    <3> QED BY <2>3, <3>1, <3>2, <3>3, Zenon
  <2>6. Len(out') = Len(out) + 1
      BY <1>1, <2>4
  <2>7. Len(out') \in 1 .. Len(Texts) + 1
      BY <1>1, <2>1, <2>6
  <2>8. "U" \in {"R", "U"}
      OBVIOUS
  <2> QED BY <1>3, <2>1, <2>2, <2>3, <2>5, <2>6, <2>7, <2>8, Zenon
<1> QED BY <1>2, <1>3

\* A cleared buffer, and one nobody has initialised, consist of characters.
LEMMA BufferChars ==
    Cleared \in [1 .. MAX_LEN -> Bytes] /\ \A f \in Garbage : f \in [1 .. MAX_LEN -> Bytes]
<1>1. NUL \in Bytes /\ "?" \in Bytes /\ split_token \in Bytes
    BY DEF Bytes
<1> QED BY <1>1 DEF Cleared, Garbage

\* Every step keeps the types.
LEMMA TypeStep ==
    ASSUME ClientInv, TypeInv, [Next]_vars
    PROVE  TypeInv'
<1> USE DEF netVars, flagVars, recvVars, sendVars
<1>1. CASE UNCHANGED vars
    BY <1>1 DEF TypeInv, vars
<1>2. CASE CheckArgs \/ GetSvAddr \/ Connect
    BY <1>2 DEF CheckArgs, GetSvAddr, Connect, TypeInv, Ended, Links, Senders, Receivers
<1>3. CASE Leave \/ Die
    BY <1>3 DEF Leave, Die, TypeInv, Ended
<1>4. CASE Sender
  <2>1. UNCHANGED <<wire, mixed, named, receiver, cl_event_fd, frame>>
      BY <1>4 DEF Sender, SendHead, SendInitReq, SetInitReq, SendWoken, SendTyped, SendTaken,
                  SendFails, Die
  <2>2. main' = main \/ main' = "killed"
      BY <1>4 DEF Sender, SendHead, SendInitReq, SetInitReq, SendWoken, SendTyped, Die
  <2>3. link' = link \/ link' \in {"fin", "finrst", "down"}
      BY <1>4 DEF Sender, SendHead, SendInitReq, SetInitReq, SendWoken, SendTyped, SendTaken,
                  SendFails, Die
  <2>4. sender' \in Senders
      BY <1>4 DEF Sender, SendHead, SendInitReq, SetInitReq, SendWoken, SendTyped, Die, Senders,
                  TypeInv
  <2> QED BY <2>1, <2>2, <2>3, <2>4 DEF TypeInv, Ended, Links
<1>5. CASE ReadLine \/ ReadQuit
    BY <1>5 DEF ReadLine, ReadQuit, TypeInv, Senders
<1>6. CASE ReceiveHead \/ ReceiveEnd \/ ReceiveError \/ WakeSender \/ SetId \/ SetInitDone
  <2>1. /\ UNCHANGED <<main, named, wire, frame, mixed, sender>>
        /\ receiver' \in Receivers /\ cl_event_fd' \in {TRUE, cl_event_fd}
        /\ link' = link \/ link' = "down"
      BY <1>6 DEF ReceiveHead, ReceiveEnd, ReceiveError, WakeSender, SetId, SetInitDone, Receivers
  <2>2. cl_event_fd' \in BOOLEAN
      BY <2>1, Zenon DEF TypeInv
  <2> QED BY <2>1, <2>2 DEF TypeInv, Links
<1>7. CASE ReceiveBytes
  <2> DEFINE b == Chunk(wire)
  <2>1. /\ UNCHANGED <<main, named, link, sender, cl_event_fd>> /\ receiver' = "got"
        /\ frame' = Received(frame, b) /\ wire' = SubSeq(wire, Len(b) + 1, Len(wire))
      BY <1>7 DEF ReceiveBytes
  <2>2. mixed' \in BOOLEAN
      BY <1>7, Zenon DEF ReceiveBytes
  <2>3. b \in Seq(Bytes) /\ Len(b) \in Nat /\ Len(b) <= MAX_LEN /\ Len(b) <= Len(wire)
      BY ChunkFits, FrameAssumption DEF TypeInv
  <2> HIDE DEF b
  <2>4. frame' \in [1 .. MAX_LEN -> Bytes]
      BY <2>1, <2>3, ReceivedFits DEF TypeInv
  <2>5. wire' \in Seq(Bytes)
      BY <2>1, <2>3 DEF TypeInv
  <2> QED BY <2>1, <2>2, <2>4, <2>5 DEF TypeInv, Receivers
<1>8. CASE Dispatch
  <2>1. /\ UNCHANGED <<main, named, link, wire, sender, cl_event_fd, mixed>>
        /\ receiver' = "head" \/ receiver' = "id"
        /\ frame' = frame \/ frame' = Cleared
      BY <1>8 DEF Dispatch, FrameAfter
  <2> QED BY <2>1, BufferChars DEF TypeInv, Receivers
<1>9. CASE SendInitDone
  <2>1. /\ UNCHANGED <<named, wire, sender, cl_event_fd, mixed>>
        /\ main' = main \/ main' = "killed"
        /\ receiver' = receiver \/ receiver' = "head"
        /\ frame' = frame \/ frame' = Cleared
        /\ link' = link \/ link' \in {"fin", "finrst", "down"}
      BY <1>9 DEF SendInitDone, SendTaken, SendFails, Die
  <2> QED BY <2>1, BufferChars DEF TypeInv, Ended, Links, Receivers
<1>10. CASE ServerSide(SvRead \/ SvReply \/ SvTell \/ SvClose)
  <2>1. UNCHANGED <<main, named, flagVars, recvVars, sendVars>>
      BY <1>10 DEF ServerSide
  <2>2. CASE SvRead \/ SvClose
      BY <2>1, <2>2 DEF SvRead, SvClose, TypeInv, Links
  <2>3. CASE SvReply \/ SvTell
    <3>1. PICK m \in Seq(Bytes) : wire' = wire \o m /\ link' = link
        BY <2>3, ServerBytes
    <3>2. wire' \in Seq(Bytes)
        BY <3>1 DEF TypeInv
    <3> QED BY <2>1, <3>1, <3>2 DEF TypeInv
  <2> QED BY <1>10, <2>2, <2>3 DEF ServerSide
<1> QED BY <1>1, <1>2, <1>3, <1>4, <1>5, <1>6, <1>7, <1>8, <1>9, <1>10 DEF Next, Receiver

\* The program starts with types as they should be.
LEMMA InitTypes == Init => TypeInv
<1> SUFFICES ASSUME Init PROVE TypeInv
    OBVIOUS
<1>1. frame \in [1 .. MAX_LEN -> Bytes]
    BY BufferChars DEF Init
<1>2. wire \in Seq(Bytes)
    BY DEF Init
<1> QED BY <1>1, <1>2 DEF Init, TypeInv, Links, Senders, Receivers

\* The two invariants give the type invariant of the module.
LEMMA TypesFollow ==
    ASSUME ClientInv, TypeInv
    PROVE  TypeOK
<1>1. Len(frame) = MAX_LEN /\ \A i \in 1 .. MAX_LEN : frame[i] \in Bytes
    BY FrameIsSeq DEF TypeInv
<1>2. {named, init_req, init_done, stop, cl_event_fd, mixed} \subseteq BOOLEAN
    BY Zenon DEF TypeInv, ClientInv, ConnInv
<1>3. {id, carry} \subseteq {0, None} /\ read \in 0 .. Len(log) /\ typed \in 0 .. MaxLines
    BY DEF ClientInv, ConnInv, RecvInv, SendInv
<1> QED BY <1>1, <1>2, <1>3 DEF TypeOK, TypeInv

\* Every variable keeps its type whatever the texts, the length of the buffer and
\* what it held before: recv never writes past it.
THEOREM ClientTypes == Spec => []TypeOK
<1>1. Spec => []ClientInv
    BY ClientInvariant
<1>2. ClientInv /\ TypeInv /\ [Next]_vars => TypeInv'
    BY TypeStep
<1>3. ClientInv /\ TypeInv => TypeOK
    BY TypesFollow
<1> QED BY <1>1, <1>2, <1>3, InitTypes, PTL DEF Spec

------------------------------------------------------------------------------
(* The stream of messages and what is displayed of it *)

\* the k-th message of the server: the reply, then the texts; its q-th character
TextOf(k) == IF k = 1 THEN <<>> ELSE Texts[k - 1]
Size(k) == Len(TextOf(k)) + 4
Letter(k, q) ==
    IF q \in {1, 3, Size(k)} THEN split_token
    ELSE IF q = 2 THEN IF k = 1 THEN "R" ELSE "U"
    ELSE TextOf(k)[q - 3]

\* what is under way are the messages after the k-th, the first of them perhaps
\* without its beginning: the i-th lies between cut[i - 1] and cut[i]
Laid(k, cut) ==
    /\ cut \in [k .. Len(out) -> Int]
    /\ cut[k] <= 0 /\ (k < Len(out) => cut[k + 1] >= 1) /\ cut[Len(out)] = Len(wire)
    /\ \A i \in k + 1 .. Len(out) :
          /\ cut[i] = cut[i - 1] + Size(i)
          /\ \A q \in 1 .. Size(i) : cut[i - 1] + q >= 1 => wire[cut[i - 1] + q] = Letter(i, q)
    /\ \A i, j \in k .. Len(out) : i <= j => cut[i] <= cut[j]
    /\ \A p \in 1 .. Len(wire) : \E i \in k + 1 .. Len(out) : cut[i - 1] < p /\ p <= cut[i]

\* a buffer that was not cleared ends with the beginning that is missing
Kept(k, cut) ==
    cut[k] < 0 /\ frame # Cleared =>
        /\ \A p \in 1 .. MAX_LEN : frame[p] # NUL
        /\ \A q \in 1 .. Size(k + 1) :
              cut[k] + q <= 0 /\ MAX_LEN + cut[k] + q >= 1 =>
                  frame[MAX_LEN + cut[k] + q] = Letter(k + 1, q)
        /\ MAX_LEN + cut[k] >= 1 => frame[MAX_LEN + cut[k]] # "U"

\* the buffer is a message of the server's, with the text t
Shows(t) ==
    /\ ValidFormat(CString(frame))
    /\ construct_from_string(CString(frame))[2] = <<"U">>
    /\ construct_from_string(CString(frame))[3] = t

\* each of the first k messages was received by a recv of its own
Taken(k) ==
    /\ init_done \/ receiver \in {"got", "id", "done", "answer"} => k >= 1
    /\ init_done /\ receiver # "got" =>
          /\ shown = SubSeq(Texts, 1, k - 1)
          /\ receiver = "answer" \/ frame = Cleared \/ (link = "down" /\ wire = <<>>)
    /\ init_done /\ receiver = "got" =>
          k >= 2 /\ shown = SubSeq(Texts, 1, k - 2) /\ Shows(Texts[k - 1])

\* what is displayed came with the first k messages, and so does what will be next
Real(k) ==
    \E sent \in [DOMAIN shown -> 1 .. k - 1] :
        /\ \A i, j \in DOMAIN shown : shown[i] = Texts[sent[i]] /\ (i < j => sent[i] < sent[j])
        /\ receiver = "got" => \A t \in Seq(Bytes) : Shows(t) =>
              \E d \in 1 .. k - 1 : t = Texts[d] /\ \A i \in DOMAIN shown : sent[i] < d

\* how the stream stands when the client has begun to receive k messages
Stream(k, cut) ==
    /\ Laid(k, cut) /\ Kept(k, cut)
    /\ ~mixed => cut[k] = 0 /\ Taken(k)
    /\ "U" \notin Letters => Real(k)

StreamInv ==
    /\ Len(out) <= Len(Texts) + 1
    /\ Len(out) > 1 => HasSent("INIT_DONE")
    /\ init_done => init_req
    /\ ~init_done => shown = <<>>
    /\ shown \in Seq(Seq(Bytes))
    /\ link = "none" => receiver = "none"
    /\ \E k \in 0 .. Len(out) : \E cut : Stream(k, cut)

\* The k-th message is made of characters; three of them separate its fields.
LEMMA LetterFacts ==
    ASSUME NEW k \in 1 .. Len(Texts) + 1
    PROVE  /\ TextOf(k) \in Seq(Bytes) /\ Len(TextOf(k)) \in Nat /\ Size(k) \in Nat /\ Size(k) >= 4
           /\ \A q \in 1 .. Size(k) :
                 /\ Letter(k, q) # NUL
                 /\ Letter(k, q) = split_token <=> q \in {1, 3, Size(k)}
                 /\ "U" \notin Letters /\ Letter(k, q) = "U" => q = 2 /\ k >= 2
           /\ k >= 2 => Letter(k, 2) = "U" /\ k - 1 \in 1 .. Len(Texts) /\ TextOf(k) = Texts[k - 1]
           /\ \A q \in 1 .. Len(TextOf(k)) : Letter(k, q + 3) = TextOf(k)[q]
<1>1. Len(Texts) \in Nat
    BY ClientConstants
<1>2. PICK t \in Seq(Bytes) : /\ t = TextOf(k)
                              /\ \A i \in 1 .. Len(t) : t[i] # split_token /\ t[i] # NUL
                              /\ "U" \notin Letters => \A i \in 1 .. Len(t) : t[i] # "U"
  <2>1. CASE k = 1
    <3>1. <<>> \in Seq(Bytes) /\ 1 .. Len(<<>>) = {}
        OBVIOUS
    <3>2. TextOf(k) = <<>>
        BY <2>1 DEF TextOf
    <3> QED BY <3>1, <3>2, Zenon
  <2>2. CASE k # 1
    <3>1. k - 1 \in 1 .. Len(Texts) /\ TextOf(k) = Texts[k - 1]
        BY <1>1, <2>2 DEF TextOf
    <3>2. Texts[k - 1] \in Seq(Letters)
        BY <3>1, ClientConstants
    <3>3. \A i \in 1 .. Len(Texts[k - 1]) : Texts[k - 1][i] \in Letters
        BY <3>2
    <3>4. /\ Texts[k - 1] \in Seq(Bytes)
          /\ \A i \in 1 .. Len(Texts[k - 1]) :
                Texts[k - 1][i] # split_token /\ Texts[k - 1][i] # NUL
        BY <3>1, TextChars
    <3>5. "U" \notin Letters => \A i \in 1 .. Len(Texts[k - 1]) : Texts[k - 1][i] # "U"
        BY <3>3, Zenon
    <3> QED BY <3>1, <3>4, <3>5, Zenon
  <2> QED BY <2>1, <2>2
<1>3. PICK n \in Nat : n = Len(t)
    OBVIOUS
<1>4. Size(k) = n + 4
    BY <1>2, <1>3 DEF Size
<1>5. \A q \in 1 .. n + 4 : Letter(k, q) = IF q \in {1, 3, n + 4} THEN split_token
                                           ELSE IF q = 2 THEN IF k = 1 THEN "R" ELSE "U"
                                           ELSE t[q - 3]
    BY <1>2, <1>4 DEF Letter
<1>6. ASSUME NEW q \in 1 .. n + 4
      PROVE  /\ Letter(k, q) # NUL
             /\ Letter(k, q) = split_token <=> q \in {1, 3, n + 4}
             /\ "U" \notin Letters /\ Letter(k, q) = "U" => q = 2 /\ k >= 2
  <2>1. CASE q \in {1, 2, 3, n + 4}
      BY <1>5, <2>1 DEF split_token, NUL
  <2>2. CASE q \notin {1, 2, 3, n + 4}
    <3>1. q - 3 \in 1 .. n /\ Letter(k, q) = t[q - 3]
        BY <1>5, <2>2
    <3> QED BY <1>2, <1>3, <2>2, <3>1
  <2> QED BY <2>1, <2>2
<1>7. k >= 2 => Letter(k, 2) = "U" /\ k - 1 \in 1 .. Len(Texts) /\ TextOf(k) = Texts[k - 1]
    BY <1>1, <1>5 DEF TextOf
<1>8. ASSUME NEW q \in 1 .. n
      PROVE  Letter(k, q + 3) = t[q]
  <2>1. q + 3 \in 1 .. n + 4 /\ q + 3 \notin {1, 2, 3, n + 4} /\ (q + 3) - 3 = q
      OBVIOUS
  <2> QED BY <1>5, <2>1
<1> HIDE DEF Size, TextOf, Letter
<1> QED BY <1>2, <1>3, <1>4, <1>6, <1>7, <1>8

\* What the server sends is its next message.
LEMMA ServerLetters ==
    ASSUME ClientInv, SvReply \/ SvTell
    PROVE  /\ UNCHANGED <<link, log, read>>
           /\ Len(out') = Len(out) + 1 /\ Len(out') \in 1 .. Len(Texts) + 1
           /\ Len(out) >= 1 => HasSent("INIT_DONE")
           /\ \E m \in Seq(Bytes) :
                 /\ wire' = wire \o m /\ Len(m) = Size(Len(out'))
                 /\ \A q \in 1 .. Len(m) : m[q] = Letter(Len(out'), q)
<1>1. PICK x \in {"R", "U"}, t \in Seq(Bytes), m \in Seq(Bytes) :
              /\ wire' = wire \o m /\ Packet(m, x, t) /\ Len(out') = Len(out) + 1
              /\ Len(out') \in 1 .. Len(Texts) + 1
              /\ IF SvReply THEN out = <<>> /\ x = "R" /\ t = <<>>
                            ELSE Len(out) \in 1 .. Len(Texts) /\ x = "U" /\ t = Texts[Len(out)]
              /\ UNCHANGED <<link, log, read>>
    BY ServerBytes
<1>2. PICK k \in Nat : k = Len(out') /\ Len(out) \in Nat /\ k = Len(out) + 1
  <2>1. Len(out) \in Nat
      BY DEF ClientInv, ConnInv
  <2> QED BY <1>1, <2>1
<1>3. t = TextOf(k) /\ x = IF k = 1 THEN "R" ELSE "U"
  <2>1. CASE SvReply
    <3>1. k = 1
        BY <1>1, <1>2, <2>1
    <3> QED BY <1>1, <2>1, <3>1 DEF TextOf
  <2>2. CASE ~SvReply
    <3>1. k # 1 /\ k - 1 = Len(out)
        BY <1>1, <1>2, <2>2
    <3> QED BY <1>1, <2>2, <3>1 DEF TextOf
  <2> QED BY <2>1, <2>2
<1>4. PICK n \in Nat : n = Len(t)
    OBVIOUS
<1>5. Len(m) = n + 4 /\ Size(k) = n + 4
    BY <1>1, <1>3, <1>4 DEF Packet, Size
<1>6. ASSUME NEW q \in 1 .. n + 4
      PROVE  m[q] = Letter(k, q)
  <2>0. Letter(k, q) = IF q \in {1, 3, n + 4} THEN split_token ELSE IF q = 2 THEN x ELSE t[q - 3]
      BY <1>3, <1>5 DEF Letter
  <2>1. CASE q \in {1, 2, 3, n + 4}
      BY <1>1, <1>4, <2>0, <2>1 DEF Packet
  <2>2. CASE q \notin {1, 2, 3, n + 4}
    <3>1. q - 3 \in 1 .. n /\ (q - 3) + 3 = q
        BY <2>2
    <3>2. m[(q - 3) + 3] = t[q - 3]
        BY <1>1, <1>4, <3>1 DEF Packet
    <3> QED BY <2>0, <2>2, <3>1, <3>2
  <2> QED BY <2>1, <2>2
<1>7. Len(out) >= 1 => HasSent("INIT_DONE")
  <2>1. CASE SvReply
    <3>1. Len(out) = 0
        BY <1>1, <2>1
    <3> QED BY <3>1
  <2>2. CASE SvTell
    <3>1. \E i \in 1 .. read : log[i].action = "INIT_DONE"
        BY <2>2 DEF SvTell, HasRead
    <3> QED BY <3>1 DEF HasSent, ClientInv, ConnInv
  <2> QED BY <2>1, <2>2
<1> HIDE DEF Size, Letter
<1> QED BY <1>1, <1>2, <1>5, <1>6, <1>7

\* The server's next message is laid behind the others.
LEMMA LaidMore ==
    ASSUME wire \in Seq(Bytes), Len(out) \in Nat, NEW k \in 0 .. Len(out), NEW cut, Laid(k, cut),
           NEW m \in Seq(Bytes), wire' = wire \o m, Len(out') = Len(out) + 1,
           Len(out') \in 1 .. Len(Texts) + 1,
           Len(m) = Size(Len(out')), \A q \in 1 .. Len(m) : m[q] = Letter(Len(out'), q)
    PROVE  \E new : Laid(k, new)' /\ new[k] = cut[k]
<1>1. PICK n \in Nat, w \in Nat, z \in Nat :
         n = Len(out) /\ w = Len(wire) /\ z = Size(n + 1) /\ z >= 4
  <2>1. Size(Len(out) + 1) \in Nat /\ Size(Len(out) + 1) >= 4 /\ Len(wire) \in Nat
      BY LetterFacts
  <2> QED BY <2>1, Zenon
<1> DEFINE new == [i \in k .. n + 1 |-> IF i = n + 1 THEN w + z ELSE cut[i]]
<1>k. k \in 0 .. n
    BY <1>1
<1>a. \A i \in k .. n : cut[i] \in Int
    BY <1>1 DEF Laid
<1>b. cut[k] <= 0 /\ (k < n => cut[k + 1] >= 1) /\ cut[n] = w
    BY <1>1 DEF Laid
<1>c. \A i \in k + 1 .. n :
         /\ cut[i] = cut[i - 1] + Size(i)
         /\ \A q \in 1 .. Size(i) : cut[i - 1] + q >= 1 => wire[cut[i - 1] + q] = Letter(i, q)
    BY <1>1 DEF Laid
<1>d. \A i, j \in k .. n : i <= j => cut[i] <= cut[j]
    BY <1>1 DEF Laid
<1>e. \A p \in 1 .. w : \E i \in k + 1 .. n : cut[i - 1] < p /\ p <= cut[i]
    BY <1>1 DEF Laid
<1>3. /\ Len(wire') = w + z /\ Len(m) = z /\ \A p \in 1 .. w : wire'[p] = wire[p]
      /\ \A q \in 1 .. z : wire'[w + q] = Letter(n + 1, q)
  <2>1. PICK v \in Seq(Bytes) : /\ v = wire \o m /\ Len(v) = Len(wire) + Len(m)
                                /\ \A i \in 1 .. Len(wire) : v[i] = wire[i]
                                /\ \A i \in 1 .. Len(m) : v[Len(wire) + i] = m[i]
      BY Concatenated
  <2>2. Len(m) = z /\ \A q \in 1 .. z : m[q] = Letter(n + 1, q)
      BY <1>1
  <2> QED BY <1>1, <2>1, <2>2
<1>4. /\ \A i \in k .. n : new[i] = cut[i] /\ new[i] \in Int
      /\ new[n + 1] = w + z
  <2>1. ASSUME NEW i \in k .. n PROVE new[i] = cut[i] /\ new[i] \in Int
    <3>1. i \in k .. n + 1 /\ i # n + 1
        BY <1>k
    <3> QED BY <1>a, <3>1
  <2>2. n + 1 \in k .. n + 1
      BY <1>k
  <2> QED BY <2>1, <2>2
<1>5. new \in [k .. n + 1 -> Int]
  <2>1. ASSUME NEW i \in k .. n + 1 PROVE (IF i = n + 1 THEN w + z ELSE cut[i]) \in Int
    <3>1. i = n + 1 \/ i \in k .. n
        BY <1>k
    <3> QED BY <1>a, <3>1
  <2> QED BY <2>1
<1> HIDE DEF new
<1>6. new[k] <= 0 /\ (k < n + 1 => new[k + 1] >= 1)
  <2>1. CASE k < n
      BY <1>k, <1>b, <1>4, <2>1, SMTT(30)
  <2>2. CASE k = n
    <3>1. k + 1 = n + 1 /\ new[n + 1] = w + z
        BY <1>4, <2>2
    <3> QED BY <1>1, <1>b, <1>4, <2>2, <3>1, SMTT(30)
  <2> QED BY <1>k, <2>1, <2>2
<1>7. ASSUME NEW i \in k + 1 .. n + 1
      PROVE  /\ new[i] = new[i - 1] + Size(i)
             /\ \A q \in 1 .. Size(i) : new[i - 1] + q >= 1 => wire'[new[i - 1] + q] = Letter(i, q)
  <2>1. CASE i = n + 1
    <3>1. i - 1 = n /\ new[i - 1] = w
        BY <1>k, <1>b, <1>4, <2>1
    <3> QED BY <1>1, <1>3, <1>4, <2>1, <3>1
  <2>2. CASE i \in k + 1 .. n
    <3>1. i \in k .. n /\ i - 1 \in k .. n /\ n \in k .. n
        BY <1>k, <2>2
    <3>2. new[i] = cut[i] /\ new[i - 1] = cut[i - 1] /\ cut[i] = cut[i - 1] + Size(i)
        BY <1>c, <1>4, <2>2, <3>1
    <3>3. cut[i] <= w /\ cut[i] \in Int /\ cut[i - 1] \in Int
      <4>1. cut[i] <= cut[n]
          BY <1>d, <2>2, <3>1
      <4> QED BY <1>a, <1>b, <3>1, <4>1
    <3>s. Size(i) \in Nat
      <4>1. i \in 1 .. Len(Texts) + 1
          BY <1>1, <1>k, <2>2, ClientConstants
      <4> QED BY <4>1, LetterFacts
    <3>4. ASSUME NEW q \in 1 .. Size(i), cut[i - 1] + q >= 1
          PROVE  wire'[cut[i - 1] + q] = Letter(i, q)
      <4>1. cut[i - 1] + q \in 1 .. w
        <5>1. PICK x \in Int, y \in Int : x = cut[i - 1] /\ y = cut[i]
            BY <3>3
        <5>2. PICK u \in Nat : u = Size(i)
            BY <3>s
        <5>3. y <= w /\ y = x + u /\ q \in 1 .. u /\ x + q >= 1
            BY <3>2, <3>3, <3>4, <5>1, <5>2
        <5>4. x + q \in 1 .. w
            BY <5>3
        <5> QED BY <5>1, <5>4
      <4>2. wire[cut[i - 1] + q] = Letter(i, q)
          BY <1>c, <2>2, <3>4
      <4> QED BY <1>3, <4>1, <4>2
    <3>5. new[i] = new[i - 1] + Size(i)
        BY <3>2
    <3>6. \A q \in 1 .. Size(i) : new[i - 1] + q >= 1 => wire'[new[i - 1] + q] = Letter(i, q)
        BY <3>2, <3>4
    <3> QED BY <3>5, <3>6
  <2>3. i = n + 1 \/ i \in k + 1 .. n
      BY <1>k
  <2> QED BY <2>1, <2>2, <2>3
<1>8. ASSUME NEW i \in k .. n + 1, NEW j \in k .. n + 1, i <= j
      PROVE  new[i] <= new[j]
  <2>1. CASE j \in k .. n
    <3>1. i \in k .. n
        BY <1>8, <2>1
    <3>2. cut[i] <= cut[j]
        BY <1>d, <1>8, <2>1, <3>1
    <3> QED BY <1>4, <2>1, <3>1, <3>2
  <2>2. CASE j = n + 1 /\ i \in k .. n
    <3>1. cut[i] <= cut[n] /\ cut[i] \in Int
        BY <1>a, <1>d, <1>k, <2>2
    <3> QED BY <1>b, <1>1, <1>4, <2>2, <3>1, SMTT(30)
  <2>3. CASE j = n + 1 /\ i = n + 1
      BY <1>1, <1>4, <2>3
  <2> QED BY <2>1, <2>2, <2>3
<1>9. ASSUME NEW p \in 1 .. w + z
      PROVE  \E i \in k + 1 .. n + 1 : new[i - 1] < p /\ p <= new[i]
  <2>1. CASE p <= w
    <3>1. PICK i \in k + 1 .. n : cut[i - 1] < p /\ p <= cut[i]
      <4>1. p \in 1 .. w
          BY <2>1
      <4> QED BY <1>e, <4>1
    <3>2. i \in k .. n /\ i - 1 \in k .. n
        OBVIOUS
    <3>3. new[i] = cut[i] /\ new[i - 1] = cut[i - 1]
        BY <1>4, <3>2
    <3> QED BY <3>1, <3>3
  <2>2. CASE p > w
    <3>1. (n + 1) - 1 = n /\ n + 1 \in k + 1 .. n + 1 /\ new[n] = w /\ new[n + 1] = w + z
        BY <1>k, <1>b, <1>4
    <3> QED BY <2>2, <3>1
  <2> QED BY <2>1, <2>2
<1>10. Len(out') = n + 1
    BY <1>1
<1>11. Laid(k, new)'
    BY <1>3, <1>4, <1>5, <1>6, <1>7, <1>8, <1>9, <1>10 DEF Laid
<1>12. new[k] = cut[k]
    BY <1>k, <1>4
<1> QED BY <1>11, <1>12, Zenon

\* What recv takes is taken from the front.
LEMMA LaidLess ==
    ASSUME wire \in Seq(Bytes), Len(out) \in Nat, Len(out) <= Len(Texts) + 1,
           NEW k \in 0 .. Len(out), NEW cut, Laid(k, cut),
           NEW c \in 1 .. Len(wire), wire' = SubSeq(wire, c + 1, Len(wire)), Len(out') = Len(out)
    PROVE  \E l \in k .. Len(out) : \E new :
              /\ Laid(l, new)' /\ new[l] = cut[l] - c
              /\ \A i \in k + 1 .. Len(out) : cut[i] <= c => i <= l
              /\ \A i \in k .. Len(out) : cut[i] = c => i = l
<1>1. PICK n \in Nat, w \in Nat : n = Len(out) /\ w = Len(wire)
    OBVIOUS
<1>k. k \in 0 .. n
    BY <1>1
<1>a. \A i \in k .. n : cut[i] \in Int
    BY <1>1 DEF Laid
<1>b. cut[k] <= 0 /\ (k < n => cut[k + 1] >= 1) /\ cut[n] = w
    BY <1>1 DEF Laid
<1>c. \A i \in k + 1 .. n :
         /\ cut[i] = cut[i - 1] + Size(i)
         /\ \A q \in 1 .. Size(i) : cut[i - 1] + q >= 1 => wire[cut[i - 1] + q] = Letter(i, q)
    BY <1>1 DEF Laid
<1>d. \A i, j \in k .. n : i <= j => cut[i] <= cut[j]
    BY <1>1 DEF Laid
<1>e. \A p \in 1 .. w : \E i \in k + 1 .. n : cut[i - 1] < p /\ p <= cut[i]
    BY <1>1 DEF Laid
<1>s. \A i \in k + 1 .. n : Size(i) \in Nat /\ Size(i) >= 4
  <2> TAKE i \in k + 1 .. n
  <2>1. i \in 1 .. Len(Texts) + 1
      BY <1>1, <1>k, ClientConstants
  <2> QED BY <2>1, LetterFacts
<1>w. c \in 1 .. w
    BY <1>1
<1>3. Len(wire') = w - c /\ \A p \in 1 .. w - c : wire'[p] = wire[c + p]
    BY <1>1
<1>4. PICK l \in k .. n : cut[l] <= c /\ (l < n => cut[l + 1] > c)
  <2>1. CASE c = w
    <3>1. n \in k .. n /\ cut[n] <= c /\ ~(n < n)
        BY <1>b, <1>k, <2>1
    <3> QED BY <3>1
  <2>2. CASE c < w
    <3>1. PICK i \in k + 1 .. n : cut[i - 1] < c + 1 /\ c + 1 <= cut[i]
      <4>1. c + 1 \in 1 .. w
          BY <1>w, <2>2
      <4> QED BY <1>e, <4>1
    <3>2. i - 1 \in k .. n /\ (i - 1) + 1 = i /\ cut[i - 1] \in Int /\ cut[i] \in Int
        BY <1>a, <3>1
    <3>3. cut[i - 1] <= c /\ cut[i] > c
        BY <1>w, <3>1, <3>2
    <3> QED BY <3>2, <3>3
  <2> QED BY <1>w, <2>1, <2>2
<1> DEFINE new == [i \in l .. n |-> cut[i] - c]
<1>5. /\ \A i \in l .. n : new[i] = cut[i] - c /\ cut[i] \in Int
      /\ new \in [l .. n -> Int]
  <2>1. ASSUME NEW i \in l .. n PROVE cut[i] \in Int /\ cut[i] - c \in Int
    <3>1. i \in k .. n
        OBVIOUS
    <3> QED BY <1>a, <1>w, <3>1
  <2> QED BY <2>1
<1> HIDE DEF new
<1>6. new[l] <= 0 /\ (l < n => new[l + 1] >= 1) /\ new[n] = w - c
  <2>1. l \in l .. n /\ n \in l .. n /\ (l < n => l + 1 \in l .. n)
      OBVIOUS
  <2>2. new[l] = cut[l] - c /\ cut[l] \in Int /\ new[n] = cut[n] - c
      BY <1>5, <2>1
  <2>3. l < n => new[l + 1] = cut[l + 1] - c /\ cut[l + 1] \in Int
      BY <1>5, <2>1
  <2> QED BY <1>b, <1>w, <1>4, <2>2, <2>3, SMTT(30)
<1>7. ASSUME NEW i \in l + 1 .. n
      PROVE  /\ new[i] = new[i - 1] + Size(i)
             /\ \A q \in 1 .. Size(i) : new[i - 1] + q >= 1 => wire'[new[i - 1] + q] = Letter(i, q)
  <2>1. i \in l .. n /\ i - 1 \in l .. n /\ i \in k + 1 .. n /\ n \in k .. n /\ i \in k .. n
      BY <1>k
  <2>2. /\ new[i] = cut[i] - c /\ new[i - 1] = cut[i - 1] - c
        /\ cut[i] \in Int /\ cut[i - 1] \in Int /\ cut[i] <= w /\ Size(i) \in Nat
        /\ cut[i] = cut[i - 1] + Size(i)
    <3>1. cut[i] <= cut[n]
        BY <1>d, <2>1
    <3>2. cut[i] = cut[i - 1] + Size(i) /\ Size(i) \in Nat
        BY <1>c, <1>s, <2>1
    <3>3. /\ new[i] = cut[i] - c /\ new[i - 1] = cut[i - 1] - c
          /\ cut[i] \in Int /\ cut[i - 1] \in Int
        BY <1>5, <2>1
    <3> QED BY <1>b, <3>1, <3>2, <3>3
  <2>3. ASSUME NEW q \in 1 .. Size(i), new[i - 1] + q >= 1
        PROVE  wire'[new[i - 1] + q] = Letter(i, q)
    <3>1. /\ new[i - 1] + q \in 1 .. w - c /\ c + (new[i - 1] + q) = cut[i - 1] + q
          /\ cut[i - 1] + q >= 1
      <4>1. PICK x \in Int, y \in Int, u \in Nat : x = cut[i - 1] /\ y = cut[i] /\ u = Size(i)
          BY <2>2
      <4>2. new[i - 1] = x - c /\ y <= w /\ y = x + u /\ q \in 1 .. u
          BY <2>2, <4>1
      <4>3. (x - c) + q >= 1
          BY <2>3, <4>2
      <4>4. (x - c) + q \in 1 .. w - c /\ c + ((x - c) + q) = x + q /\ x + q >= 1
          BY <1>w, <4>2, <4>3
      <4> QED BY <4>1, <4>2, <4>4
    <3>2. wire[cut[i - 1] + q] = Letter(i, q)
        BY <1>c, <2>1, <3>1
    <3>3. wire'[new[i - 1] + q] = wire[c + (new[i - 1] + q)]
        BY <1>3, <3>1
    <3> QED BY <3>1, <3>2, <3>3
  <2>4. new[i] = new[i - 1] + Size(i)
      BY <1>w, <2>2
  <2> QED BY <2>3, <2>4
<1>8. ASSUME NEW i \in l .. n, NEW j \in l .. n, i <= j
      PROVE  new[i] <= new[j]
  <2>1. i \in k .. n /\ j \in k .. n
      OBVIOUS
  <2>2. cut[i] <= cut[j]
      BY <1>d, <1>8, <2>1
  <2>3. PICK x \in Int, y \in Int : x = cut[i] /\ y = cut[j]
      BY <1>5
  <2>4. new[i] = x - c /\ new[j] = y - c /\ x <= y
      BY <1>5, <2>2, <2>3
  <2> QED BY <1>w, <2>3, <2>4
<1>9. ASSUME NEW p \in 1 .. w - c
      PROVE  \E i \in l + 1 .. n : new[i - 1] < p /\ p <= new[i]
  <2>1. c + p \in 1 .. w
      BY <1>w
  <2>2. PICK i \in k + 1 .. n : cut[i - 1] < c + p /\ c + p <= cut[i]
      BY <1>e, <2>1
  <2>3. i > l
    <3>1. i \in k .. n /\ l \in k .. n /\ cut[i] \in Int /\ cut[l] \in Int
        BY <1>a, <2>2
    <3>2. cut[i] > cut[l]
        BY <1>w, <1>4, <2>2, <3>1
    <3> QED BY <1>d, <3>1, <3>2
  <2>4. i \in l + 1 .. n /\ i \in l .. n /\ i - 1 \in l .. n
      BY <2>2, <2>3
  <2>5. new[i] = cut[i] - c /\ new[i - 1] = cut[i - 1] - c /\ cut[i] \in Int /\ cut[i - 1] \in Int
      BY <1>5, <2>4
  <2>6. new[i - 1] < p /\ p <= new[i]
      BY <1>w, <2>2, <2>5
  <2> QED BY <2>4, <2>6
<1>10. Laid(l, new)'
    BY <1>1, <1>3, <1>5, <1>6, <1>7, <1>8, <1>9 DEF Laid
<1>11. ASSUME NEW i \in k + 1 .. n, cut[i] <= c
       PROVE  i <= l
  <2> SUFFICES ASSUME i > l PROVE FALSE
      OBVIOUS
  <2>1. l < n /\ l + 1 \in k .. n /\ i \in k .. n /\ l + 1 <= i
      OBVIOUS
  <2>2. cut[l + 1] <= cut[i] /\ cut[l + 1] \in Int /\ cut[i] \in Int
      BY <1>a, <1>d, <2>1
  <2> QED BY <1>w, <1>4, <1>11, <2>1, <2>2
<1>12. ASSUME NEW i \in k .. n, cut[i] = c
       PROVE  i = l
  <2>1. i # k
      BY <1>w, <1>b, <1>12
  <2>2. i <= l
      BY <1>w, <1>11, <1>12, <2>1
  <2>3. ASSUME i < l PROVE FALSE
    <3>1. i + 1 \in k + 1 .. n /\ i + 1 \in k .. n /\ (i + 1) - 1 = i /\ l \in k .. n /\ i + 1 <= l
        BY <2>3
    <3>2. cut[i + 1] = cut[i] + Size(i + 1) /\ Size(i + 1) >= 4 /\ Size(i + 1) \in Nat
        BY <1>c, <1>s, <3>1
    <3>3. cut[i + 1] <= cut[l] /\ cut[i + 1] \in Int /\ cut[l] \in Int
        BY <1>a, <1>d, <3>1
    <3> QED BY <1>w, <1>4, <1>12, <3>2, <3>3
  <2> QED BY <2>2, <2>3
<1>13. new[l] = cut[l] - c
    BY <1>5
<1> QED BY <1>1, <1>10, <1>11, <1>12, <1>13

------------------------------------------------------------------------------
(* Strings and their fields *)

WellFounded == INSTANCE WellFoundedInduction

\* A set of numbers has a least one.
LEMMA Least ==
    ASSUME NEW T, T \subseteq Nat, T # {}
    PROVE  \E x \in T : \A y \in T : x <= y
<1>1. WellFounded!IsWellFoundedOn(WellFounded!OpToRel(<, Nat), Nat)
    BY WellFounded!NatLessThanWellFounded
<1>2. PICK x \in T : \A y \in T : ~(<<y, x>> \in WellFounded!OpToRel(<, Nat))
    BY <1>1, WellFounded!WFMin
<1>3. \A y \in T : ~(y < x)
    BY <1>2 DEF WellFounded!OpToRel
<1> QED BY <1>3

\* The string in a buffer ends before the first NUL, or with the buffer.
LEMMA StringEnds ==
    ASSUME NEW f \in [1 .. MAX_LEN -> Bytes]
    PROVE  \E l \in 0 .. MAX_LEN :
              /\ CString(f) = SubSeq(f, 1, l)
              /\ CString(f) \in Seq(Bytes) /\ Len(CString(f)) = l
              /\ \A p \in 1 .. l : CString(f)[p] = f[p] /\ f[p] # NUL
              /\ l < MAX_LEN => f[l + 1] = NUL
<1>1. MAX_LEN \in Nat /\ f \in Seq(Bytes) /\ Len(f) = MAX_LEN
    BY FrameAssumption, FrameIsSeq
<1> DEFINE T == {i \in 1 .. MAX_LEN : f[i] = NUL} \cup {MAX_LEN + 1}
<1>2. PICK x \in T : \A y \in T : x <= y
  <2>1. T \subseteq Nat /\ T # {}
      BY <1>1
  <2> HIDE DEF T
  <2> QED BY <2>1, Least
<1>3. PICK l \in 0 .. MAX_LEN : l = x - 1 /\ l + 1 = x
    BY <1>1
<1>4. l < MAX_LEN => f[l + 1] = NUL
    BY <1>1, <1>3
<1>5. \A p \in 1 .. l : f[p] # NUL
  <2> SUFFICES ASSUME NEW p \in 1 .. l, f[p] = NUL PROVE FALSE
      OBVIOUS
  <2>1. p \in T
      BY <1>1
  <2> QED BY <1>2, <1>3, <2>1
<1>6. {i \in 1 .. MAX_LEN : \A j \in 1 .. i : f[j] # NUL} = 1 .. l
  <2>1. ASSUME NEW i \in 1 .. MAX_LEN, \A j \in 1 .. i : f[j] # NUL
        PROVE  i \in 1 .. l
    <3> SUFFICES ASSUME i > l PROVE FALSE
        BY <1>1
    <3>1. l < MAX_LEN /\ l + 1 \in 1 .. i
        BY <1>1
    <3> QED BY <1>4, <2>1, <3>1
  <2>2. ASSUME NEW i \in 1 .. l
        PROVE  i \in 1 .. MAX_LEN /\ \A j \in 1 .. i : f[j] # NUL
      BY <1>1, <1>5
  <2> QED BY <2>1, <2>2
<1>7. Cardinality(1 .. l) = l
  <2>1. PICK u \in Int, v \in Int : u = 1 /\ v = l
      BY <1>1
  <2>2. Cardinality(u .. v) = IF u > v THEN 0 ELSE v - u + 1
      BY FS_Interval
  <2> QED BY <1>1, <2>1, <2>2
<1>8. CString(f) = SubSeq(f, 1, l)
    BY <1>6, <1>7 DEF CString
<1>9. /\ SubSeq(f, 1, l) \in Seq(Bytes) /\ Len(SubSeq(f, 1, l)) = l
      /\ \A p \in 1 .. l : SubSeq(f, 1, l)[p] = f[p]
    BY <1>1
<1> QED BY <1>4, <1>5, <1>8, <1>9

\* Three separators make a message, whose fields lie between them.
LEMMA FieldsAt ==
    ASSUME NEW str, NEW a \in Int, NEW b \in Int, NEW c \in Int, a < b, b < c,
           Separators(str) = {a, b, c}
    PROVE  /\ ValidFormat(str)
           /\ construct_from_string(str)[2] = SubSeq(str, a + 1, b - 1)
           /\ construct_from_string(str)[3] = SubSeq(str, b + 1, c - 1)
<1>1. nr_of_separations = 3
    BY ClientConstants
<1>2. /\ IsFiniteSet({a}) /\ Cardinality({a}) = 1
      /\ IsFiniteSet({a, b}) /\ Cardinality({a, b}) = 2
      /\ Cardinality({a, b, c}) = 3
  <2>1. IsFiniteSet({a}) /\ Cardinality({a}) = 1
      BY FS_Singleton
  <2>2. {a, b} = {a} \cup {b} /\ b \notin {a} /\ {a, b, c} = {a, b} \cup {c} /\ c \notin {a, b}
      OBVIOUS
  <2>3. IsFiniteSet({a} \cup {b}) /\ Cardinality({a} \cup {b}) = 2
    <3>1. \A S, x : IsFiniteSet(S) =>
             /\ IsFiniteSet(S \cup {x})
             /\ x \notin S => Cardinality(S \cup {x}) = Cardinality(S) + 1
        BY FS_AddElement
    <3> QED BY <2>1, <2>2, <3>1, SMTT(30)
  <2>4. Cardinality({a, b} \cup {c}) = 3
      BY <2>2, <2>3, FS_AddElement
  <2> QED BY <2>1, <2>2, <2>3, <2>4
<1>3. /\ {j \in {a, b, c} : j <= a} = {a} /\ {j \in {a, b, c} : j <= b} = {a, b}
      /\ {j \in {a, b, c} : j <= c} = {a, b, c}
    OBVIOUS
<1>4. EndOf(str, 1) = a /\ EndOf(str, 2) = b /\ EndOf(str, 3) = c
  <2> DEFINE N(i) == Cardinality({j \in {a, b, c} : j <= i})
  <2>1. N(a) = 1 /\ N(b) = 2 /\ N(c) = 3
      BY <1>2, <1>3
  <2>2. \A k \in {1, 2, 3} : EndOf(str, k) = CHOOSE i \in {a, b, c} : N(i) = k
    <3>1. 0 \notin {1, 2, 3}
        OBVIOUS
    <3>2. \A k \in {1, 2, 3} : k # 0
        BY <3>1, Zenon
    <3> QED BY <3>2, Zenon DEF EndOf
  <2> HIDE DEF N
  <2>3. (CHOOSE i \in {a, b, c} : N(i) = 1) = a
      BY <2>1
  <2>4. (CHOOSE i \in {a, b, c} : N(i) = 2) = b
      BY <2>1
  <2>5. (CHOOSE i \in {a, b, c} : N(i) = 3) = c
      BY <2>1
  <2> QED BY <2>2, <2>3, <2>4, <2>5
<1>5. ValidFormat(str)
    BY <1>1, <1>2 DEF ValidFormat
<1>6. \A k \in 1 .. 3 :
         construct_from_string(str)[k] = SubSeq(str, EndOf(str, k - 1) + 1, EndOf(str, k) - 1)
    BY <1>1 DEF construct_from_string
<1>7. 2 \in 1 .. 3 /\ 3 \in 1 .. 3 /\ 2 - 1 = 1 /\ 3 - 1 = 2
    OBVIOUS
<1> HIDE DEF EndOf, construct_from_string
<1>8. /\ construct_from_string(str)[2] = SubSeq(str, EndOf(str, 2 - 1) + 1, EndOf(str, 2) - 1)
      /\ construct_from_string(str)[3] = SubSeq(str, EndOf(str, 3 - 1) + 1, EndOf(str, 3) - 1)
    BY <1>6, <1>7, Zenon
<1> QED BY <1>4, <1>5, <1>7, <1>8

\* A message has three separators.
LEMMA FieldsFound ==
    ASSUME NEW str \in Seq(Bytes), ValidFormat(str)
    PROVE  \E a, b, c \in 1 .. Len(str) : a < b /\ b < c /\ Separators(str) = {a, b, c}
<1> DEFINE S == Separators(str)
<1>1. S \subseteq 1 .. Len(str) /\ Len(str) \in Nat
    BY DEF Separators
<1>2. IsFiniteSet(S) /\ Cardinality(S) = 3
  <2>1. IsFiniteSet(1 .. Len(str))
    <3>1. PICK u \in Int, v \in Int : u = 1 /\ v = Len(str)
        BY <1>1
    <3>2. IsFiniteSet(u .. v)
        BY FS_Interval
    <3> QED BY <3>1, <3>2
  <2>2. IsFiniteSet(S)
      BY <1>1, <2>1, FS_Subset
  <2>3. Cardinality(S) = nr_of_separations
      BY DEF ValidFormat
  <2> QED BY <2>2, <2>3, ClientConstants
<1> HIDE DEF S
<1>3. PICK x : x \in S
  <2>1. S # {}
      BY <1>2, FS_EmptySet
  <2> QED BY <2>1
<1>4. IsFiniteSet(S \ {x}) /\ Cardinality(S \ {x}) = 2
    BY <1>2, <1>3, FS_RemoveElement
<1>5. PICK y : y \in S \ {x}
  <2>1. S \ {x} # {}
      BY <1>4, FS_EmptySet
  <2> QED BY <2>1
<1>6. IsFiniteSet((S \ {x}) \ {y}) /\ Cardinality((S \ {x}) \ {y}) = 1
  <2> DEFINE R == S \ {x}
  <2>1. IsFiniteSet(R) /\ Cardinality(R) = 2 /\ y \in R
      BY <1>4, <1>5
  <2> HIDE DEF R
  <2>2. IsFiniteSet(R \ {y}) /\ Cardinality(R \ {y}) = 1
      BY <2>1, FS_RemoveElement
  <2> QED BY <2>2 DEF R
<1>7. PICK z : (S \ {x}) \ {y} = {z}
    BY <1>6, FS_Singleton
<1>8. S = {x, y, z} /\ x # y /\ y # z /\ x # z
    BY <1>3, <1>5, <1>7
<1>9. x \in 1 .. Len(str) /\ y \in 1 .. Len(str) /\ z \in 1 .. Len(str)
    BY <1>1, <1>8
<1>10. /\ S = {x, z, y} /\ S = {y, x, z} /\ S = {y, z, x} /\ S = {z, x, y} /\ S = {z, y, x}
    BY <1>8
<1>11. \/ x < y /\ y < z
       \/ x < z /\ z < y
       \/ y < x /\ x < z
       \/ y < z /\ z < x
       \/ z < x /\ x < y
       \/ z < y /\ y < x
  <2>1. x \in Int /\ y \in Int /\ z \in Int
      BY <1>1, <1>9
  <2>2. x # y /\ y # z /\ x # z
      BY <1>8
  <2> QED BY <2>1, <2>2
<1>12. \E a, b, c \in 1 .. Len(str) : a < b /\ b < c /\ S = {a, b, c}
    BY <1>8, <1>9, <1>10, <1>11, Zenon
<1> QED BY <1>12 DEF S

\* Part of a string, given by its characters.
LEMMA Piece ==
    ASSUME NEW s \in Seq(Bytes), NEW t \in Seq(Bytes), NEW a \in Int, NEW b \in Int,
           1 <= a, b <= Len(s), (b - a) + 1 = Len(t),
           \A i \in 1 .. Len(t) : s[(a + i) - 1] = t[i]
    PROVE  SubSeq(s, a, b) = t
<1>1. PICK n \in Nat, l \in Nat : n = Len(t) /\ l = Len(s) /\ (b - a) + 1 = n /\ b <= l
    OBVIOUS
<1>2. /\ SubSeq(s, a, b) \in Seq(Bytes) /\ Len(SubSeq(s, a, b)) = n
      /\ \A i \in 1 .. n : SubSeq(s, a, b)[i] = s[(a + i) - 1]
    BY <1>1
<1>3. PICK u \in Seq(Bytes) : u = SubSeq(s, a, b) /\ Len(u) = n
    BY <1>2
<1>4. \A i \in 1 .. n : u[i] = t[i]
    BY <1>1, <1>2, <1>3
<1>5. u = t
    BY <1>1, <1>3, <1>4
<1> QED BY <1>3, <1>5

\* A part of one character.
LEMMA PieceOfOne ==
    ASSUME NEW s \in Seq(Bytes), NEW a \in Int, NEW b \in Int, NEW x \in Bytes,
           1 <= a, b <= Len(s)
    PROVE  SubSeq(s, a, b) = <<x>> <=> a = b /\ s[a] = x
<1>1. <<x>> \in Seq(Bytes) /\ Len(<<x>>) = 1 /\ <<x>>[1] = x
    OBVIOUS
<1>2. ASSUME a = b, s[a] = x PROVE SubSeq(s, a, b) = <<x>>
  <2>1. (b - a) + 1 = 1 /\ \A i \in 1 .. 1 : (a + i) - 1 = a /\ i = 1
      BY <1>2
  <2>2. (b - a) + 1 = Len(<<x>>) /\ \A i \in 1 .. Len(<<x>>) : s[(a + i) - 1] = <<x>>[i]
      BY <1>1, <1>2, <2>1
  <2> QED BY <1>1, <2>2, Piece
<1>3. ASSUME SubSeq(s, a, b) = <<x>> PROVE a = b /\ s[a] = x
  <2>1. Len(SubSeq(s, a, b)) = 1 /\ SubSeq(s, a, b)[1] = x
      BY <1>1, <1>3
  <2>2. a <= b
    <3> SUFFICES ASSUME b < a PROVE FALSE
        OBVIOUS
    <3>1. SubSeq(s, a, b) = <<>>
        OBVIOUS
    <3>2. Len(<<>>) = 0
        OBVIOUS
    <3> QED BY <2>1, <3>1, <3>2
  <2>3. Len(SubSeq(s, a, b)) = (b - a) + 1 /\ SubSeq(s, a, b)[1] = s[(a + 1) - 1]
      BY <2>2
  <2>4. (a + 1) - 1 = a
      OBVIOUS
  <2> QED BY <2>1, <2>3, <2>4
<1> QED BY <1>2, <1>3

\* The characters under way are those of the messages.
LEMMA LaidFacts ==
    ASSUME wire \in Seq(Bytes), Len(out) \in Nat, Len(out) <= Len(Texts) + 1,
           NEW k \in 0 .. Len(out), NEW cut, Laid(k, cut)
    PROVE  /\ \A i \in k .. Len(out) : cut[i] \in Int /\ cut[i] <= Len(wire)
           /\ \A i \in k + 1 .. Len(out) :
                 i \in 1 .. Len(Texts) + 1 /\ Size(i) \in Nat /\ Size(i) >= 4
           /\ \A p \in 1 .. Len(wire) : \E i \in k + 1 .. Len(out) : \E q \in 1 .. Size(i) :
                 p = cut[i - 1] + q /\ wire[p] = Letter(i, q) /\ wire[p] # NUL
           /\ wire # <<>> => k < Len(out) /\ Len(wire) > 0 /\ wire[Len(wire)] = split_token
<1>1. PICK n \in Nat, w \in Nat : n = Len(out) /\ w = Len(wire) /\ k \in 0 .. n
    OBVIOUS
<1>a. \A i \in k .. n : cut[i] \in Int
    BY <1>1 DEF Laid
<1>b. cut[k] <= 0 /\ cut[n] = w
    BY <1>1 DEF Laid
<1>c. \A i \in k + 1 .. n :
         /\ cut[i] = cut[i - 1] + Size(i)
         /\ \A q \in 1 .. Size(i) : cut[i - 1] + q >= 1 => wire[cut[i - 1] + q] = Letter(i, q)
    BY <1>1 DEF Laid
<1>d. \A i \in k .. n : cut[i] <= cut[n]
    BY <1>1 DEF Laid
<1>e. \A p \in 1 .. w : \E i \in k + 1 .. n : cut[i - 1] < p /\ p <= cut[i]
    BY <1>1 DEF Laid
<1>2. \A i \in k .. n : cut[i] \in Int /\ cut[i] <= w
    BY <1>a, <1>b, <1>d
<1>3. \A i \in k + 1 .. n : i \in 1 .. Len(Texts) + 1 /\ Size(i) \in Nat /\ Size(i) >= 4
  <2> TAKE i \in k + 1 .. n
  <2>1. i \in 1 .. Len(Texts) + 1
      BY <1>1, ClientConstants
  <2> QED BY <2>1, LetterFacts
<1>4. ASSUME NEW p \in 1 .. w
      PROVE  \E i \in k + 1 .. n : \E q \in 1 .. Size(i) :
                p = cut[i - 1] + q /\ wire[p] = Letter(i, q) /\ wire[p] # NUL
  <2>1. PICK i \in k + 1 .. n : cut[i - 1] < p /\ p <= cut[i]
      BY <1>e
  <2>2. PICK x \in Int, y \in Int, z \in Nat :
           x = cut[i - 1] /\ y = cut[i] /\ z = Size(i) /\ y = x + z
    <3>1. i - 1 \in k .. n /\ i \in k .. n
        BY <1>1
    <3> QED BY <1>a, <1>c, <1>3, <3>1
  <2>3. p - x \in 1 .. z /\ x + (p - x) = p /\ p >= 1
    <3>1. x < p /\ p <= x + z
        BY <2>1, <2>2
    <3> QED BY <3>1
  <2>4. wire[p] = Letter(i, p - x)
      BY <1>c, <2>1, <2>2, <2>3
  <2>5. Letter(i, p - x) # NUL
      BY <1>3, <2>2, <2>3, LetterFacts
  <2> QED BY <2>1, <2>2, <2>3, <2>4, <2>5
<1>5. ASSUME wire # <<>>
      PROVE  k < n /\ w > 0 /\ wire[w] = split_token
  <2>1. w > 0
      BY <1>1, <1>5
  <2>2. k < n
      BY <1>1, <1>b, <2>1
  <2>3. n \in k + 1 .. n /\ n - 1 \in k .. n
      BY <1>1, <2>2
  <2>4. PICK x \in Int, z \in Nat : x = cut[n - 1] /\ z = Size(n) /\ w = x + z /\ z >= 4
      BY <1>a, <1>b, <1>c, <1>3, <2>3
  <2>5. z \in 1 .. z /\ x + z >= 1
      BY <2>1, <2>4, SMTT(30)
  <2>6. wire[w] = Letter(n, z)
      BY <1>c, <2>3, <2>4, <2>5
  <2>7. Letter(n, z) = split_token
      BY <1>3, <2>3, <2>4, <2>5, LetterFacts
  <2> QED BY <2>1, <2>2, <2>6, <2>7
<1> QED BY <1>1, <1>2, <1>3, <1>4, <1>5

------------------------------------------------------------------------------
(* What one recv makes of the stream *)

\* When what is under way begins with a message and a recv returns three separators,
\* it returns that message.
LEMMA AloneChunk ==
    ASSUME wire \in Seq(Bytes), wire # <<>>, Len(out) \in Nat, Len(out) <= Len(Texts) + 1,
           NEW k \in 0 .. Len(out), NEW cut, Laid(k, cut), cut[k] = 0,
           ValidFormat(Chunk(wire))
    PROVE  /\ k + 1 \in 1 .. Len(out) /\ Len(Chunk(wire)) = Size(k + 1) /\ cut[k + 1] = Size(k + 1)
           /\ \A q \in 1 .. Size(k + 1) : Chunk(wire)[q] = Letter(k + 1, q)
<1>1. PICK n \in Nat, w \in Nat : n = Len(out) /\ w = Len(wire) /\ k \in 0 .. n
    OBVIOUS
<1>2. k < n /\ k + 1 \in k + 1 .. n /\ k + 1 \in 1 .. Len(Texts) + 1
    BY <1>1, LaidFacts
<1>3. PICK z \in Nat : z = Size(k + 1) /\ z >= 4 /\ cut[k + 1] = z
  <2>1. cut[k + 1] = cut[(k + 1) - 1] + Size(k + 1) /\ (k + 1) - 1 = k
      BY <1>1, <1>2 DEF Laid
  <2>2. Size(k + 1) \in Nat /\ Size(k + 1) >= 4
      BY <1>2, LetterFacts
  <2> QED BY <2>1, <2>2
<1>4. \A q \in 1 .. z : wire[q] = Letter(k + 1, q)
  <2>1. \A q \in 1 .. z : cut[(k + 1) - 1] + q >= 1 => wire[cut[(k + 1) - 1] + q] = Letter(k + 1, q)
      BY <1>1, <1>2, <1>3 DEF Laid
  <2>2. (k + 1) - 1 = k /\ \A q \in 1 .. z : 0 + q = q /\ q >= 1
      OBVIOUS
  <2> QED BY <2>1, <2>2
<1>5. z <= w
  <2>1. k + 1 \in k .. n
      BY <1>1, <1>2
  <2> QED BY <1>1, <1>3, <2>1, LaidFacts
<1>6. \A q \in 1 .. z : wire[q] = split_token <=> q \in {1, 3, z}
  <2>1. \A q \in 1 .. Size(k + 1) : Letter(k + 1, q) = split_token <=> q \in {1, 3, Size(k + 1)}
      BY <1>2, LetterFacts
  <2> QED BY <1>3, <1>4, <2>1
<1>7. w > z => wire[z + 1] = split_token
  <2> SUFFICES ASSUME w > z PROVE wire[z + 1] = split_token
      OBVIOUS
  <2>1. cut[n] = w
      BY <1>1 DEF Laid
  <2>2. k + 1 # n
      BY <1>3, <2>1
  <2>3. k + 2 \in k + 1 .. n /\ (k + 2) - 1 = k + 1 /\ k + 2 \in 1 .. Len(Texts) + 1
      BY <1>1, <1>2, <2>2
  <2>4. Size(k + 2) \in Nat /\ Size(k + 2) >= 4
      BY <2>3, LetterFacts
  <2>5. 1 \in 1 .. Size(k + 2) /\ z + 1 >= 1
      BY <2>4
  <2>6. wire[cut[(k + 2) - 1] + 1] = Letter(k + 2, 1)
    <3>1. cut[(k + 2) - 1] = z
        BY <1>3, <2>3
    <3> QED BY <1>1, <2>3, <2>5, <3>1 DEF Laid
  <2>7. Letter(k + 2, 1) = split_token
      BY <2>3, <2>5, LetterFacts
  <2> QED BY <1>3, <2>3, <2>6, <2>7
<1>8. PICK h \in Seq(Bytes), c \in Nat :
         /\ h = Chunk(wire) /\ c = Len(h) /\ c <= w /\ \A i \in 1 .. c : h[i] = wire[i]
  <2>1. /\ Chunk(wire) \in Seq(Bytes) /\ Len(Chunk(wire)) \in Nat /\ Len(Chunk(wire)) <= Len(wire)
        /\ \A i \in 1 .. Len(Chunk(wire)) : Chunk(wire)[i] = wire[i]
      BY ChunkFits, FrameAssumption
  <2> QED BY <1>1, <2>1, Zenon
<1>9. PICK x \in 1 .. c, y \in 1 .. c, u \in 1 .. c : x < y /\ y < u /\ Separators(h) = {x, y, u}
    BY <1>8, FieldsFound
<1>10. \A i \in 1 .. c : i \in {x, y, u} <=> wire[i] = split_token
  <2>1. Separators(h) = {i \in 1 .. c : h[i] = split_token}
      BY <1>8 DEF Separators
  <2> QED BY <1>8, <1>9, <2>1
<1>11. ~(c < z)
  <2> SUFFICES ASSUME c < z PROVE FALSE
      OBVIOUS
  <2>1. \A i \in 1 .. c : i \in 1 .. z /\ i # z
      OBVIOUS
  <2>2. x \in {1, 3} /\ y \in {1, 3} /\ u \in {1, 3}
      BY <1>6, <1>10, <2>1
  <2> QED BY <1>9, <2>2
<1>12. ~(c > z)
  <2> SUFFICES ASSUME c > z PROVE FALSE
      OBVIOUS
  <2>1. /\ 1 \in 1 .. c /\ 3 \in 1 .. c /\ z \in 1 .. c /\ z + 1 \in 1 .. c
        /\ 1 \in 1 .. z /\ 3 \in 1 .. z /\ z \in 1 .. z /\ w > z
      BY <1>3, <1>8
  <2>2. wire[1] = split_token /\ wire[3] = split_token /\ wire[z] = split_token
      BY <1>6, <2>1
  <2>3. 1 \in {x, y, u} /\ 3 \in {x, y, u} /\ z \in {x, y, u} /\ z + 1 \in {x, y, u}
      BY <1>7, <1>10, <2>1, <2>2
  <2> QED BY <1>3, <2>3, SMTT(30)
<1>13. c = z
    BY <1>11, <1>12
<1> QED BY <1>1, <1>2, <1>3, <1>4, <1>8, <1>13

\* A message received alone into a cleared buffer is read as that message.
LEMMA AloneShows ==
    ASSUME NEW k \in 2 .. Len(Texts) + 1, NEW b \in Seq(Bytes), Len(b) = Size(k), Len(b) <= MAX_LEN,
           \A q \in 1 .. Size(k) : b[q] = Letter(k, q), frame' = Received(Cleared, b)
    PROVE  Shows(Texts[k - 1])'
<1>1. MAX_LEN \in Nat /\ Len(Texts) \in Nat
    BY FrameAssumption, ClientConstants
<1>2. /\ k \in 1 .. Len(Texts) + 1 /\ k - 1 \in 1 .. Len(Texts) /\ k >= 2
      /\ TextOf(k) \in Seq(Bytes) /\ TextOf(k) = Texts[k - 1]
      /\ Letter(k, 2) = "U"
      /\ \A q \in 1 .. Size(k) :
            Letter(k, q) # NUL /\ (Letter(k, q) = split_token <=> q \in {1, 3, Size(k)})
      /\ \A q \in 1 .. Len(TextOf(k)) : Letter(k, q + 3) = TextOf(k)[q]
    BY <1>1, LetterFacts
<1>3. PICK z \in Nat, t \in Seq(Bytes) : z = Size(k) /\ t = TextOf(k) /\ z = Len(t) + 4
    BY <1>2 DEF Size
<1>4. PICK f \in [1 .. MAX_LEN -> Bytes] :
         f = frame' /\ \A i \in 1 .. MAX_LEN : f[i] = IF i <= z THEN Letter(k, i) ELSE NUL
  <2>1. /\ frame' \in [1 .. MAX_LEN -> Bytes]
        /\ \A i \in 1 .. MAX_LEN : frame'[i] = IF i <= Len(b) THEN b[i] ELSE Cleared[i]
      BY BufferChars, ReceivedFits
  <2>2. \A i \in 1 .. MAX_LEN : Cleared[i] = NUL
      BY DEF Cleared
  <2>3. ASSUME NEW i \in 1 .. MAX_LEN
        PROVE  frame'[i] = IF i <= z THEN Letter(k, i) ELSE NUL
    <3>1. i <= z => i \in 1 .. z
        OBVIOUS
    <3> QED BY <1>3, <2>1, <2>2, <3>1
  <2> QED BY <2>1, <2>3, Zenon
<1>5. PICK l \in 0 .. MAX_LEN, str \in Seq(Bytes) :
         /\ str = CString(f) /\ Len(str) = l
         /\ \A p \in 1 .. l : str[p] = f[p] /\ f[p] # NUL
         /\ l < MAX_LEN => f[l + 1] = NUL
    BY StringEnds
<1>6. l = z
  <2>1. ~(l < z)
    <3> SUFFICES ASSUME l < z PROVE FALSE
        OBVIOUS
    <3>1. l < MAX_LEN /\ l + 1 \in 1 .. MAX_LEN /\ l + 1 \in 1 .. z /\ l + 1 <= z
        BY <1>1, <1>3
    <3> QED BY <1>2, <1>3, <1>4, <1>5, <3>1
  <2>2. ~(l > z)
    <3> SUFFICES ASSUME l > z PROVE FALSE
        OBVIOUS
    <3>1. z + 1 \in 1 .. l /\ z + 1 \in 1 .. MAX_LEN /\ ~(z + 1 <= z)
        BY <1>1
    <3> QED BY <1>4, <1>5, <3>1
  <2> QED BY <2>1, <2>2
<1>7. \A p \in 1 .. z : str[p] = Letter(k, p)
    BY <1>1, <1>3, <1>4, <1>5, <1>6
<1>8. Separators(str) = {1, 3, z}
  <2>1. Separators(str) = {p \in 1 .. z : str[p] = split_token}
      BY <1>5, <1>6 DEF Separators
  <2>2. 1 \in 1 .. z /\ 3 \in 1 .. z /\ z \in 1 .. z
      BY <1>3
  <2>3. ASSUME NEW p \in 1 .. z PROVE str[p] = split_token <=> p \in {1, 3, z}
      BY <1>2, <1>3, <1>7, Zenon
  <2> QED BY <2>1, <2>2, <2>3
<1>9. PICK a \in Int, d \in Int, e \in Int : a = 1 /\ d = 3 /\ e = z /\ a < d /\ d < e
    BY <1>3
<1>10. /\ ValidFormat(str)
       /\ construct_from_string(str)[2] = SubSeq(str, a + 1, d - 1)
       /\ construct_from_string(str)[3] = SubSeq(str, d + 1, e - 1)
  <2>1. Separators(str) = {a, d, e}
      BY <1>8, <1>9
  <2>2. a < d /\ d < e
      BY <1>9
  <2>3. \A v : Separators(v) = {a, d, e} =>
           /\ ValidFormat(v)
           /\ construct_from_string(v)[2] = SubSeq(v, a + 1, d - 1)
           /\ construct_from_string(v)[3] = SubSeq(v, d + 1, e - 1)
      BY <2>2, FieldsAt, SMTT(30)
  <2> QED BY <2>1, <2>3, Zenon
<1>11. SubSeq(str, a + 1, d - 1) = <<"U">>
  <2>1. "U" \in Bytes
      BY DEF Bytes
  <2>2. a + 1 = 2 /\ d - 1 = 2 /\ 2 \in 1 .. z
      BY <1>3, <1>9
  <2>3. str[2] = "U"
      BY <1>2, <1>7, <2>2
  <2>4. 1 <= a + 1 /\ d - 1 <= Len(str) /\ a + 1 \in Int /\ d - 1 \in Int
      BY <1>3, <1>5, <1>6, <1>9
  <2> QED BY <2>1, <2>2, <2>3, <2>4, PieceOfOne
<1>12. SubSeq(str, d + 1, e - 1) = t
  <2>1. PICK m \in Nat : m = Len(t) /\ z = m + 4
      BY <1>3
  <2>2. ASSUME NEW i \in 1 .. m PROVE str[((d + 1) + i) - 1] = t[i]
    <3>1. ((d + 1) + i) - 1 = i + 3 /\ i + 3 \in 1 .. z
        BY <1>9, <2>1
    <3> QED BY <1>2, <1>3, <1>7, <2>1, <3>1
  <2>3. /\ d + 1 \in Int /\ e - 1 \in Int /\ 1 <= d + 1 /\ e - 1 <= Len(str)
        /\ ((e - 1) - (d + 1)) + 1 = Len(t)
      BY <1>3, <1>5, <1>6, <1>9, <2>1
  <2> QED BY <2>1, <2>2, <2>3, Piece
<1>13. str = CString(frame')
    BY <1>4, <1>5
<1> QED BY <1>2, <1>3, <1>10, <1>11, <1>12, <1>13 DEF Shows

\* the buffer g, its string ending at l, shows a message for display whose first
\* separator is the last character a recv returned and whose last one is at s
Seam(g, l, s) ==
    /\ g \in [1 .. MAX_LEN -> Bytes] /\ l \in 0 .. MAX_LEN
    /\ Len(wire) < MAX_LEN /\ Len(wire) + 2 <= l
    /\ \A i \in 1 .. MAX_LEN : g[i] = IF i <= Len(wire) THEN wire[i] ELSE frame[i]
    /\ l < MAX_LEN => g[l + 1] = NUL
    /\ s \in Len(wire) + 3 .. l
    /\ \A i \in 1 .. l : g[i] = split_token <=> i \in {Len(wire), Len(wire) + 2, s}
    /\ g[Len(wire) + 1] = "U"

\* Behind what a recv has returned, an older buffer shows no message: the end of a
\* message, put before what was kept of its beginning, does not make a new one.
LEMMA NoSeam ==
    ASSUME wire \in Seq(Bytes), wire # <<>>, Len(out) \in Nat, Len(out) <= Len(Texts) + 1,
           NEW k \in 0 .. Len(out), NEW cut, Laid(k, cut), Kept(k, cut),
           frame \in [1 .. MAX_LEN -> Bytes], "U" \notin Letters,
           NEW g, NEW l, NEW s, Seam(g, l, s)
    PROVE  FALSE
<1> USE DEF Seam
<1>0. MAX_LEN \in Nat
    BY FrameAssumption
<1>1. PICK n \in Nat, c \in Nat : n = Len(out) /\ c = Len(wire) /\ k \in 0 .. n
    OBVIOUS
<1>2. k < n /\ c > 0 /\ k + 1 \in k + 1 .. n /\ k + 1 \in 1 .. Len(Texts) + 1 /\ k \in k .. n
    BY <1>1, LaidFacts
<1>3. \A i \in 1 .. c : wire[i] = split_token <=> i = c
  <2> TAKE i \in 1 .. c
  <2>1. i \in 1 .. l /\ i \in 1 .. MAX_LEN /\ i <= Len(wire) /\ i # c + 2 /\ i # s
      BY <1>0, <1>1
  <2>2. g[i] = wire[i]
      BY <2>1
  <2> QED BY <1>1, <2>1, <2>2
<1>4. PICK z \in Nat, x \in Int : /\ z = Size(k + 1) /\ z >= 4 /\ x = cut[k] /\ x <= 0
                                  /\ cut[k + 1] = x + z /\ x + z >= 1
  <2>1. /\ cut[k + 1] = cut[(k + 1) - 1] + Size(k + 1) /\ (k + 1) - 1 = k
        /\ cut[k] <= 0 /\ cut[k + 1] >= 1
      BY <1>1, <1>2 DEF Laid
  <2>2. Size(k + 1) \in Nat /\ Size(k + 1) >= 4 /\ cut[k] \in Int
      BY <1>1, <1>2, LaidFacts
  <2> QED BY <2>1, <2>2
<1>5. \A q \in 1 .. z : x + q >= 1 => wire[x + q] = Letter(k + 1, q)
  <2>1. \A q \in 1 .. z : cut[(k + 1) - 1] + q >= 1 => wire[cut[(k + 1) - 1] + q] = Letter(k + 1, q)
      BY <1>1, <1>2, <1>4 DEF Laid
  <2>2. (k + 1) - 1 = k
      OBVIOUS
  <2> QED BY <1>4, <2>1, <2>2
<1>6. /\ \A q \in 1 .. z : Letter(k + 1, q) = split_token <=> q \in {1, 3, z}
      /\ \A q \in 1 .. z : Letter(k + 1, q) = "U" => q = 2
  <2>1. \A q \in 1 .. Size(k + 1) :
           /\ Letter(k + 1, q) = split_token <=> q \in {1, 3, Size(k + 1)}
           /\ Letter(k + 1, q) = "U" => q = 2
    <3>1. PICK j \in 1 .. Len(Texts) + 1 : j = k + 1
        BY <1>2
    <3>2. \A q \in 1 .. Size(j) : /\ Letter(j, q) = split_token <=> q \in {1, 3, Size(j)}
                                  /\ Letter(j, q) = "U" => q = 2
        BY LetterFacts
    <3> QED BY <3>1, <3>2, Zenon
  <2> QED BY <1>4, <2>1, Zenon
<1>7. x + z <= c
  <2>1. k + 1 \in k .. n
      BY <1>2
  <2> QED BY <1>1, <1>4, <2>1, LaidFacts
<1>n. /\ z \in Nat /\ z >= 4 /\ x \in Int /\ x <= 0 /\ x + z >= 1 /\ x + z <= c
      /\ c \in Nat /\ c < MAX_LEN
    BY <1>1, <1>4, <1>7
\* the separators of the message other than the last were received before
<1>8. x + 3 <= 0
  <2> SUFFICES ASSUME x + 3 >= 1 PROVE FALSE
      BY <1>4, SMTT(30)
  <2>1. 3 \in 1 .. z /\ x + 3 \in 1 .. c /\ x + 3 # c
      BY <1>n
  <2>2. wire[x + 3] = split_token
    <3>1. wire[x + 3] = Letter(k + 1, 3)
        BY <1>5, <2>1
    <3>2. 3 \in {1, 3, z}
        OBVIOUS
    <3> QED BY <1>6, <2>1, <3>1, <3>2
  <2> QED BY <1>3, <2>1, <2>2
<1>9. frame # Cleared
  <2>1. c + 1 \in 1 .. MAX_LEN /\ ~(c + 1 <= c)
      BY <1>0, <1>1
  <2>2. g[c + 1] = frame[c + 1]
      BY <1>1, <2>1
  <2>3. Cleared[c + 1] = NUL
      BY <2>1 DEF Cleared
  <2> QED BY <1>1, <2>2, <2>3 DEF NUL
<1>10. PICK b \in Int : b = MAX_LEN + x
    BY <1>0
<1>11. /\ \A p \in 1 .. MAX_LEN : frame[p] # NUL
       /\ \A q \in 1 .. z : x + q <= 0 /\ b + q >= 1 => frame[b + q] = Letter(k + 1, q)
       /\ b >= 1 => frame[b] # "U"
  <2>1. cut[k] < 0
      BY <1>4, <1>8, SMTT(30)
  <2> QED BY <1>4, <1>9, <1>10, <2>1 DEF Kept
<1>12. \A i \in c + 1 .. MAX_LEN : g[i] = frame[i]
  <2> TAKE i \in c + 1 .. MAX_LEN
  <2>1. i \in 1 .. MAX_LEN /\ ~(i <= Len(wire))
      BY <1>1
  <2> QED BY <2>1
<1>13. l = MAX_LEN
  <2> SUFFICES ASSUME l < MAX_LEN PROVE FALSE
      BY <1>0
  <2>1. l + 1 \in c + 1 .. MAX_LEN /\ l + 1 \in 1 .. MAX_LEN
      BY <1>0, <1>1
  <2> QED BY <1>11, <1>12, <2>1
<1>14. \A i \in c + 1 .. MAX_LEN : frame[i] = split_token <=> i \in {c + 2, s}
  <2> TAKE i \in c + 1 .. MAX_LEN
  <2>1. i \in 1 .. l /\ i # c
      BY <1>0, <1>1, <1>13
  <2> QED BY <1>1, <1>12, <2>1
<1>15. /\ frame[c + 1] = "U" /\ c + 1 \in c + 1 .. MAX_LEN
       /\ c + 2 \in c + 1 .. MAX_LEN /\ s \in c + 3 .. MAX_LEN
    BY <1>0, <1>1, <1>12, <1>13
<1>16. CASE b + 2 = c + 1
  <2>1. PICK q \in Int : q = s - b
      BY <1>15
  <2>2. q \in 1 .. z /\ x + q <= 0 /\ b + q = s /\ b + q >= 1 /\ q # 1 /\ q # 3 /\ q # z
      BY <1>0, <1>n, <1>10, <1>15, <1>16, <2>1
  <2>3. frame[s] = Letter(k + 1, q)
      BY <1>11, <2>2
  <2> QED BY <1>6, <1>14, <1>15, <2>2, <2>3
<1>17. CASE b + 2 < c + 1
  <2>1. PICK q \in Int : q = (c + 1) - b
      BY <1>1, SMTT(30)
  <2>2. q \in 1 .. z /\ x + q <= 0 /\ b + q = c + 1 /\ b + q >= 1 /\ q # 2
      BY <1>0, <1>n, <1>10, <1>17, <2>1
  <2>3. frame[c + 1] = Letter(k + 1, q)
      BY <1>11, <2>2
  <2> QED BY <1>6, <1>15, <2>2, <2>3
<1>18. CASE b + 2 > c + 1
  <2>1. /\ 1 \in 1 .. z /\ 3 \in 1 .. z /\ x + 1 <= 0 /\ x + 3 <= 0 /\ b + 1 >= 1 /\ b + 3 >= 1
        /\ b + 1 \in c + 1 .. MAX_LEN /\ b + 3 \in c + 1 .. MAX_LEN
      BY <1>0, <1>n, <1>8, <1>10, <1>18
  <2>2. frame[b + 1] = split_token /\ frame[b + 3] = split_token
    <3>1. frame[b + 1] = Letter(k + 1, 1) /\ frame[b + 3] = Letter(k + 1, 3)
        BY <1>11, <2>1
    <3>2. 1 \in {1, 3, z} /\ 3 \in {1, 3, z}
        OBVIOUS
    <3> QED BY <1>6, <2>1, <3>1, <3>2
  <2>3. b + 1 \in {c + 2, s} /\ b + 3 \in {c + 2, s}
      BY <1>14, <2>1, <2>2
  <2>4. b + 1 = c + 2
      BY <1>1, <1>18, <2>3
  <2>5. b = c + 1 /\ b >= 1
      BY <1>1, <2>4
  <2> QED BY <1>11, <1>15, <2>5
<1> QED BY <1>1, <1>16, <1>17, <1>18

\* Whatever recv returns, and whatever lay in the buffer before: what is then read as
\* a message to display is one that has just been received as a whole.
LEMMA NextShown ==
    ASSUME wire \in Seq(Bytes), wire # <<>>, Len(out) \in Nat, Len(out) <= Len(Texts) + 1,
           NEW k \in 0 .. Len(out), NEW cut, Laid(k, cut), Kept(k, cut),
           frame \in [1 .. MAX_LEN -> Bytes], "U" \notin Letters,
           frame' = Received(frame, Chunk(wire)), NEW t \in Seq(Bytes), Shows(t)'
    PROVE  \E i \in k + 1 .. Len(out) :
              i >= 2 /\ cut[i] <= Len(Chunk(wire)) /\ t = Texts[i - 1]
<1>0. MAX_LEN \in Nat
    BY FrameAssumption
<1>1. PICK n \in Nat, w \in Nat : n = Len(out) /\ w = Len(wire) /\ k \in 0 .. n /\ w > 0
    BY LaidFacts
<1>2. PICK h \in Seq(Bytes), c \in Nat :
         /\ h = Chunk(wire) /\ c = Len(h) /\ c <= w /\ c <= MAX_LEN /\ c > 0
         /\ \A i \in 1 .. c : h[i] = wire[i]
         /\ c = w \/ c = MAX_LEN
  <2>1. /\ Chunk(wire) \in Seq(Bytes) /\ Len(Chunk(wire)) \in Nat /\ Len(Chunk(wire)) <= Len(wire)
        /\ Len(Chunk(wire)) <= MAX_LEN /\ Len(Chunk(wire)) > 0
        /\ \A i \in 1 .. Len(Chunk(wire)) : Chunk(wire)[i] = wire[i]
        /\ Len(Chunk(wire)) = Len(wire) \/ Len(Chunk(wire)) = MAX_LEN
      BY ChunkFits, FrameAssumption
  <2> QED BY <1>1, <2>1, Zenon
<1>3. PICK g \in [1 .. MAX_LEN -> Bytes] :
         g = frame' /\ \A i \in 1 .. MAX_LEN : g[i] = IF i <= c THEN wire[i] ELSE frame[i]
  <2>1. /\ frame' \in [1 .. MAX_LEN -> Bytes]
        /\ \A i \in 1 .. MAX_LEN : frame'[i] = IF i <= Len(h) THEN h[i] ELSE frame[i]
      BY <1>2, ReceivedFits
  <2>2. ASSUME NEW i \in 1 .. MAX_LEN PROVE frame'[i] = IF i <= c THEN wire[i] ELSE frame[i]
    <3>1. i <= c => i \in 1 .. c
        OBVIOUS
    <3> QED BY <1>2, <2>1, <3>1
  <2> QED BY <2>1, <2>2, Zenon
<1>4. PICK l \in 0 .. MAX_LEN, str \in Seq(Bytes) :
         /\ str = CString(g) /\ Len(str) = l
         /\ \A p \in 1 .. l : str[p] = g[p] /\ g[p] # NUL
         /\ l < MAX_LEN => g[l + 1] = NUL
    BY StringEnds
<1>5. /\ ValidFormat(str) /\ construct_from_string(str)[2] = <<"U">>
      /\ construct_from_string(str)[3] = t
    BY <1>3, <1>4 DEF Shows
<1>6. PICK s1 \in 1 .. l, s2 \in 1 .. l, s3 \in 1 .. l :
         s1 < s2 /\ s2 < s3 /\ Separators(str) = {s1, s2, s3}
  <2>1. ASSUME NEW v \in Seq(Bytes), ValidFormat(v)
        PROVE  \E a, b, d \in 1 .. Len(v) : a < b /\ b < d /\ Separators(v) = {a, b, d}
      BY <2>1, FieldsFound
  <2>2. \E a, b, d \in 1 .. l : a < b /\ b < d /\ Separators(str) = {a, b, d}
      BY <1>4, <1>5, <2>1
  <2> QED BY <2>2, Zenon
<1>7. SubSeq(str, s1 + 1, s2 - 1) = <<"U">> /\ SubSeq(str, s2 + 1, s3 - 1) = t
  <2>1. s1 \in Int /\ s2 \in Int /\ s3 \in Int
      OBVIOUS
  <2>2. \A v : Separators(v) = {s1, s2, s3} =>
           /\ construct_from_string(v)[2] = SubSeq(v, s1 + 1, s2 - 1)
           /\ construct_from_string(v)[3] = SubSeq(v, s2 + 1, s3 - 1)
      BY <1>6, <2>1, FieldsAt, ZenonT(30)
  <2> QED BY <1>5, <1>6, <2>2
<1>8. \A p \in 1 .. l : g[p] = split_token <=> p \in {s1, s2, s3}
  <2>1. Separators(str) = {p \in 1 .. l : str[p] = split_token}
      BY <1>4 DEF Separators
  <2> QED BY <1>4, <1>6, <2>1
<1>9. s2 = s1 + 2 /\ g[s1 + 1] = "U"
  <2>1. "U" \in Bytes
      BY DEF Bytes
  <2>2. s1 + 1 \in Int /\ s2 - 1 \in Int /\ 1 <= s1 + 1 /\ s2 - 1 <= Len(str)
      BY <1>4, <1>6
  <2>3. s1 + 1 = s2 - 1 /\ str[s1 + 1] = "U"
    <3>1. PICK a \in Int, b \in Int : a = s1 + 1 /\ b = s2 - 1
        BY <2>2
    <3>2. 1 <= a /\ b <= Len(str) /\ SubSeq(str, a, b) = <<"U">>
        BY <1>7, <2>2, <3>1, Zenon
    <3>3. a = b /\ str[a] = "U"
        BY <2>1, <3>2, PieceOfOne
    <3> QED BY <3>1, <3>3
  <2>4. s1 + 1 \in 1 .. l
      BY <1>6
  <2> QED BY <1>4, <2>3, <2>4
\* what a recv returned is part of the string
<1>10. c <= l
  <2> SUFFICES ASSUME l < c PROVE FALSE
      BY <1>0, <1>2
  <2>1. l < MAX_LEN /\ l + 1 \in 1 .. MAX_LEN /\ l + 1 <= c /\ l + 1 \in 1 .. w
      BY <1>0, <1>1, <1>2
  <2>2. wire[l + 1] # NUL
      BY <1>1, <2>1, LaidFacts
  <2> QED BY <1>3, <1>4, <2>1, <2>2
\* and it holds the separators before and behind the action
<1>11. s2 <= c
  <2> SUFFICES ASSUME c < s2 PROVE FALSE
      BY <1>0, <1>2
  <2>1. c < MAX_LEN /\ c = w
      BY <1>0, <1>2
  <2>2. wire[c] = split_token
      BY <1>1, <2>1, LaidFacts
  <2>3. c \in 1 .. l /\ c \in 1 .. MAX_LEN
      BY <1>0, <1>2, <1>10
  <2>4. g[c] = split_token
      BY <1>3, <2>2, <2>3
  <2>5. c \in {s1, s2, s3}
      BY <1>8, <2>3, <2>4
  <2>6. c = s1
      BY <1>2, <1>6, <2>5
  <2>7. /\ Len(wire) = c /\ Len(wire) < MAX_LEN /\ Len(wire) + 2 <= l /\ s3 \in Len(wire) + 3 .. l
        /\ \A i \in 1 .. l : g[i] = split_token <=> i \in {Len(wire), Len(wire) + 2, s3}
        /\ g[Len(wire) + 1] = "U"
    <3>1. Len(wire) = c /\ s1 = c /\ s2 = c + 2 /\ s3 \in c + 3 .. l /\ c + 2 <= l
        BY <1>1, <1>2, <1>6, <1>9, <2>1, <2>6
    <3>2. \A i \in 1 .. l : g[i] = split_token <=> i \in {c, c + 2, s3}
        BY <1>8, <3>1
    <3> QED BY <1>9, <2>1, <3>1, <3>2
  <2>8. \A i \in 1 .. MAX_LEN : g[i] = IF i <= Len(wire) THEN wire[i] ELSE frame[i]
      BY <1>3, <2>7
  <2>9. l < MAX_LEN => g[l + 1] = NUL
      BY <1>4
  <2>10. Seam(g, l, s3)
      BY <2>7, <2>8, <2>9 DEF Seam
  <2> QED BY <2>10, NoSeam, Zenon
<1>12. PICK i \in k + 1 .. n : \E q \in 1 .. Size(i) :
          s1 + 1 = cut[i - 1] + q /\ wire[s1 + 1] = Letter(i, q)
  <2>1. s1 + 1 \in 1 .. w
      BY <1>1, <1>2, <1>6, <1>11
  <2>2. \A p \in 1 .. Len(wire) : \E i \in k + 1 .. Len(out) : \E q \in 1 .. Size(i) :
           p = cut[i - 1] + q /\ wire[p] = Letter(i, q)
      BY LaidFacts
  <2> QED BY <1>1, <2>1, <2>2, Zenon
<1>q. PICK q \in 1 .. Size(i) : s1 + 1 = cut[i - 1] + q /\ wire[s1 + 1] = Letter(i, q)
    BY <1>12
<1>13. i \in 1 .. Len(Texts) + 1
    BY <1>1, LaidFacts
<1>14. q = 2 /\ i >= 2
  <2>1. s1 + 1 \in 1 .. MAX_LEN /\ s1 + 1 <= c
      BY <1>0, <1>2, <1>6, <1>11
  <2>2. wire[s1 + 1] = "U"
      BY <1>3, <1>9, <2>1
  <2> QED BY <1>q, <1>13, <2>2, LetterFacts
<1>15. PICK x \in Int, z \in Nat, m \in Nat :
          /\ x = cut[i - 1] /\ z = Size(i) /\ m = Len(Texts[i - 1])
          /\ z = m + 4 /\ cut[i] = x + z /\ cut[i] <= w
          /\ s1 = x + 1
  <2>1. i - 1 \in k .. n /\ i \in k .. n
      BY <1>1
  <2>2. cut[i - 1] \in Int /\ cut[i] <= w /\ Size(i) \in Nat
      BY <1>1, <2>1, LaidFacts
  <2>3. cut[i] = cut[i - 1] + Size(i)
      BY <1>1 DEF Laid
  <2>4. TextOf(i) = Texts[i - 1] /\ Len(TextOf(i)) \in Nat
      BY <1>13, <1>14, LetterFacts
  <2>5. Size(i) = Len(Texts[i - 1]) + 4 /\ Len(Texts[i - 1]) \in Nat
      BY <2>4 DEF Size
  <2>6. s1 = cut[i - 1] + 1
    <3>1. PICK y \in Int : y = cut[i - 1]
        BY <2>2
    <3>2. s1 + 1 = y + 2 /\ s1 \in Int
        BY <1>6, <1>q, <1>14, <3>1
    <3>3. s1 = y + 1
        BY <3>2
    <3> QED BY <3>1, <3>3, Zenon
  <2> QED BY <2>2, <2>3, <2>5, <2>6
<1>n. /\ x \in Int /\ z \in Nat /\ m \in Nat /\ z = m + 4 /\ x + z <= w /\ s1 = x + 1 /\ s2 = x + 3
      /\ s1 >= 1 /\ s1 <= l /\ s2 < s3 /\ s3 <= l /\ s3 \in Int
  <2>1. s1 >= 1 /\ s1 <= l /\ s2 < s3 /\ s3 <= l /\ s3 \in Int
      BY <1>6
  <2>2. s2 = s1 + 2
      BY <1>9
  <2>3. x \in Int /\ z \in Nat /\ m \in Nat /\ z = m + 4 /\ x + z <= w /\ s1 = x + 1
      BY <1>15
  <2>4. s2 = x + 3
      BY <2>2, <2>3
  <2> QED BY <2>1, <2>3, <2>4
<1>c. /\ c \in Nat /\ c <= w /\ c <= MAX_LEN /\ (c = w \/ c = MAX_LEN)
      /\ w \in Nat /\ l \in 0 .. MAX_LEN
    BY <1>1, <1>2
<1>16. \A p \in 1 .. z : wire[x + p] = Letter(i, p)
  <2> TAKE p \in 1 .. z
  <2>1. x + p >= 1
      BY <1>n
  <2> QED BY <1>1, <1>15, <2>1 DEF Laid
<1>17. \A p \in 1 .. z : Letter(i, p) = split_token <=> p \in {1, 3, z}
    BY <1>13, <1>15, LetterFacts
<1>18. x \in Nat
    BY <1>n
\* the text is complete
<1>19. x + z <= c
  <2> SUFFICES ASSUME c < x + z PROVE FALSE
      BY <1>n, <1>c
  <2>1. c = MAX_LEN
      BY <1>n, <1>c
  <2>2. s3 <= c /\ s3 \in 1 .. MAX_LEN /\ s3 >= x + 4
      BY <1>0, <1>n, <1>c, <2>1
  <2>3. s3 - x \in 1 .. z /\ x + (s3 - x) = s3 /\ s3 - x \notin {1, 3, z}
      BY <1>n, <1>18, <1>c, <2>2
  <2>4. wire[s3] # split_token
      BY <1>16, <1>17, <2>3
  <2>5. g[s3] = split_token
      BY <1>8
  <2> QED BY <1>3, <2>2, <2>4, <2>5
<1>20. s3 = x + z
  <2>1. x + z \in 1 .. l /\ x + z \in 1 .. MAX_LEN /\ z \in 1 .. z
      BY <1>0, <1>n, <1>c, <1>10, <1>18, <1>19
  <2>2. wire[x + z] = split_token
      BY <1>16, <1>17, <2>1
  <2>3. g[x + z] = split_token
      BY <1>3, <1>19, <2>1, <2>2
  <2>4. x + z \in {s1, s2, s3}
      BY <1>8, <2>1, <2>3
  <2> QED BY <1>n, <1>18, <2>4
<1>21. t = Texts[i - 1]
  <2>1. PICK u \in Seq(Bytes) : u = Texts[i - 1] /\ Len(u) = m
    <3>1. i - 1 \in 1 .. Len(Texts)
        BY <1>13, <1>14, LetterFacts
    <3>2. Texts[i - 1] \in Seq(Bytes)
        BY <3>1, TextChars
    <3> QED BY <1>15, <3>2, Zenon
  <2>2. ASSUME NEW j \in 1 .. m PROVE str[((s2 + 1) + j) - 1] = u[j]
    <3>1. /\ ((s2 + 1) + j) - 1 = x + (j + 3) /\ j + 3 \in 1 .. z
          /\ x + (j + 3) \in 1 .. l /\ x + (j + 3) \in 1 .. MAX_LEN /\ x + (j + 3) <= c
        BY <1>0, <1>n, <1>c, <1>10, <1>18, <1>19
    <3>2. str[x + (j + 3)] = wire[x + (j + 3)]
        BY <1>3, <1>4, <3>1
    <3>3. wire[x + (j + 3)] = Letter(i, j + 3)
        BY <1>16, <3>1
    <3>4. Letter(i, j + 3) = u[j]
      <4>1. TextOf(i) = u
          BY <1>13, <1>14, <2>1, LetterFacts
      <4> QED BY <1>13, <2>1, <4>1, LetterFacts
    <3> QED BY <3>1, <3>2, <3>3, <3>4
  <2>3. /\ s2 + 1 \in Int /\ s3 - 1 \in Int /\ 1 <= s2 + 1 /\ s3 - 1 <= Len(str)
        /\ ((s3 - 1) - (s2 + 1)) + 1 = Len(u)
      BY <1>4, <1>n, <1>20, <2>1
  <2>4. SubSeq(str, s2 + 1, s3 - 1) = u
    <3>1. PICK a \in Int, b \in Int : a = s2 + 1 /\ b = s3 - 1
        BY <2>3
    <3>2. /\ 1 <= a /\ b <= Len(str) /\ (b - a) + 1 = Len(u)
          /\ \A j \in 1 .. Len(u) : str[(a + j) - 1] = u[j]
        BY <2>1, <2>2, <2>3, <3>1
    <3>3. SubSeq(str, a, b) = u
        BY <3>2, Piece, ZenonT(30)
    <3> QED BY <3>1, <3>3
  <2> QED BY <1>7, <2>1, <2>4
<1> QED BY <1>1, <1>2, <1>14, <1>15, <1>19, <1>21

------------------------------------------------------------------------------
(* The steps *)

\* What is displayed stays real when nothing is displayed and nothing received.
LEMMA RealKept ==
    ASSUME NEW k, Real(k), shown' = shown, receiver' = "got" => receiver = "got" /\ frame' = frame
    PROVE  Real(k)'
<1>1. PICK sent \in [DOMAIN shown -> 1 .. k - 1] :
         /\ \A i, j \in DOMAIN shown : shown[i] = Texts[sent[i]] /\ (i < j => sent[i] < sent[j])
         /\ receiver = "got" => \A t \in Seq(Bytes) : Shows(t) =>
               \E d \in 1 .. k - 1 : t = Texts[d] /\ \A i \in DOMAIN shown : sent[i] < d
    BY Zenon DEF Real
<1>2. receiver' = "got" => \A t : Shows(t)' => Shows(t)
    BY DEF Shows
<1>3. receiver' = "got" => \A t \in Seq(Bytes) : Shows(t)' =>
         \E d \in 1 .. k - 1 : t = Texts[d] /\ \A i \in DOMAIN shown : sent[i] < d
    BY <1>1, <1>2, Zenon
<1>4. /\ sent \in [DOMAIN shown' -> 1 .. k - 1]
      /\ \A i, j \in DOMAIN shown' : shown'[i] = Texts[sent[i]] /\ (i < j => sent[i] < sent[j])
      /\ receiver' = "got" => \A t \in Seq(Bytes) : Shows(t)' =>
            \E d \in 1 .. k - 1 : t = Texts[d] /\ \A i \in DOMAIN shown' : sent[i] < d
    BY <1>1, <1>3
<1> QED BY <1>4, Zenon DEF Real

\* Steps that leave the stream, the buffer and the display alone keep StreamInv.
LEMMA StreamSame ==
    ASSUME StreamInv, UNCHANGED <<out, wire, frame, shown, mixed, init_done>>,
           init_req => init_req', HasSent("INIT_DONE") => HasSent("INIT_DONE")',
           link = "down" => link' = "down",
           link' = "none" => link = "none" /\ receiver' = receiver,
           \/ receiver' = receiver
           \/ /\ receiver \in {"none", "head", "wait", "signal"}
              /\ receiver' \in {"head", "wait", "signal", "exited"}
           \/ receiver = "id" /\ receiver' = "done"
    PROVE  StreamInv'
<1>1. PICK k \in 0 .. Len(out) : \E cut : Stream(k, cut)
    BY DEF StreamInv
<1>2. PICK cut : Stream(k, cut)
    BY <1>1
<1>3. Laid(k, cut)' /\ Kept(k, cut)'
    BY <1>2 DEF Stream, Laid, Kept
<1>4. ~mixed' => cut[k] = 0 /\ Taken(k)'
  <2> SUFFICES ASSUME ~mixed PROVE cut[k] = 0 /\ Taken(k)'
      OBVIOUS
  <2>1. cut[k] = 0 /\ Taken(k)
      BY <1>2 DEF Stream
  <2>2. \A t : Shows(t)' <=> Shows(t)
      BY DEF Shows
  <2> QED BY <2>1, <2>2 DEF Taken
<1>5. "U" \notin Letters => Real(k)'
    BY <1>2, RealKept DEF Stream
<1>6. Stream(k, cut)'
    BY <1>3, <1>4, <1>5 DEF Stream
<1> QED BY <1>6 DEF StreamInv

\* The program starts with nothing under way.
LEMMA InitStream == Init => StreamInv
<1> SUFFICES ASSUME Init PROVE StreamInv
    OBVIOUS
<1> USE DEF Init
<1>1. Len(out) = 0 /\ Len(wire) = 0 /\ DOMAIN shown = {} /\ Len(Texts) \in Nat
    BY ClientConstants
<1>2. PICK cut : cut = [i \in {0} |-> 0]
    OBVIOUS
<1>3. 0 .. Len(out) = {0} /\ cut \in [0 .. Len(out) -> Int] /\ cut[0] = 0
    BY <1>1, <1>2
<1>4. Laid(0, cut)
    BY <1>1, <1>3 DEF Laid
<1>5. Kept(0, cut)
    BY <1>3 DEF Kept
<1>6. Taken(0)
    BY DEF Taken
<1>7. Real(0)
  <2>1. PICK sent : sent = [i \in {} |-> 0]
      OBVIOUS
  <2>2. sent \in [DOMAIN shown -> 1 .. 0 - 1]
      BY <1>1, <2>1
  <2> QED BY <1>1, <2>2 DEF Real
<1>8. Stream(0, cut)
    BY <1>3, <1>4, <1>5, <1>6, <1>7 DEF Stream
<1> QED BY <1>1, <1>8 DEF StreamInv

\* Another message of the server's lies behind the others.
LEMMA ServerStream ==
    ASSUME ClientInv, TypeInv, StreamInv, link = "open", SvReply \/ SvTell,
           UNCHANGED <<flagVars, recvVars>>
    PROVE  StreamInv'
<1>1. /\ UNCHANGED <<link, log, read, frame, shown, mixed, receiver, init_req, init_done>>
      /\ Len(out') = Len(out) + 1 /\ Len(out') \in 1 .. Len(Texts) + 1
      /\ Len(out) >= 1 => HasSent("INIT_DONE")
    BY ServerLetters DEF flagVars, recvVars
<1>2. PICK m \in Seq(Bytes) : /\ wire' = wire \o m /\ Len(m) = Size(Len(out'))
                              /\ \A q \in 1 .. Len(m) : m[q] = Letter(Len(out'), q)
    BY ServerLetters
<1>3. wire \in Seq(Bytes) /\ Len(out) \in Nat
    BY DEF TypeInv, ClientInv, ConnInv
<1>4. PICK k \in 0 .. Len(out) : \E cut : Stream(k, cut)
    BY DEF StreamInv
<1>5. PICK cut : Stream(k, cut)
    BY <1>4
<1>6. PICK new : Laid(k, new)' /\ new[k] = cut[k]
  <2>1. Laid(k, cut)
      BY <1>5 DEF Stream
  <2> QED BY <1>1, <1>2, <1>3, <2>1, LaidMore
<1>7. Kept(k, new)'
    BY <1>1, <1>5, <1>6 DEF Stream, Kept
<1>8. ~mixed' => new[k] = 0 /\ Taken(k)'
  <2> SUFFICES ASSUME ~mixed PROVE new[k] = 0 /\ Taken(k)'
      BY <1>1
  <2>1. new[k] = 0 /\ Taken(k)
      BY <1>5, <1>6 DEF Stream
  <2>2. \A t : Shows(t)' <=> Shows(t)
      BY <1>1 DEF Shows
  <2> QED BY <1>1, <2>1, <2>2 DEF Taken
<1>9. "U" \notin Letters => Real(k)'
    BY <1>1, <1>5, RealKept DEF Stream
<1>10. Stream(k, new)'
    BY <1>6, <1>7, <1>8, <1>9 DEF Stream
<1>11. k \in 0 .. Len(out')
    BY <1>1, <1>3
<1>12. HasSent("INIT_DONE")' <=> HasSent("INIT_DONE")
    BY <1>1 DEF HasSent
<1> QED BY <1>1, <1>3, <1>10, <1>11, <1>12 DEF StreamInv

\* What was cut off at the end of a full buffer is what the next recv lacks.
LEMMA KeptNext ==
    ASSUME wire \in Seq(Bytes), wire # <<>>, Len(out) \in Nat, Len(out) <= Len(Texts) + 1,
           NEW k \in 0 .. Len(out), NEW cut, Laid(k, cut), frame \in [1 .. MAX_LEN -> Bytes],
           frame' = Received(frame, Chunk(wire)), out' = out,
           wire' = SubSeq(wire, Len(Chunk(wire)) + 1, Len(wire)),
           NEW l \in k .. Len(out), NEW new, Laid(l, new)', new[l] = cut[l] - Len(Chunk(wire))
    PROVE  Kept(l, new)'
<1> SUFFICES ASSUME new[l] < 0, frame' # Cleared
             PROVE  /\ \A p \in 1 .. MAX_LEN : frame'[p] # NUL
                    /\ \A q \in 1 .. Size(l + 1) :
                          new[l] + q <= 0 /\ MAX_LEN + new[l] + q >= 1 =>
                              frame'[MAX_LEN + new[l] + q] = Letter(l + 1, q)
                    /\ MAX_LEN + new[l] >= 1 => frame'[MAX_LEN + new[l]] # "U"
    BY DEF Kept
<1>0. MAX_LEN \in Nat
    BY FrameAssumption
<1>1. PICK n \in Nat, w \in Nat : n = Len(out) /\ w = Len(wire) /\ k \in 0 .. n /\ l \in k .. n
    OBVIOUS
<1>2. PICK c \in Nat : /\ c = Len(Chunk(wire)) /\ c <= w /\ c <= MAX_LEN /\ c > 0
                       /\ \A i \in 1 .. c : Chunk(wire)[i] = wire[i]
                       /\ c = w \/ c = MAX_LEN
  <2>1. /\ Len(Chunk(wire)) \in Nat /\ Len(Chunk(wire)) <= Len(wire)
        /\ Len(Chunk(wire)) <= MAX_LEN /\ Len(Chunk(wire)) > 0
        /\ \A i \in 1 .. Len(Chunk(wire)) : Chunk(wire)[i] = wire[i]
        /\ Len(Chunk(wire)) = Len(wire) \/ Len(Chunk(wire)) = MAX_LEN
      BY <1>0, ChunkFits
  <2> QED BY <1>1, <2>1, Zenon
<1>3. \A i \in 1 .. c : frame'[i] = wire[i]
  <2>1. Chunk(wire) \in Seq(Bytes)
      BY ChunkFits
  <2>2. \A i \in 1 .. MAX_LEN :
           frame'[i] = IF i <= Len(Chunk(wire)) THEN Chunk(wire)[i] ELSE frame[i]
      BY <1>2, <2>1, ReceivedFits
  <2> TAKE i \in 1 .. c
  <2>3. i \in 1 .. MAX_LEN /\ i <= Len(Chunk(wire))
      BY <1>0, <1>2
  <2> QED BY <1>2, <2>2, <2>3
<1>4. PICK x \in Int : x = cut[l] /\ new[l] = x - c /\ x < c
  <2>1. cut[l] \in Int
      BY <1>1, LaidFacts
  <2>2. PICK y \in Int : y = cut[l]
      BY <2>1
  <2>3. new[l] = y - c
      BY <1>2, <2>2
  <2>4. y < c
      BY <2>3
  <2> QED BY <2>2, <2>3, <2>4, Zenon
\* the message goes on behind the buffer, which is full
<1>5. l < n /\ c = MAX_LEN
  <2>1. PICK v \in Nat : v = Len(wire') /\ v = w - c
    <3>1. Len(SubSeq(wire, c + 1, w)) = w - c
        BY <1>1, <1>2
    <3>2. Len(wire') = w - c /\ w - c \in Nat
        BY <1>1, <1>2, <3>1
    <3> QED BY <3>2, Zenon
  <2>2. /\ new[n] = v /\ (l < n => new[l + 1] >= 1)
        /\ \A i \in l .. n : new[i] \in Int /\ new[i] <= new[n]
    <3>1. /\ new \in [l .. Len(out') -> Int] /\ (l < Len(out') => new[l + 1] >= 1)
          /\ new[Len(out')] = Len(wire') /\ \A i, j \in l .. Len(out') : i <= j => new[i] <= new[j]
        BY DEF Laid
    <3>2. Len(out') = n /\ n \in l .. n
        BY <1>1
    <3> QED BY <2>1, <3>1, <3>2
  <2>3. l < n
    <3>1. l = n => new[l] = v
        BY <2>2
    <3> QED BY <1>1, <1>4, <2>1, <3>1
  <2>4. l + 1 \in l .. n
      BY <1>1, <2>3
  <2>5. new[l + 1] >= 1 /\ new[l + 1] \in Int /\ new[l + 1] <= v
      BY <2>2, <2>3, <2>4
  <2>6. v >= 1
      BY <2>1, <2>5
  <2> QED BY <1>2, <2>1, <2>3, <2>6
<1>6. \A p \in 1 .. MAX_LEN : frame'[p] # NUL
  <2> TAKE p \in 1 .. MAX_LEN
  <2>1. p \in 1 .. w /\ p \in 1 .. c
      BY <1>2, <1>5
  <2>2. wire[p] # NUL
      BY <1>1, <2>1, LaidFacts
  <2> QED BY <1>3, <2>1, <2>2
<1>7. ASSUME NEW q \in 1 .. Size(l + 1), new[l] + q <= 0, MAX_LEN + new[l] + q >= 1
      PROVE  frame'[MAX_LEN + new[l] + q] = Letter(l + 1, q)
  <2>1. l + 1 \in k + 1 .. n /\ (l + 1) - 1 = l
      BY <1>1, <1>5
  <2>2. q \in Nat
    <3>1. Size(l + 1) \in Nat
        BY <1>1, <2>1, LaidFacts
    <3> QED BY <3>1
  <2>3. MAX_LEN + new[l] + q = x + q /\ x + q \in 1 .. c /\ x + q >= 1
      BY <1>0, <1>2, <1>4, <1>5, <1>7, <2>2, SMTT(30)
  <2>4. \A j \in 1 .. Size(l + 1) :
           cut[(l + 1) - 1] + j >= 1 => wire[cut[(l + 1) - 1] + j] = Letter(l + 1, j)
      BY <1>1, <2>1 DEF Laid
  <2>5. wire[x + q] = Letter(l + 1, q)
      BY <1>4, <2>1, <2>3, <2>4
  <2> QED BY <1>3, <2>3, <2>5
<1>8. ASSUME MAX_LEN + new[l] >= 1
      PROVE  frame'[MAX_LEN + new[l]] # "U"
  <2>1. MAX_LEN + new[l] = x /\ x \in 1 .. c
      BY <1>0, <1>2, <1>4, <1>5, <1>8
  <2>2. cut[k] <= 0
      BY DEF Laid
  <2>3. l # k
      BY <1>4, <2>1, <2>2
  <2>4. l \in k + 1 .. n /\ l \in 1 .. Len(Texts) + 1
    <3>1. l \in k + 1 .. n
        BY <1>1, <2>3
    <3> QED BY <1>1, <3>1, LaidFacts
  <2>5. /\ Size(l) \in Nat /\ Size(l) >= 4 /\ Size(l) \in 1 .. Size(l)
        /\ Letter(l, Size(l)) = split_token
      BY <2>4, LetterFacts
  <2>6. /\ cut[l] = cut[l - 1] + Size(l)
        /\ \A q \in 1 .. Size(l) : cut[l - 1] + q >= 1 => wire[cut[l - 1] + q] = Letter(l, q)
      BY <1>1, <2>4 DEF Laid
  <2>7. wire[x] = split_token
      BY <1>4, <2>1, <2>5, <2>6, SMTT(30)
  <2> QED BY <1>3, <2>1, <2>7 DEF split_token
<1> QED BY <1>6, <1>7, <1>8

\* recv takes what it can of the stream.
LEMMA ReceiveStream ==
    ASSUME ClientInv, TypeInv, StreamInv, main = "running", ReceiveBytes
    PROVE  StreamInv'
<1>1. /\ UNCHANGED <<link, log, out, init_req, init_done, shown>>
      /\ receiver = "wait" /\ receiver' = "got" /\ wire # <<>>
      /\ frame' = Received(frame, Chunk(wire))
      /\ wire' = SubSeq(wire, Len(Chunk(wire)) + 1, Len(wire))
      /\ ~mixed' => ~mixed /\ ValidFormat(Chunk(wire))
    BY DEF ReceiveBytes, flagVars
<1>2. /\ wire \in Seq(Bytes) /\ Len(out) \in Nat /\ frame \in [1 .. MAX_LEN -> Bytes]
      /\ Len(out) <= Len(Texts) + 1 /\ link # "none"
    BY DEF TypeInv, ClientInv, ConnInv, StreamInv
<1>3. PICK k \in 0 .. Len(out) : \E cut : Stream(k, cut)
    BY DEF StreamInv
<1>4. PICK cut : Stream(k, cut)
    BY <1>3
<1>5. Laid(k, cut) /\ Kept(k, cut)
    BY <1>4 DEF Stream
<1>6. PICK c \in 1 .. Len(wire) : c = Len(Chunk(wire))
    BY <1>1, <1>2, ChunkFits, FrameAssumption
<1>7. PICK l \in k .. Len(out) : \E new :
         /\ Laid(l, new)' /\ new[l] = cut[l] - c
         /\ \A i \in k + 1 .. Len(out) : cut[i] <= c => i <= l
         /\ \A i \in k .. Len(out) : cut[i] = c => i = l
  <2>1. wire' = SubSeq(wire, c + 1, Len(wire)) /\ Len(out') = Len(out)
      BY <1>1, <1>6
  <2> QED BY <1>2, <1>5, <2>1, LaidLess
<1>8. PICK new :
         /\ Laid(l, new)' /\ new[l] = cut[l] - c
         /\ \A i \in k + 1 .. Len(out) : cut[i] <= c => i <= l
         /\ \A i \in k .. Len(out) : cut[i] = c => i = l
    BY <1>7
<1>9. Kept(l, new)'
    BY <1>1, <1>2, <1>5, <1>6, <1>8, KeptNext
<1>10. ASSUME ~mixed' PROVE new[l] = 0 /\ Taken(l)'
  <2>1. cut[k] = 0 /\ Taken(k)
      BY <1>1, <1>4, <1>10 DEF Stream
  <2>2. /\ k + 1 \in 1 .. Len(out) /\ c = Size(k + 1) /\ cut[k + 1] = Size(k + 1)
        /\ \A q \in 1 .. Size(k + 1) : Chunk(wire)[q] = Letter(k + 1, q)
      BY <1>1, <1>2, <1>5, <1>6, <1>10, <2>1, AloneChunk
  <2>3. l = k + 1
    <3>1. k + 1 \in k .. Len(out)
        BY <1>2, <2>2
    <3> QED BY <1>8, <2>2, <3>1
  <2>4. new[l] = 0
    <3>1. PICK z \in Nat : z = c
        OBVIOUS
    <3>2. new[l] = z - z
        BY <1>8, <2>2, <2>3, <3>1
    <3> QED BY <3>2
  <2>5. ASSUME init_done
        PROVE  l >= 2 /\ shown = SubSeq(Texts, 1, l - 2) /\ Shows(Texts[l - 1])'
    <3>1. k >= 1 /\ shown = SubSeq(Texts, 1, k - 1) /\ frame = Cleared
        BY <1>1, <2>1, <2>5 DEF Taken
    <3>2. l \in 2 .. Len(Texts) + 1 /\ l - 2 = k - 1
        BY <1>2, <2>2, <2>3, <3>1
    <3>3. /\ Chunk(wire) \in Seq(Bytes) /\ Len(Chunk(wire)) = Size(l) /\ Len(Chunk(wire)) <= MAX_LEN
          /\ \A q \in 1 .. Size(l) : Chunk(wire)[q] = Letter(l, q)
          /\ frame' = Received(Cleared, Chunk(wire))
      <4>1. Chunk(wire) \in Seq(Bytes) /\ Len(Chunk(wire)) <= MAX_LEN
          BY <1>2, ChunkFits, FrameAssumption
      <4> QED BY <1>1, <1>6, <2>2, <2>3, <3>1, <4>1
    <3>4. Shows(Texts[l - 1])'
        BY <3>2, <3>3, AloneShows
    <3> QED BY <3>1, <3>2, <3>4
  <2>6. l >= 1
      BY <1>2, <2>2, <2>3
  <2> QED BY <1>1, <2>4, <2>5, <2>6 DEF Taken
<1>11. ASSUME "U" \notin Letters PROVE Real(l)'
  <2>1. Real(k)
      BY <1>4, <1>11 DEF Stream
  <2>2. PICK sent \in [DOMAIN shown -> 1 .. k - 1] :
           \A i, j \in DOMAIN shown : shown[i] = Texts[sent[i]] /\ (i < j => sent[i] < sent[j])
      BY <2>1, Zenon DEF Real
  <2>3. sent \in [DOMAIN shown -> 1 .. l - 1]
    <3>1. 1 .. k - 1 \subseteq 1 .. l - 1
        BY <1>2
    <3> QED BY <3>1
  <2>4. ASSUME NEW t \in Seq(Bytes), Shows(t)'
        PROVE  \E d \in 1 .. l - 1 : t = Texts[d] /\ \A i \in DOMAIN shown : sent[i] < d
    <3>1. PICK i \in k + 1 .. Len(out) : i >= 2 /\ cut[i] <= Len(Chunk(wire)) /\ t = Texts[i - 1]
        BY <1>1, <1>2, <1>5, <1>11, <2>4, NextShown
    <3>2. i <= l
        BY <1>6, <1>8, <3>1
    <3>3. i - 1 \in 1 .. l - 1
        BY <1>2, <3>1, <3>2
    <3>4. ASSUME NEW j \in DOMAIN shown PROVE sent[j] < i - 1
      <4>1. sent[j] \in 1 .. k - 1
          OBVIOUS
      <4> QED BY <1>2, <3>1, <4>1
    <3> QED BY <3>1, <3>3, <3>4
  <2>5. /\ sent \in [DOMAIN shown' -> 1 .. l - 1]
        /\ \A i, j \in DOMAIN shown' : shown'[i] = Texts[sent[i]] /\ (i < j => sent[i] < sent[j])
        /\ receiver' = "got" => \A t \in Seq(Bytes) : Shows(t)' =>
              \E d \in 1 .. l - 1 : t = Texts[d] /\ \A i \in DOMAIN shown' : sent[i] < d
    <3>1. DOMAIN shown' = DOMAIN shown /\ shown' = shown
        BY <1>1
    <3> QED BY <2>2, <2>3, <2>4, <3>1
  <2> QED BY <2>5, Zenon DEF Real
<1>12. Stream(l, new)'
    BY <1>8, <1>9, <1>10, <1>11 DEF Stream
<1>13. l \in 0 .. Len(out')
    BY <1>1, <1>2
<1>14. HasSent("INIT_DONE")' <=> HasSent("INIT_DONE")
    BY <1>1 DEF HasSent
<1> QED BY <1>1, <1>2, <1>12, <1>13, <1>14 DEF StreamInv

\* The text of a message is made of characters.
LEMMA FieldChars ==
    ASSUME NEW f \in [1 .. MAX_LEN -> Bytes], ValidFormat(CString(f))
    PROVE  construct_from_string(CString(f))[3] \in Seq(Bytes)
<1>1. PICK str \in Seq(Bytes) : str = CString(f)
    BY StringEnds
<1>2. PICK a \in 1 .. Len(str), b \in 1 .. Len(str), c \in 1 .. Len(str) :
         a < b /\ b < c /\ Separators(str) = {a, b, c}
    BY <1>1, FieldsFound
<1>3. a \in Int /\ b \in Int /\ c \in Int /\ Len(str) \in Nat
    OBVIOUS
<1>4. construct_from_string(str)[3] = SubSeq(str, b + 1, c - 1)
    BY <1>2, <1>3, FieldsAt
<1>5. SubSeq(str, b + 1, c - 1) \in Seq(Bytes)
    BY <1>2, <1>3
<1> QED BY <1>1, <1>4, <1>5

\* One text more.
LEMMA TextsAppended ==
    ASSUME NEW n \in 1 .. Len(Texts)
    PROVE  Append(SubSeq(Texts, 1, n - 1), Texts[n]) = SubSeq(Texts, 1, n)
<1>1. PICK S : Texts \in Seq(S)
    BY ClientConstants
<1>2. Len(Texts) \in Nat /\ n \in Nat /\ n >= 1 /\ n <= Len(Texts)
    BY <1>1
<1>3. SubSeq(Texts, 1, n - 1) = [i \in 1 .. n - 1 |-> Texts[i]]
    BY <1>1, <1>2
<1>4. SubSeq(Texts, 1, n) = [i \in 1 .. n |-> Texts[i]]
    BY <1>1, <1>2
<1>5. SubSeq(Texts, 1, n - 1) \in Seq(S) /\ Len(SubSeq(Texts, 1, n - 1)) = n - 1
    BY <1>1, <1>2, <1>3
<1>6. Append(SubSeq(Texts, 1, n - 1), Texts[n]) =
         [i \in 1 .. n |-> IF i = n THEN Texts[n] ELSE SubSeq(Texts, 1, n - 1)[i]]
    BY <1>2, <1>5
<1>7. ASSUME NEW i \in 1 .. n
      PROVE  (IF i = n THEN Texts[n] ELSE SubSeq(Texts, 1, n - 1)[i]) = Texts[i]
    BY <1>2, <1>3
<1> QED BY <1>4, <1>6, <1>7

\* What is displayed has arrived.
LEMMA DispatchReal ==
    ASSUME frame \in [1 .. MAX_LEN -> Bytes], shown \in Seq(Seq(Bytes)), NEW k \in Nat, Real(k),
           receiver = "got", receiver' # "got", NEW t \in Seq(Bytes), Shows(t),
           shown' = Append(shown, t)
    PROVE  Real(k)'
<1>1. PICK sent \in [DOMAIN shown -> 1 .. k - 1] :
         /\ \A i, j \in DOMAIN shown : shown[i] = Texts[sent[i]] /\ (i < j => sent[i] < sent[j])
         /\ \A u \in Seq(Bytes) : Shows(u) =>
               \E d \in 1 .. k - 1 : u = Texts[d] /\ \A i \in DOMAIN shown : sent[i] < d
    BY Zenon DEF Real
<1>2. PICK d \in 1 .. k - 1 : t = Texts[d] /\ \A i \in DOMAIN shown : sent[i] < d
    BY <1>1
<1>3. PICK n \in Nat : n = Len(shown) /\ DOMAIN shown = 1 .. n
    OBVIOUS
<1>4. /\ DOMAIN shown' = 1 .. n + 1 /\ shown'[n + 1] = t
      /\ \A i \in 1 .. n : shown'[i] = shown[i]
    BY <1>3
<1>5. PICK s : s = [i \in 1 .. n + 1 |-> IF i = n + 1 THEN d ELSE sent[i]]
    OBVIOUS
<1>6. s \in [1 .. n + 1 -> 1 .. k - 1]
  <2>1. ASSUME NEW i \in 1 .. n + 1 PROVE (IF i = n + 1 THEN d ELSE sent[i]) \in 1 .. k - 1
    <3>1. i # n + 1 => i \in DOMAIN shown
        BY <1>3
    <3> QED BY <3>1
  <2> QED BY <1>5, <2>1
<1>7. s[n + 1] = d /\ \A i \in 1 .. n : s[i] = sent[i]
    BY <1>5
<1>8. ASSUME NEW i \in 1 .. n + 1, NEW j \in 1 .. n + 1
      PROVE  shown'[i] = Texts[s[i]] /\ (i < j => s[i] < s[j])
  <2>1. shown'[i] = Texts[s[i]]
    <3>1. CASE i = n + 1
        BY <1>2, <1>4, <1>7, <3>1
    <3>2. CASE i # n + 1
      <4>1. i \in 1 .. n
          BY <3>2
      <4> QED BY <1>1, <1>3, <1>4, <1>7, <4>1
    <3> QED BY <3>1, <3>2
  <2>2. ASSUME i < j PROVE s[i] < s[j]
    <3>1. i \in 1 .. n
        BY <2>2
    <3>2. CASE j = n + 1
        BY <1>2, <1>3, <1>7, <3>1, <3>2
    <3>3. CASE j # n + 1
      <4>1. j \in 1 .. n
          BY <3>3
      <4> QED BY <1>1, <1>3, <1>7, <2>2, <3>1, <4>1
    <3> QED BY <3>2, <3>3
  <2> QED BY <2>1, <2>2
<1>9. /\ s \in [DOMAIN shown' -> 1 .. k - 1]
      /\ \A i, j \in DOMAIN shown' : shown'[i] = Texts[s[i]] /\ (i < j => s[i] < s[j])
    BY <1>4, <1>6, <1>8
<1> QED BY <1>9, Zenon DEF Real

\* The buffer is taken for a message, or left as it is.
LEMMA DispatchStream ==
    ASSUME ClientInv, TypeInv, StreamInv, main = "running", Dispatch
    PROVE  StreamInv'
<1> DEFINE str == CString(frame)
           msg == construct_from_string(str)
           take == init_req /\ ValidFormat(str)
           show == take /\ init_done /\ msg[2] = <<"U">>
<1>1. /\ UNCHANGED <<link, log, out, wire, mixed, init_req, init_done>>
      /\ receiver = "got"
      /\ receiver' = IF take /\ ~init_done /\ msg[2] = <<"R">> THEN "id" ELSE "head"
      /\ frame' = frame \/ frame' = Cleared
      /\ take /\ init_done => frame' = Cleared
      /\ shown' = IF show THEN Append(shown, msg[3]) ELSE shown
    BY DEF Dispatch, Displayed, FrameAfter, flagVars, netVars
<1>2. /\ Len(out) \in Nat /\ frame \in [1 .. MAX_LEN -> Bytes]
      /\ Len(out) <= Len(Texts) + 1 /\ link # "none" /\ shown \in Seq(Seq(Bytes))
    BY DEF TypeInv, ClientInv, ConnInv, StreamInv
<1>3. show => msg[3] \in Seq(Bytes) /\ Shows(msg[3])
    BY <1>2, FieldChars DEF Shows
<1>4. shown' \in Seq(Seq(Bytes)) /\ (~init_done' => shown' = <<>>)
  <2>1. ~init_done => shown = <<>>
      BY DEF StreamInv
  <2>2. CASE show
    <3>1. msg[3] \in Seq(Bytes) /\ shown' = Append(shown, msg[3])
        BY <1>1, <1>3, <2>2
    <3> HIDE DEF msg, str
    <3> QED BY <1>1, <1>2, <2>2, <3>1
  <2>3. CASE ~show
      BY <1>1, <1>2, <2>1, <2>3
  <2> QED BY <2>2, <2>3
<1>5. PICK k \in 0 .. Len(out) : \E cut : Stream(k, cut)
    BY DEF StreamInv
<1>6. PICK cut : Stream(k, cut)
    BY <1>5
<1>7. Laid(k, cut)' /\ Kept(k, cut)'
  <2>1. Laid(k, cut) /\ Kept(k, cut)
      BY <1>6 DEF Stream
  <2>2. Laid(k, cut)'
      BY <1>1, <2>1 DEF Laid
  <2>3. Kept(k, cut)'
      BY <1>1, <2>1 DEF Kept
  <2> QED BY <2>2, <2>3
<1>8. ASSUME ~mixed' PROVE cut[k] = 0 /\ Taken(k)'
  <2>1. cut[k] = 0 /\ Taken(k) /\ k >= 1
      BY <1>1, <1>6, <1>8 DEF Stream, Taken
  <2>2. CASE init_done
    <3>1. k >= 2 /\ shown = SubSeq(Texts, 1, k - 2) /\ Shows(Texts[k - 1])
        BY <1>1, <2>1, <2>2 DEF Taken
    <3>2. show /\ msg[3] = Texts[k - 1]
        BY <2>2, <3>1 DEF Shows, StreamInv
    <3>3. frame' = Cleared /\ receiver' = "head" /\ shown' = Append(shown, Texts[k - 1])
      <4> HIDE DEF msg, str
      <4> QED BY <1>1, <2>2, <3>2
    <3>4. shown' = SubSeq(Texts, 1, k - 1)
      <4>1. PICK n \in 1 .. Len(Texts) : n = k - 1
        <5>1. Len(Texts) \in Nat
            BY ClientConstants
        <5> QED BY <1>2, <3>1, <5>1
      <4>2. n - 1 = k - 2
          BY <4>1
      <4> QED BY <3>1, <3>3, <4>1, <4>2, TextsAppended
    <3> QED BY <1>1, <2>1, <3>3, <3>4 DEF Taken
  <2>3. CASE ~init_done
    <3>1. ~init_done' /\ receiver' \in {"id", "head"}
        BY <1>1, <2>3
    <3> QED BY <2>1, <3>1 DEF Taken
  <2> QED BY <2>2, <2>3
<1>9. ASSUME "U" \notin Letters PROVE Real(k)'
  <2>1. Real(k) /\ receiver = "got" /\ receiver' # "got"
      BY <1>1, <1>6, <1>9 DEF Stream
  <2>2. CASE show
    <3>1. msg[3] \in Seq(Bytes) /\ Shows(msg[3]) /\ shown' = Append(shown, msg[3])
        BY <1>1, <1>3, <2>2
    <3>2. k \in Nat
        BY <1>2
    <3> HIDE DEF msg, str
    <3> QED BY <1>2, <2>1, <3>1, <3>2, DispatchReal
  <2>3. CASE ~show
    <3>1. shown' = shown
        BY <1>1, <2>3
    <3> QED BY <2>1, <3>1, RealKept
  <2> QED BY <2>2, <2>3
<1>10. Stream(k, cut)'
    BY <1>7, <1>8, <1>9 DEF Stream
<1>11. HasSent("INIT_DONE")' <=> HasSent("INIT_DONE")
    BY <1>1 DEF HasSent
<1>12. k \in 0 .. Len(out')
    BY <1>1
<1> QED BY <1>1, <1>2, <1>4, <1>10, <1>11, <1>12 DEF StreamInv

\* The reply makes the client an initialised one.
LEMMA DoneStream ==
    ASSUME ClientInv, TypeInv, StreamInv, main = "running", SetInitDone
    PROVE  StreamInv'
<1>1. /\ UNCHANGED <<link, log, out, wire, mixed, init_req, frame, shown>>
      /\ receiver = "done" /\ receiver' = "answer" /\ init_done' = TRUE
    BY DEF SetInitDone, recvVars, netVars
<1>2. /\ Len(out) \in Nat /\ link # "none" /\ ~init_done /\ init_req /\ shown = <<>>
      /\ ~HasSent("INIT_DONE") /\ Len(out) <= 1
    BY <1>1 DEF ClientInv, ConnInv, RecvInv, StreamInv
<1>3. PICK k \in 0 .. Len(out) : \E cut : Stream(k, cut)
    BY DEF StreamInv
<1>4. PICK cut : Stream(k, cut)
    BY <1>3
<1>5. Laid(k, cut)' /\ Kept(k, cut)'
    BY <1>1, <1>4 DEF Stream, Laid, Kept
<1>6. ASSUME ~mixed' PROVE cut[k] = 0 /\ Taken(k)'
  <2>1. cut[k] = 0 /\ Taken(k) /\ k >= 1
      BY <1>1, <1>4, <1>6 DEF Stream, Taken
  <2>2. k = 1
      BY <1>2, <2>1
  <2>3. SubSeq(Texts, 1, 0) = <<>>
    <3>1. PICK S : Texts \in Seq(S)
        BY ClientConstants
    <3> QED BY <3>1
  <2>4. shown' = SubSeq(Texts, 1, k - 1)
      BY <1>1, <1>2, <2>2, <2>3
  <2> QED BY <1>1, <2>1, <2>4 DEF Taken
<1>7. "U" \notin Letters => Real(k)'
    BY <1>1, <1>4, RealKept DEF Stream
<1>8. Stream(k, cut)'
    BY <1>5, <1>6, <1>7 DEF Stream
<1>9. HasSent("INIT_DONE")' <=> HasSent("INIT_DONE")
    BY <1>1 DEF HasSent
<1>10. k \in 0 .. Len(out')
    BY <1>1
<1> QED BY <1>1, <1>2, <1>8, <1>9, <1>10 DEF StreamInv

\* The confirmation is sent, or cannot be; nothing was sent after the reply.
LEMMA AnswerStream ==
    ASSUME ClientInv, TypeInv, StreamInv, main = "running", SendInitDone, main' # "killed"
    PROVE  StreamInv'
<1>1. /\ UNCHANGED <<out, wire, mixed, init_req, init_done, shown>>
      /\ receiver = "answer" /\ receiver' = "head"
      /\ link' # "none" \/ link' = link
      /\ frame' = Cleared \/ (frame' = frame /\ link' = "down")
    BY DEF SendInitDone, SendTaken, SendFails, Die, flagVars
<1>2. /\ Len(out) \in Nat /\ link # "none" /\ wire \in Seq(Bytes)
      /\ ~HasSent("INIT_DONE") /\ Len(out) <= 1
    BY <1>1 DEF ClientInv, ConnInv, RecvInv, StreamInv, TypeInv
<1>3. PICK k \in 0 .. Len(out) : \E cut : Stream(k, cut)
    BY DEF StreamInv
<1>4. PICK cut : Stream(k, cut)
    BY <1>3
<1>5. Laid(k, cut)' /\ Kept(k, cut)'
  <2>1. Laid(k, cut) /\ Kept(k, cut)
      BY <1>4 DEF Stream
  <2>2. Laid(k, cut)'
      BY <1>1, <2>1 DEF Laid
  <2>3. Kept(k, cut)'
      BY <1>1, <2>1 DEF Kept
  <2> QED BY <2>2, <2>3
<1>6. ASSUME ~mixed' PROVE cut[k] = 0 /\ Taken(k)'
  <2>1. cut[k] = 0 /\ Taken(k) /\ k >= 1
      BY <1>1, <1>4, <1>6 DEF Stream, Taken
  <2>2. k = Len(out)
      BY <1>2, <2>1
  <2>3. wire = <<>>
    <3>1. cut[Len(out)] = Len(wire)
        BY <1>4 DEF Stream, Laid
    <3>2. Len(wire) = 0
        BY <2>1, <2>2, <3>1
    <3> QED BY <1>2, <3>2
  <2>4. init_done => shown = SubSeq(Texts, 1, k - 1)
      BY <1>1, <2>1 DEF Taken
  <2> QED BY <1>1, <2>1, <2>3, <2>4 DEF Taken
<1>7. "U" \notin Letters => Real(k)'
    BY <1>1, <1>4, RealKept DEF Stream
<1>8. Stream(k, cut)'
    BY <1>5, <1>6, <1>7 DEF Stream
<1>9. k \in 0 .. Len(out')
    BY <1>1
<1> QED BY <1>1, <1>2, <1>8, <1>9 DEF StreamInv

\* Nobody takes back an INIT_DONE.
LEMMA StaysSent ==
    ASSUME ClientInv, [Next]_vars, HasSent("INIT_DONE")
    PROVE  HasSent("INIT_DONE")'
<1> USE DEF netVars
<1>1. log' = log \/ \E m : log' = Append(log, m)
  <2>1. CASE UNCHANGED vars
      BY <2>1 DEF vars
  <2>2. CASE CheckArgs \/ GetSvAddr \/ Connect \/ Leave \/ Die
      BY <2>2 DEF CheckArgs, GetSvAddr, Connect, Leave, Die
  <2>3. CASE SendHead \/ SetInitReq \/ SendWoken \/ ReadLine \/ ReadQuit
      BY <2>3 DEF SendHead, SetInitReq, SendWoken, ReadLine, ReadQuit
  <2>4. CASE SendInitReq \/ SendTyped \/ SendInitDone
    <3>1. log' = log \/ \E m : SendTaken(m)
        BY <2>4 DEF SendInitReq, SendTyped, SendInitDone, SendFails, Die
    <3>2. \A m : SendTaken(m) => log' = log \/ log' = Append(log, m)
        BY DEF SendTaken
    <3> QED BY <3>1, <3>2
  <2>5. CASE \/ ReceiveHead \/ ReceiveBytes \/ ReceiveEnd \/ ReceiveError \/ WakeSender
             \/ Dispatch \/ SetId \/ SetInitDone
      BY <2>5 DEF ReceiveHead, ReceiveBytes, ReceiveEnd, ReceiveError, WakeSender, Dispatch,
                  SetId, SetInitDone
  <2>6. CASE ServerSide(SvRead \/ SvReply \/ SvTell \/ SvClose)
      BY <2>6 DEF ServerSide, SvRead, SvReply, SvTell, SvSends, SvClose
  <2> QED BY <2>1, <2>2, <2>3, <2>4, <2>5, <2>6 DEF Next, Sender, Receiver
<1>2. log \in Seq(Messages)
    BY DEF ClientInv, ConnInv
<1>3. \A i \in DOMAIN log : i \in DOMAIN log' /\ log'[i] = log[i]
  <2>1. CASE \E m : log' = Append(log, m)
    <3>1. PICK m : log' = Append(log, m)
        BY <2>1
    <3> QED BY <1>2, <3>1
  <2> QED BY <1>1, <2>1
<1> QED BY <1>3 DEF HasSent

\* Every step keeps StreamInv.
LEMMA StreamStep ==
    ASSUME ClientInv, TypeInv, StreamInv, [Next]_vars
    PROVE  StreamInv'
<1> USE DEF netVars, flagVars, recvVars, sendVars
<1>0. HasSent("INIT_DONE") => HasSent("INIT_DONE")'
    BY StaysSent
<1>1. CASE UNCHANGED vars
  <2>1. UNCHANGED <<out, wire, frame, shown, mixed, init_done, init_req, link, receiver>>
      BY <1>1 DEF vars
  <2> QED BY <1>0, <2>1, StreamSame
<1>2. CASE CheckArgs \/ GetSvAddr \/ Leave \/ Die
  <2>1. UNCHANGED <<out, wire, frame, shown, mixed, init_done, init_req, link, receiver>>
      BY <1>2 DEF CheckArgs, GetSvAddr, Leave, Die
  <2> QED BY <1>0, <2>1, StreamSame
<1>3. CASE Connect
  <2>1. /\ UNCHANGED <<out, wire, frame, shown, mixed, init_done, init_req>>
        /\ link = "none" /\ receiver = "none"
        /\ UNCHANGED <<link, receiver>> \/ (link' = "open" /\ receiver' = "head")
      BY <1>3 DEF Connect, ClientInv, ConnInv, StreamInv
  <2> QED BY <1>0, <2>1, StreamSame
<1>r. main = "running" => link # "none"
    BY DEF ClientInv, ConnInv
<1>4. CASE main = "running" /\ (Sender \/ ReadLine \/ ReadQuit)
  <2>1. /\ UNCHANGED <<out, wire, frame, shown, mixed, init_done, receiver>>
        /\ init_req' = init_req \/ init_req' = TRUE
      BY <1>4 DEF Sender, SendHead, SendInitReq, SetInitReq, SendWoken, SendTyped, SendTaken,
                  SendFails, Die, ReadLine, ReadQuit
  <2>2. link' = link \/ (link # "down" /\ link' \in {"fin", "finrst", "down"})
      BY <1>4 DEF Sender, SendHead, SendInitReq, SetInitReq, SendWoken, SendTyped, SendTaken,
                  SendFails, Die, ReadLine, ReadQuit
  <2> QED BY <1>0, <1>r, <1>4, <2>1, <2>2, StreamSame
<1>5. CASE main = "running" /\ (ReceiveHead \/ ReceiveEnd \/ ReceiveError \/ WakeSender \/ SetId)
  <2>1. /\ UNCHANGED <<out, wire, frame, shown, mixed, init_done, init_req>>
        /\ link' = link \/ (link = "rst" /\ link' = "down")
        /\ \/ /\ receiver \in {"head", "wait", "signal"}
              /\ receiver' \in {"head", "wait", "signal", "exited"}
           \/ receiver = "id" /\ receiver' = "done"
      BY <1>5 DEF ReceiveHead, ReceiveEnd, ReceiveError, WakeSender, SetId
  <2> QED BY <1>0, <1>r, <1>5, <2>1, StreamSame
<1>6. CASE main = "running" /\ (ReceiveBytes \/ Dispatch \/ SetInitDone)
    BY <1>6, ReceiveStream, DispatchStream, DoneStream
<1>7. CASE main = "running" /\ SendInitDone
  <2>1. CASE main' = "killed"
    <3>1. Die
        BY <1>7, <2>1 DEF SendInitDone
    <3> QED BY <1>2, <3>1
  <2>2. CASE main' # "killed"
      BY <1>7, <2>2, AnswerStream
  <2> QED BY <2>1, <2>2
<1>8. CASE main = "running" /\ ServerSide(SvRead \/ SvReply \/ SvTell \/ SvClose)
  <2>1. link = "open" /\ UNCHANGED <<flagVars, recvVars>>
      BY <1>8 DEF ServerSide
  <2>2. CASE SvRead \/ SvClose
    <3>1. /\ UNCHANGED <<out, wire, frame, shown, mixed, init_done, init_req, receiver>>
          /\ link' \in {link, "rst", "fin"}
        BY <2>1, <2>2 DEF SvRead, SvClose
    <3> QED BY <1>0, <2>1, <3>1, StreamSame
  <2>3. CASE SvReply \/ SvTell
      BY <2>1, <2>3, ServerStream
  <2> QED BY <1>8, <2>2, <2>3 DEF ServerSide
<1> QED BY <1>1, <1>2, <1>3, <1>4, <1>5, <1>6, <1>7, <1>8 DEF Next, Receiver

------------------------------------------------------------------------------
(* The theorems *)

\* What StreamInv says of a client that has caught up.
LEMMA AloneFollows ==
    ASSUME ClientInv, TypeInv, StreamInv
    PROVE  AloneIsShown
<1> SUFFICES ASSUME init_done, ~mixed, wire = <<>>, receiver \in {"head", "wait"}
             PROVE  shown = SubSeq(Texts, 1, Told)
    BY DEF AloneIsShown
<1>1. PICK n \in Nat : n = Len(out)
    BY DEF ClientInv, ConnInv
<1>2. PICK k \in 0 .. n : \E cut : Stream(k, cut)
    BY <1>1 DEF StreamInv
<1>3. PICK cut : Stream(k, cut)
    BY <1>2
<1>4. Taken(k) /\ Laid(k, cut)
    BY <1>3 DEF Stream
<1>5. shown = SubSeq(Texts, 1, k - 1)
    BY <1>4 DEF Taken
<1>6. k = n
  <2> SUFFICES ASSUME k < n PROVE FALSE
      BY <1>1, <1>2
  <2>1. /\ cut[k + 1] >= 1 /\ cut[n] = Len(wire) /\ cut \in [k .. n -> Int]
        /\ \A i, j \in k .. n : i <= j => cut[i] <= cut[j]
      BY <1>1, <1>4 DEF Laid
  <2>2. k + 1 \in k .. n /\ n \in k .. n /\ k + 1 <= n /\ Len(wire) = 0
      BY <1>1
  <2>3. cut[k + 1] <= cut[n] /\ cut[k + 1] \in Int
      BY <2>1, <2>2
  <2> QED BY <2>1, <2>2, <2>3
<1> QED BY <1>1, <1>5, <1>6 DEF Told

\* What StreamInv says of the display.
LEMMA RealFollows ==
    ASSUME ClientInv, StreamInv, "U" \notin Letters
    PROVE  ShownIsReal
<1>1. PICK n \in Nat : n = Len(out)
    BY DEF ClientInv, ConnInv
<1>2. PICK k \in 0 .. n : \E cut : Stream(k, cut)
    BY <1>1 DEF StreamInv
<1>3. Real(k)
    BY <1>2 DEF Stream
<1>4. PICK sent \in [DOMAIN shown -> 1 .. k - 1] :
         \A i, j \in DOMAIN shown : shown[i] = Texts[sent[i]] /\ (i < j => sent[i] < sent[j])
    BY <1>3, Zenon DEF Real
<1>5. Told = n - 1 /\ 1 .. k - 1 \subseteq 1 .. n - 1
    BY <1>1 DEF Told
<1>6. sent \in [DOMAIN shown -> 1 .. Told]
    BY <1>5
<1> QED BY <1>4, <1>6, Zenon DEF ShownIsReal

\* StreamInv holds in every reachable state of the client program.
THEOREM StreamInvariant == Spec => [](ClientInv /\ TypeInv /\ StreamInv)
<1>1. Init => ClientInv /\ TypeInv /\ StreamInv
    BY InitClient, InitTypes, InitStream
<1>2. ClientInv /\ TypeInv /\ StreamInv /\ [Next]_vars => (ClientInv /\ TypeInv /\ StreamInv)'
    BY ClientStepKeeps, TypeStep, StreamStep
<1> QED BY <1>1, <1>2, PTL DEF Spec

\* As long as every recv has returned one message, an initialised client that has
\* caught up has displayed all the texts the server has sent it: whatever the texts,
\* the length of the buffer and what it held before.
THEOREM AloneStaysShown == Spec => []AloneIsShown
<1>1. ClientInv /\ TypeInv /\ StreamInv => AloneIsShown
    BY AloneFollows
<1> QED BY <1>1, StreamInvariant, PTL

\* Whatever recv makes of the stream, what is displayed are texts the server has sent,
\* in that order and none twice, provided that no text holds the character that stands
\* for the action of a message to display: else the remains of a text, behind the end of
\* another message, could read like a message nobody has sent.
THEOREM ShownStaysReal ==
    ASSUME "U" \notin Letters
    PROVE  Spec => []ShownIsReal
<1>1. ClientInv /\ StreamInv => ShownIsReal
    BY RealFollows
<1> QED BY <1>1, StreamInvariant, PTL
==============================================================================
