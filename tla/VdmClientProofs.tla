--------------------------- MODULE VdmClientProofs ---------------------------
(***************************************************************************)
(* The client library for any table size, any ids and descriptor numbers,  *)
(* any key codes and texts, any socket size and any number of calls: a     *)
(* window_t joins two windows only after window_create took a word inside  *)
(* a message for the type of its reply, and as long as no key event came   *)
(* between a call and its reply, the stream is read in step and both sides *)
(* agree on the windows.                                                   *)
(***************************************************************************)
EXTENDS VdmClient, SequenceTheorems, TLAPS

Requests ==
  [type: {"MSG_CREATE_WINDOW", "MSG_DESTROY_WINDOW"}, id: Nat, call: 0 .. MaxCreates]
Words ==
  [type: {MSG_WINDOW_CREATED, MSG_KEY_EVENT, MSG_WINDOW_CLOSE}, pos: 1 .. 6, val: Nat,
   fd: WindowIds \cup {0}]
Handles == [id: Nat, fd: WindowIds, call: Calls]

Shapes ==
  /\ up \in Seq(Requests) /\ down \in Seq(Words) /\ Len(down) <= DownCap
  /\ windows \subseteq [id: WindowIds, call: Calls]
  /\ handles \subseteq Handles
  /\ next_id \in Nat \ {0} /\ calls \in 0 .. MaxCreates
  /\ lib \in {"idle", "create", "poll"} /\ need \in 0 .. 5
  /\ lib = "create" => calls # 0
Flags == alive \in BOOLEAN /\ raced \in BOOLEAN /\ misread \in BOOLEAN

(* What stands in a word, and which word comes next: the stream is a row   *)
(* of whole messages, of which the first may have lost its beginning.      *)
WordOk(w) ==
  \/ /\ w.type = MSG_WINDOW_CREATED
     /\ \/ w.pos = 1 /\ w.val = MSG_WINDOW_CREATED /\ w.fd \in WindowIds
        \/ w.pos = 2 /\ w.val \in WindowIds /\ w.fd = 0
        \/ w.pos = 3 /\ w.fd = 0
  \/ /\ w.type = MSG_WINDOW_CLOSE /\ w.fd = 0
     /\ (w.pos = 1 /\ w.val = MSG_WINDOW_CLOSE) \/ (w.pos = 2 /\ w.val = 0)
  \/ /\ w.type = MSG_KEY_EVENT /\ w.fd = 0
     /\ (w.pos = 1 /\ w.val = MSG_KEY_EVENT) \/ w.pos \in 2 .. 6
Ends(w) == w.pos = WordsOf(w.type)
Follows(w, x) ==
  IF Ends(w) THEN x.pos = 1
  ELSE x.type = w.type /\ x.pos = w.pos + 1 /\ (w.fd # 0 => x.val = w.fd)
Chain(s) ==
  \A k \in DOMAIN s :
    WordOk(s[k]) /\ (IF k = Len(s) THEN Ends(s[k]) ELSE Follows(s[k], s[k + 1]))

IsCreate(r) == r.type = "MSG_CREATE_WINDOW"

(* A request to create is the client's own, and the server gives out no id *)
(* twice.                                                                  *)
Asked(u) == \A k \in DOMAIN u : IsCreate(u[k]) => u[k].id = 0 /\ u[k].call # 0
Numbered ==
  /\ Asked(up)
  /\ \A w \in windows : w.id < next_id
  /\ \A h \in handles : h.fd < next_id
  /\ \A k \in DOMAIN down : down[k].fd < next_id

(* Without a race: at most one request or one reply is under way, and only *)
(* during window_create.                                                   *)
Reply(k) == down[k].type # MSG_KEY_EVENT
NoReply == \A k \in DOMAIN down : ~Reply(k)
OneReply == \A j, k \in DOMAIN down : Reply(j) /\ Reply(k) => j - down[j].pos = k - down[k].pos
NoRequest == \A k \in DOMAIN up : ~IsCreate(up[k])

InTurn ==
  ~raced =>
    /\ lib # "poll"
    /\ down # <<>> => down[1].pos = 1
    /\ \A k \in DOMAIN up : IsCreate(up[k]) => k = Len(up) /\ up[k].call = calls
    /\ OneReply
    /\ ~NoRequest => NoReply
    /\ lib = "idle" => NoRequest /\ NoReply

(* Without a race: a window of the table is one the client holds, has      *)
(* given back, or is about to be told of by the call that asked for it.    *)
Agreed ==
  ~raced =>
    /\ \A h \in handles, w \in windows : h.id = w.id => h.call = w.call
    /\ \A k \in DOMAIN down, w \in windows : down[k].fd = w.id => w.call = calls
    /\ alive =>
         \A w \in windows :
           \/ \E h \in handles : h.id = w.id
           \/ \E k \in DOMAIN up : up[k].id = w.id
           \/ \E k \in DOMAIN down : down[k].fd = w.id

(* Nothing waits for a server that is gone. *)
Stopped == ~alive => up = <<>>

ClientInv ==
  /\ Shapes /\ Flags /\ Chain(down) /\ Numbered /\ BufferMatches /\ Stopped
  /\ InTurn /\ Agreed
-----------------------------------------------------------------------------
(* Sequences. *)

(* Elements and length of the tail of a sequence. *)
LEMMA TailIs ==
  ASSUME NEW S, NEW s \in Seq(S), s # <<>>
  PROVE  /\ Tail(s) \in Seq(S) /\ Len(Tail(s)) = Len(s) - 1 /\ 1 \in DOMAIN s
         /\ Head(s) = s[1] /\ Head(s) \in S
         /\ \A k \in DOMAIN Tail(s) : k \in Nat /\ k + 1 \in DOMAIN s /\ Tail(s)[k] = s[k + 1]
         /\ \A k \in DOMAIN s : k = 1 \/ (k - 1 \in DOMAIN Tail(s) /\ Tail(s)[k - 1] = s[k])
OBVIOUS

(* Elements and length of a sequence with one more. *)
LEMMA AppendIs ==
  ASSUME NEW S, NEW s \in Seq(S), NEW e \in S
  PROVE  /\ Append(s, e) \in Seq(S) /\ Len(Append(s, e)) = Len(s) + 1
         /\ \A k \in DOMAIN s : k \in DOMAIN Append(s, e) /\ Append(s, e)[k] = s[k] /\ k <= Len(s)
         /\ Len(s) + 1 \in DOMAIN Append(s, e) /\ Append(s, e)[Len(s) + 1] = e
         /\ \A k \in DOMAIN Append(s, e) : k \in DOMAIN s \/ k = Len(s) + 1
OBVIOUS

(* Elements and length of a concatenation. *)
LEMMA ConcatIs ==
  ASSUME NEW S, NEW s \in Seq(S), NEW t \in Seq(S)
  PROVE  /\ s \o t \in Seq(S) /\ Len(s \o t) = Len(s) + Len(t)
         /\ \A k \in DOMAIN s : k \in DOMAIN (s \o t) /\ (s \o t)[k] = s[k]
         /\ \A k \in DOMAIN t : /\ Len(s) + k \in DOMAIN (s \o t)
                                /\ (s \o t)[Len(s) + k] = t[k]
         /\ \A k \in DOMAIN (s \o t) :
              k \in DOMAIN s \/ (k - Len(s) \in DOMAIN t /\ (s \o t)[k] = t[k - Len(s)])
OBVIOUS

(* What is left of a sequence after its first n elements. *)
LEMMA DropIs ==
  ASSUME NEW S, NEW s \in Seq(S), NEW n \in Nat, NEW d, d = SubSeq(s, n + 1, Len(s))
  PROVE  /\ d \in Seq(S) /\ Len(d) = IF n < Len(s) THEN Len(s) - n ELSE 0
         /\ \A k \in DOMAIN d : k \in Nat /\ k >= 1 /\ k + n \in DOMAIN s /\ d[k] = s[k + n]
<1>1. Len(s) \in Nat /\ DOMAIN s = 1 .. Len(s) /\ \A k \in DOMAIN s : s[k] \in S
  OBVIOUS
<1>2. CASE n < Len(s)
  <2>1. PICK m : m = Len(s) - n
    OBVIOUS
  <2>2. m \in Nat /\ d = [k \in 1 .. m |-> s[k + n]]
    <3>1. Len(s) - (n + 1) + 1 = m /\ m \in Nat
      BY <1>1, <1>2, <2>1
    <3>2. SubSeq(s, n + 1, Len(s)) = [k \in 1 .. (Len(s) - (n + 1) + 1) |-> s[k + (n + 1) - 1]]
      BY <1>1
    <3>3. \A k \in 1 .. m : k + (n + 1) - 1 = k + n
      BY <3>1
    <3>4. QED
      BY <3>1, <3>2, <3>3
  <2>3. \A k \in 1 .. m : k + n \in DOMAIN s
    BY <1>1, <1>2, <2>1
  <2>4. d \in [1 .. m -> S]
    BY <1>1, <2>2, <2>3
  <2>5. d \in Seq(S) /\ Len(d) = m /\ DOMAIN d = 1 .. m
    BY <2>2, <2>4
  <2>6. QED
    BY <1>2, <2>1, <2>2, <2>3, <2>5
<1>3. CASE ~(n < Len(s))
  <2>1. d = <<>>
    BY <1>1, <1>3
  <2>2. QED
    BY <1>3, <2>1
<1>4. QED
  BY <1>2, <1>3
-----------------------------------------------------------------------------
(* The stream. *)

(* The constants, and the ids of windows, are numbers. *)
LEMMA Consts ==
  /\ MaxCreates \in Nat /\ DownCap \in Nat /\ MAX_WINDOWS \in Nat \ {0}
  /\ \A i \in WindowIds : i \in Nat /\ i >= 1
  /\ \A n \in FdNumbers \cup TextWords \cup Keycodes : n \in Nat
  /\ \A c \in 0 .. MaxCreates : c \in Nat /\ (c # 0 => c \in Calls)
BY ClientAssumption DEF Calls

(* The sizes of the three messages, in words. *)
LEMMA WordsOfIs ==
  /\ WordsOf(MSG_WINDOW_CREATED) = 3 /\ WordsOf(MSG_KEY_EVENT) = 6 /\ WordsOf(MSG_WINDOW_CLOSE) = 2
BY DEF WordsOf, MSG_WINDOW_CREATED, MSG_KEY_EVENT, MSG_WINDOW_CLOSE

(* A word of the stream has its place within its message. *)
LEMMA WordFacts ==
  ASSUME NEW w \in Words, WordOk(w)
  PROVE  /\ w.pos \in Nat /\ w.pos >= 1 /\ w.pos <= WordsOf(w.type) /\ w.fd \in Nat
         /\ w.type # MSG_KEY_EVENT => w.pos <= 3
         /\ w.type = MSG_WINDOW_CREATED => WordsOf(w.type) = 3
         /\ w.type = MSG_KEY_EVENT => WordsOf(w.type) = 6
         /\ w.type = MSG_WINDOW_CLOSE => WordsOf(w.type) = 2
         /\ w.fd # 0 => w.type = MSG_WINDOW_CREATED /\ w.pos = 1 /\ w.fd \in WindowIds
         /\ w.val \in Nat
         /\ w.val = MSG_WINDOW_CREATED /\ w.pos = 1 => w.type = MSG_WINDOW_CREATED
<1>1. w.type \in {MSG_WINDOW_CREATED, MSG_KEY_EVENT, MSG_WINDOW_CLOSE} /\ w.pos \in 1 .. 6
      /\ w.fd \in WindowIds \cup {0} /\ w.val \in Nat
  BY DEF Words
<1>2. /\ w.type = MSG_WINDOW_CREATED => WordsOf(w.type) = 3
      /\ w.type = MSG_KEY_EVENT => WordsOf(w.type) = 6
      /\ w.type = MSG_WINDOW_CLOSE => WordsOf(w.type) = 2
  BY WordsOfIs
<1>3. /\ w.type = MSG_WINDOW_CREATED => w.pos \in {1, 2, 3}
      /\ w.type = MSG_WINDOW_CLOSE => w.pos \in {1, 2}
  BY DEF WordOk, MSG_WINDOW_CREATED, MSG_KEY_EVENT, MSG_WINDOW_CLOSE
<1>4. w.fd # 0 => w.type = MSG_WINDOW_CREATED /\ w.pos = 1 /\ w.fd \in WindowIds
  BY DEF WordOk
<1>5. w.val = MSG_WINDOW_CREATED /\ w.pos = 1 => w.type = MSG_WINDOW_CREATED
  BY DEF WordOk, MSG_WINDOW_CREATED, MSG_KEY_EVENT, MSG_WINDOW_CLOSE
<1>6. QED
  BY <1>1, <1>2, <1>3, <1>4, <1>5, Consts

(* A message is put behind the stream; words are taken from its front. *)
LEMMA ChainConcat ==
  ASSUME NEW s \in Seq(Words), NEW t \in Seq(Words), Chain(s), Chain(t), t # <<>>, t[1].pos = 1
  PROVE  Chain(s \o t)
<1>1. PICK c : c = s \o t
  OBVIOUS
<1>2. /\ c \in Seq(Words) /\ Len(c) = Len(s) + Len(t)
      /\ \A k \in DOMAIN s : c[k] = s[k]
      /\ \A k \in DOMAIN t : c[Len(s) + k] = t[k]
      /\ \A k \in DOMAIN c : k \in DOMAIN s \/ (k - Len(s) \in DOMAIN t /\ c[k] = t[k - Len(s)])
  BY <1>1, ConcatIs
<1>3. /\ Len(s) \in Nat /\ Len(t) \in Nat /\ Len(t) > 0
      /\ DOMAIN s = 1 .. Len(s) /\ DOMAIN t = 1 .. Len(t) /\ DOMAIN c = 1 .. (Len(s) + Len(t))
  BY <1>2
<1>4. SUFFICES ASSUME NEW k \in DOMAIN c
               PROVE  WordOk(c[k]) /\ (IF k = Len(c) THEN Ends(c[k]) ELSE Follows(c[k], c[k + 1]))
  BY <1>1 DEF Chain
<1>5. CASE k \in DOMAIN s
  <2>1. c[k] = s[k] /\ k # Len(c) /\ WordOk(s[k])
    BY <1>2, <1>3, <1>5 DEF Chain
  <2>2. CASE k = Len(s)
    <3>1. Ends(s[k])
      BY <1>5, <2>2 DEF Chain
    <3>2. 1 \in DOMAIN t
      BY <1>3
    <3>3. c[Len(s) + 1] = t[1]
      BY <1>2, <3>2
    <3>4. QED
      BY <2>1, <2>2, <3>1, <3>3 DEF Follows
  <2>3. CASE k # Len(s)
    <3>1. k + 1 \in DOMAIN s /\ Follows(s[k], s[k + 1])
      BY <1>3, <1>5, <2>3 DEF Chain
    <3>2. c[k + 1] = s[k + 1]
      BY <1>2, <3>1
    <3>3. QED
      BY <2>1, <3>1, <3>2
  <2>4. QED
    BY <2>2, <2>3
<1>6. CASE k \notin DOMAIN s
  <2>1. PICK j : j = k - Len(s)
    OBVIOUS
  <2>2. j \in DOMAIN t /\ c[k] = t[j] /\ k = Len(s) + j /\ j \in Nat
    BY <1>2, <1>3, <1>6, <2>1
  <2>3. WordOk(t[j]) /\ (IF j = Len(t) THEN Ends(t[j]) ELSE Follows(t[j], t[j + 1]))
    BY <2>2 DEF Chain
  <2>4. k = Len(c) <=> j = Len(t)
    <3>1. Len(c) = Len(s) + Len(t) /\ Len(s) \in Nat /\ Len(t) \in Nat
      BY <1>2, <1>3
    <3>2. k = Len(s) + j /\ j \in Nat
      BY <2>2
    <3>3. QED
      BY <3>1, <3>2
  <2>5. j # Len(t) => j + 1 \in DOMAIN t
    BY <1>3, <2>2
  <2>6. j # Len(t) => c[k + 1] = t[j + 1]
    <3>1. k + 1 = Len(s) + (j + 1)
      BY <1>3, <2>2
    <3>2. QED
      BY <1>2, <2>5, <3>1
  <2>7. QED
    BY <2>2, <2>3, <2>4, <2>6
<1>7. QED
  BY <1>5, <1>6

(* What is left after words were taken is still a chain of messages. *)
LEMMA ChainDrop ==
  ASSUME NEW s \in Seq(Words), Chain(s), NEW n \in Nat, NEW d, d = SubSeq(s, n + 1, Len(s))
  PROVE  Chain(d)
<1>1. /\ d \in Seq(Words) /\ Len(d) = IF n < Len(s) THEN Len(s) - n ELSE 0
      /\ \A k \in DOMAIN d : k \in Nat /\ k >= 1 /\ k + n \in DOMAIN s /\ d[k] = s[k + n]
  BY DropIs
<1>2. Len(s) \in Nat /\ DOMAIN d = 1 .. Len(d)
  BY <1>1
<1>3. SUFFICES ASSUME NEW k \in DOMAIN d
               PROVE  WordOk(d[k]) /\ (IF k = Len(d) THEN Ends(d[k]) ELSE Follows(d[k], d[k + 1]))
  BY DEF Chain
<1>4. PICK j : j = k + n
  OBVIOUS
<1>5. j \in DOMAIN s /\ d[k] = s[j] /\ k \in Nat
  BY <1>1, <1>4
<1>6. WordOk(s[j]) /\ (IF j = Len(s) THEN Ends(s[j]) ELSE Follows(s[j], s[j + 1]))
  BY <1>5 DEF Chain
<1>7. k = Len(d) <=> j = Len(s)
  BY <1>1, <1>2, <1>4, <1>5
<1>8. k # Len(d) => d[k + 1] = s[j + 1]
  <2>1. SUFFICES ASSUME k # Len(d) PROVE d[k + 1] = s[j + 1]
    OBVIOUS
  <2>2. k + 1 \in DOMAIN d
    BY <1>1, <1>2, <1>5, <2>1
  <2>3. (k + 1) + n = j + 1
    BY <1>4, <1>5
  <2>4. QED
    BY <1>1, <2>2, <2>3
<1>9. QED
  BY <1>5, <1>6, <1>7, <1>8

(* The messages of the server. *)
Message(m) ==
  /\ m \in Seq(Words) /\ m # <<>> /\ Chain(m) /\ m[1].pos = 1
  /\ \A k \in DOMAIN m : m[k].pos = k

(* The reply of a creation is a message of three words. *)
LEMMA CreatedIs ==
  ASSUME NEW i \in WindowIds, NEW n \in FdNumbers
  PROVE  /\ Message(CreatedMsg(i, n)) /\ Len(CreatedMsg(i, n)) = 3
         /\ \A k \in DOMAIN CreatedMsg(i, n) :
              CreatedMsg(i, n)[k].type = MSG_WINDOW_CREATED /\ CreatedMsg(i, n)[k].fd \in {0, i}
         /\ 1 \in DOMAIN CreatedMsg(i, n) /\ CreatedMsg(i, n)[1].fd = i
<1>1. PICK m : m = CreatedMsg(i, n)
  OBVIOUS
<1>2. i \in Nat /\ i >= 1 /\ n \in Nat
  BY Consts
<1>3. PICK a, b, c : /\ a = Word(MSG_WINDOW_CREATED, 1, MSG_WINDOW_CREATED, i)
                     /\ b = Word(MSG_WINDOW_CREATED, 2, i, 0)
                     /\ c = Word(MSG_WINDOW_CREATED, 3, n, 0)
  OBVIOUS
<1>4. /\ a.type = MSG_WINDOW_CREATED /\ a.pos = 1 /\ a.val = MSG_WINDOW_CREATED /\ a.fd = i
      /\ b.type = MSG_WINDOW_CREATED /\ b.pos = 2 /\ b.val = i /\ b.fd = 0
      /\ c.type = MSG_WINDOW_CREATED /\ c.pos = 3 /\ c.val = n /\ c.fd = 0
  BY <1>3 DEF Word
<1>5. a \in Words /\ b \in Words /\ c \in Words
  BY <1>2, <1>3, Consts DEF Word, Words, MSG_WINDOW_CREATED
<1>6. m = <<a, b, c>>
  BY <1>1, <1>3 DEF CreatedMsg
<1>7. /\ m \in Seq(Words) /\ Len(m) = 3 /\ DOMAIN m = {1, 2, 3} /\ m # <<>>
      /\ m[1] = a /\ m[2] = b /\ m[3] = c
  BY <1>5, <1>6
<1>8. WordsOf(MSG_WINDOW_CREATED) = 3
  BY WordsOfIs
<1>9. WordOk(a) /\ WordOk(b) /\ WordOk(c) /\ Follows(a, b) /\ Follows(b, c) /\ Ends(c)
  BY <1>2, <1>4, <1>8 DEF WordOk, Follows, Ends
<1>10. Chain(m)
  BY <1>7, <1>9 DEF Chain
<1>11. /\ \A k \in DOMAIN m : m[k].pos = k /\ m[k].type = MSG_WINDOW_CREATED /\ m[k].fd \in {0, i}
       /\ 1 \in DOMAIN m /\ m[1].fd = i /\ m[1].pos = 1
  BY <1>4, <1>7
<1>12. QED
  BY <1>1, <1>7, <1>10, <1>11 DEF Message

(* The refusal is a message of two words, and carries no descriptor. *)
LEMMA CloseIs ==
  /\ Message(CloseMsg) /\ Len(CloseMsg) = 2
  /\ \A k \in DOMAIN CloseMsg : CloseMsg[k].type = MSG_WINDOW_CLOSE /\ CloseMsg[k].fd = 0
<1>1. PICK m : m = CloseMsg
  OBVIOUS
<1>2. PICK a, b : /\ a = Word(MSG_WINDOW_CLOSE, 1, MSG_WINDOW_CLOSE, 0)
                  /\ b = Word(MSG_WINDOW_CLOSE, 2, 0, 0)
  OBVIOUS
<1>3. /\ a.type = MSG_WINDOW_CLOSE /\ a.pos = 1 /\ a.val = MSG_WINDOW_CLOSE /\ a.fd = 0
      /\ b.type = MSG_WINDOW_CLOSE /\ b.pos = 2 /\ b.val = 0 /\ b.fd = 0
  BY <1>2 DEF Word
<1>4. a \in Words /\ b \in Words
  BY <1>2, Consts DEF Word, Words, MSG_WINDOW_CLOSE
<1>5. m = <<a, b>>
  BY <1>1, <1>2 DEF CloseMsg
<1>6. /\ m \in Seq(Words) /\ Len(m) = 2 /\ DOMAIN m = {1, 2} /\ m # <<>> /\ m[1] = a /\ m[2] = b
  BY <1>4, <1>5
<1>7. WordsOf(MSG_WINDOW_CLOSE) = 2
  BY WordsOfIs
<1>8. WordOk(a) /\ WordOk(b) /\ Follows(a, b) /\ Ends(b)
  BY <1>3, <1>7 DEF WordOk, Follows, Ends
<1>9. Chain(m)
  BY <1>6, <1>8 DEF Chain
<1>10. \A k \in DOMAIN m : m[k].pos = k /\ m[k].type = MSG_WINDOW_CLOSE /\ m[k].fd = 0
  BY <1>3, <1>6
<1>11. QED
  BY <1>1, <1>3, <1>6, <1>9, <1>10 DEF Message

(* A key event is a message of six words, and carries no descriptor. *)
LEMMA KeyIs ==
  ASSUME NEW i \in WindowIds, NEW code \in Nat, NEW text \in Nat
  PROVE  /\ Message(KeyMsg(i, code, text))
         /\ \A k \in DOMAIN KeyMsg(i, code, text) :
              KeyMsg(i, code, text)[k].type = MSG_KEY_EVENT /\ KeyMsg(i, code, text)[k].fd = 0
<1>1. PICK m : m = KeyMsg(i, code, text)
  OBVIOUS
<1>2. i \in Nat
  BY Consts
<1>3. DOMAIN m = 1 .. 6
  BY <1>1 DEF KeyMsg
<1>4. \A k \in 1 .. 6 :
        m[k] = [type |-> MSG_KEY_EVENT, pos |-> k, fd |-> 0,
                val |-> IF k = 1 THEN MSG_KEY_EVENT ELSE IF k = 2 THEN i
                        ELSE IF k = 3 THEN code ELSE IF k = 4 THEN Plain ELSE text]
  BY <1>1 DEF KeyMsg, Word
<1>5. \A k \in 1 .. 6 : m[k].type = MSG_KEY_EVENT /\ m[k].pos = k /\ m[k].fd = 0
  BY <1>4
<1>6. \A k \in 1 .. 6 : m[k] \in Words
  BY <1>2, <1>4, Consts DEF Words, Plain, MSG_KEY_EVENT
<1>7. m \in Seq(Words) /\ Len(m) = 6 /\ m # <<>>
  <2>1. m = [k \in 1 .. 6 |-> m[k]]
    BY <1>1 DEF KeyMsg
  <2>2. PICK n \in Nat : n = 6
    OBVIOUS
  <2>3. m \in [1 .. n -> Words]
    BY <1>6, <2>1, <2>2
  <2>4. m \in Seq(Words) /\ Len(m) = n
    BY <2>3
  <2>5. QED
    BY <2>2, <2>4
<1>8. WordsOf(MSG_KEY_EVENT) = 6
  BY WordsOfIs
<1>9. \A k \in 1 .. 6 : WordOk(m[k])
  <2>1. SUFFICES ASSUME NEW k \in 1 .. 6 PROVE WordOk(m[k])
    OBVIOUS
  <2>2. /\ m[k].type = MSG_KEY_EVENT /\ m[k].pos = k /\ m[k].fd = 0
        /\ m[k].val = IF k = 1 THEN MSG_KEY_EVENT ELSE IF k = 2 THEN i
                      ELSE IF k = 3 THEN code ELSE IF k = 4 THEN Plain ELSE text
    BY <1>4
  <2>3. k \in {1, 2, 3} \/ k \in 4 .. 6
    OBVIOUS
  <2>4. QED
    BY <2>2, <2>3 DEF WordOk
<1>10. \A k \in 1 .. 6 : k # 6 => Follows(m[k], m[k + 1])
  <2>1. SUFFICES ASSUME NEW k \in 1 .. 6, k # 6 PROVE Follows(m[k], m[k + 1])
    OBVIOUS
  <2>2. k + 1 \in 1 .. 6
    BY <2>1
  <2>3. /\ m[k].type = MSG_KEY_EVENT /\ m[k].pos = k /\ m[k].fd = 0
        /\ m[k + 1].type = MSG_KEY_EVENT /\ m[k + 1].pos = k + 1
    BY <1>5, <2>2
  <2>4. ~Ends(m[k])
    BY <1>8, <2>1, <2>3 DEF Ends
  <2>5. QED
    BY <2>3, <2>4 DEF Follows
<1>11. Ends(m[6])
  BY <1>5, <1>8 DEF Ends
<1>12. Chain(m)
  BY <1>3, <1>7, <1>9, <1>10, <1>11 DEF Chain
<1>13. m[1].pos = 1
  BY <1>5
<1>14. Message(m)
  BY <1>3, <1>5, <1>7, <1>12, <1>13 DEF Message
<1>15. QED
  BY <1>1, <1>3, <1>5, <1>14
-----------------------------------------------------------------------------
(* The server's steps. *)

(* What the invariant says about the stream and the requests, in one place. *)
LEMMA Facts ==
  ASSUME ClientInv
  PROVE  /\ up \in Seq(Requests) /\ down \in Seq(Words) /\ Len(down) \in Nat /\ Len(up) \in Nat
         /\ Len(down) <= DownCap /\ Chain(down)
         /\ windows \subseteq [id: WindowIds, call: Calls]
         /\ handles \subseteq Handles
         /\ next_id \in Nat /\ next_id >= 1 /\ calls \in 0 .. MaxCreates /\ calls \in Nat
         /\ \A k \in DOMAIN down : k \in Nat /\ down[k] \in Words /\ WordOk(down[k])
         /\ \A k \in DOMAIN up : k \in Nat /\ up[k] \in Requests /\ up[k].call \in Nat
                                 /\ up[k].id \in Nat
         /\ \A w \in windows : w.id \in WindowIds /\ w.id \in Nat /\ w.id # 0 /\ w.call \in Calls
         /\ \A h \in handles : h \in Handles /\ h.id \in Nat /\ h.fd \in Nat /\ h.fd \in WindowIds
<1>1. /\ up \in Seq(Requests) /\ down \in Seq(Words) /\ Len(down) <= DownCap
      /\ windows \subseteq [id: WindowIds, call: Calls]
      /\ handles \subseteq Handles
      /\ next_id \in Nat \ {0} /\ calls \in 0 .. MaxCreates
  BY DEF ClientInv, Shapes
<1>2. calls \in Nat /\ next_id \in Nat /\ next_id >= 1
  BY <1>1, Consts
<1>3. Len(down) \in Nat /\ Len(up) \in Nat /\ Chain(down)
  BY <1>1 DEF ClientInv
<1>4. \A k \in DOMAIN down : k \in Nat /\ down[k] \in Words /\ WordOk(down[k])
  BY <1>1, <1>3 DEF Chain
<1>5. \A k \in DOMAIN up : k \in Nat /\ up[k] \in Requests
  BY <1>1
<1>6. \A k \in DOMAIN up : up[k].call \in Nat /\ up[k].id \in Nat
  BY <1>5, Consts DEF Requests
<1>7. \A w \in windows : w.id \in WindowIds /\ w.call \in Calls
  BY <1>1
<1>8. \A h \in handles : h \in Handles /\ h.id \in Nat /\ h.fd \in WindowIds
  BY <1>1 DEF Handles
<1>9. \A i \in WindowIds : i \in Nat /\ i # 0
  BY Consts
<1>10. QED
  BY <1>1, <1>2, <1>3, <1>4, <1>5, <1>6, <1>7, <1>8, <1>9

(* A whole message appended to the stream keeps it a chain of messages. *)
LEMMA SentStream ==
  ASSUME ClientInv, NEW m, Message(m), Room(m), down' = down \o m
  PROVE  /\ down' \in Seq(Words) /\ Len(down') <= DownCap /\ Chain(down') /\ down' # <<>>
         /\ \A k \in DOMAIN down : k \in DOMAIN down' /\ down'[k] = down[k]
         /\ \A k \in DOMAIN down' :
              \/ k \in DOMAIN down /\ down'[k] = down[k]
              \/ /\ k - down'[k].pos = Len(down)
                 /\ \E j \in DOMAIN m : down'[k] = m[j]
         /\ \A j \in DOMAIN m : \E k \in DOMAIN down' : down'[k] = m[j]
         /\ (down # <<>> => down[1].pos = 1) => down'[1].pos = 1
<1>1. /\ down \in Seq(Words) /\ Len(down) \in Nat /\ Chain(down)
  BY Facts
<1>2. /\ m \in Seq(Words) /\ m # <<>> /\ Chain(m) /\ m[1].pos = 1
      /\ \A k \in DOMAIN m : m[k].pos = k
  BY DEF Message
<1>3. /\ down' \in Seq(Words) /\ Len(down') = Len(down) + Len(m)
      /\ \A k \in DOMAIN down : k \in DOMAIN down' /\ down'[k] = down[k]
      /\ \A k \in DOMAIN m : Len(down) + k \in DOMAIN down' /\ down'[Len(down) + k] = m[k]
      /\ \A k \in DOMAIN down' :
           k \in DOMAIN down \/ (k - Len(down) \in DOMAIN m /\ down'[k] = m[k - Len(down)])
  BY <1>1, <1>2, ConcatIs
<1>4. Chain(down')
  BY <1>1, <1>2, ChainConcat
<1>5. Len(down') <= DownCap
  BY <1>3 DEF Room
<1>6. down' # <<>>
  <2>1. Len(m) \in Nat /\ Len(m) > 0
    BY <1>2
  <2>2. QED
    BY <1>1, <1>3, <2>1
<1>7. \A k \in DOMAIN down' :
        k \in DOMAIN down \/ (k - down'[k].pos = Len(down) /\ \E j \in DOMAIN m : down'[k] = m[j])
  <2>1. SUFFICES ASSUME NEW k \in DOMAIN down', k \notin DOMAIN down
                 PROVE  k - down'[k].pos = Len(down) /\ \E j \in DOMAIN m : down'[k] = m[j]
    OBVIOUS
  <2>2. PICK j : j = k - Len(down)
    OBVIOUS
  <2>3. j \in DOMAIN m /\ down'[k] = m[j]
    BY <1>3, <2>1, <2>2
  <2>4. down'[k].pos = j
    BY <1>2, <2>3
  <2>5. k \in Nat
    BY <1>3
  <2>6. QED
    BY <1>1, <2>2, <2>3, <2>4, <2>5
<1>8. (down # <<>> => down[1].pos = 1) => down'[1].pos = 1
  <2>1. CASE down = <<>>
    <3>1. Len(down) = 0 /\ 1 \in DOMAIN m
      BY <1>2, <2>1
    <3>2. down'[Len(down) + 1] = m[1]
      BY <1>3, <3>1
    <3>3. QED
      BY <1>2, <3>1, <3>2
  <2>2. CASE down # <<>>
    <3>1. 1 \in DOMAIN down
      BY <1>1, <2>2
    <3>2. QED
      BY <1>3, <2>2, <3>1
  <2>3. QED
    BY <2>1, <2>2
<1>9. \A j \in DOMAIN m : \E k \in DOMAIN down' : down'[k] = m[j]
  BY <1>3
<1>10. QED
  BY <1>3, <1>4, <1>5, <1>6, <1>7, <1>8, <1>9

(* A key event sent to the client keeps the invariant. *)
LEMMA KeyKeeps ==
  ASSUME ClientInv, NEW i \in WindowIds, NEW code \in Keycodes, NEW text \in TextWords,
         broadcast_key(i, code, text)
  PROVE  ClientInv'
<1>1. PICK m : m = KeyMsg(i, code, text)
  OBVIOUS
<1>2. code \in Nat /\ text \in Nat
  BY Consts
<1>3. Message(m) /\ \A k \in DOMAIN m : m[k].type = MSG_KEY_EVENT /\ m[k].fd = 0
  BY <1>1, <1>2, KeyIs
<1>4. Room(m) /\ down' = down \o m /\ UNCHANGED <<up, alive, windows, next_id, handles, calls, lib,
                                                  need, raced, misread>>
  BY <1>1 DEF broadcast_key, serverVars
<1>5. /\ down' \in Seq(Words) /\ Len(down') <= DownCap /\ Chain(down')
      /\ \A k \in DOMAIN down : k \in DOMAIN down' /\ down'[k] = down[k]
      /\ (down # <<>> => down[1].pos = 1) => down'[1].pos = 1
  BY <1>3, <1>4, SentStream
<1>6. \A k \in DOMAIN down' :
        \/ k \in DOMAIN down /\ down'[k] = down[k]
        \/ down'[k].type = MSG_KEY_EVENT /\ down'[k].fd = 0
  <2>1. \A k \in DOMAIN down' :
          \/ k \in DOMAIN down /\ down'[k] = down[k]
          \/ \E j \in DOMAIN m : down'[k] = m[j]
    BY <1>3, <1>4, SentStream
  <2>2. QED
    BY <1>3, <2>1
<1>7. Shapes' /\ Flags'
  BY <1>4, <1>5 DEF ClientInv, Shapes, Flags
<1>8. Numbered'
  <2>1. \A k \in DOMAIN down' : down'[k].fd < next_id
    BY <1>6, Facts DEF ClientInv, Numbered
  <2>2. QED
    BY <1>4, <2>1 DEF ClientInv, Numbered
<1>9. BufferMatches'
  BY <1>4 DEF ClientInv, BufferMatches
<1>10. InTurn'
  <2>1. SUFFICES ASSUME ~raced PROVE InTurn'
    BY <1>4 DEF InTurn
  <2>2. \A k \in DOMAIN down' : Reply(k)' => Reply(k) /\ k \in DOMAIN down /\ down'[k] = down[k]
    BY <1>6 DEF Reply
  <2>3. (OneReply => OneReply') /\ (NoReply => NoReply') /\ (NoRequest' <=> NoRequest)
    BY <1>4, <2>2 DEF OneReply, NoReply, NoRequest
  <2>4. QED
    BY <1>4, <1>5, <2>1, <2>3 DEF ClientInv, InTurn
<1>11. Agreed'
  <2>1. SUFFICES ASSUME ~raced PROVE Agreed'
    BY <1>4 DEF Agreed
  <2>2. \A k \in DOMAIN down', w \in windows : down'[k].fd = w.id => w.call = calls
    BY <1>6, <2>1, Facts DEF ClientInv, Agreed
  <2>3. \A w \in windows :
          (\E k \in DOMAIN down : down[k].fd = w.id) => \E k \in DOMAIN down' : down'[k].fd = w.id
    BY <1>5
  <2>4. QED
    BY <1>4, <2>1, <2>2, <2>3 DEF ClientInv, Agreed
<1>12. Stopped'
  BY <1>4 DEF ClientInv, Stopped
<1>13. QED
  BY <1>5, <1>7, <1>8, <1>9, <1>10, <1>11, <1>12 DEF ClientInv

(* The requests left after the server has taken the first are as the invariant says. *)
LEMMA ServedUp ==
  ASSUME ClientInv, up # <<>>
  PROVE  /\ Tail(up) \in Seq(Requests) /\ Asked(Tail(up))
         /\ IsCreate(Head(up)) => /\ Head(up).call \in Calls /\ Head(up).id = 0
                                  /\ ~raced => Head(up).call = calls
         /\ ~raced => \A k \in DOMAIN Tail(up) :
                        IsCreate(Tail(up)[k]) => k = Len(Tail(up)) /\ Tail(up)[k].call = calls
         /\ NoRequest => \A k \in DOMAIN Tail(up) : ~IsCreate(Tail(up)[k])
         /\ ~raced /\ IsCreate(Head(up)) => \A k \in DOMAIN Tail(up) : ~IsCreate(Tail(up)[k])
         /\ \A w \in windows, k \in DOMAIN up :
              up[k].id = w.id => \/ Head(up).id = w.id
                                 \/ \E j \in DOMAIN Tail(up) : Tail(up)[j].id = w.id
<1>1. /\ up \in Seq(Requests) /\ Len(up) \in Nat /\ Asked(up)
      /\ \A k \in DOMAIN up : k \in Nat /\ up[k] \in Requests
  BY Facts DEF ClientInv, Numbered
<1>2. PICK t : t = Tail(up)
  OBVIOUS
<1>3. /\ t \in Seq(Requests) /\ Len(t) = Len(up) - 1 /\ 1 \in DOMAIN up /\ Head(up) = up[1]
      /\ \A k \in DOMAIN t : k \in Nat /\ k + 1 \in DOMAIN up /\ t[k] = up[k + 1]
      /\ \A k \in DOMAIN up : k = 1 \/ (k - 1 \in DOMAIN t /\ t[k - 1] = up[k])
  BY <1>1, <1>2, TailIs
<1>4. Asked(t)
  BY <1>1, <1>3 DEF Asked
<1>5. up[1].call \in 0 .. MaxCreates
  BY <1>1, <1>3 DEF Requests
<1>6. IsCreate(Head(up)) => Head(up).call \in Calls /\ Head(up).id = 0
  BY <1>1, <1>3, <1>5, Consts DEF Asked
<1>7. ASSUME ~raced
       PROVE  \A k \in DOMAIN up : IsCreate(up[k]) => k = Len(up) /\ up[k].call = calls
  BY <1>7 DEF ClientInv, InTurn
<1>8. ASSUME ~raced, NEW k \in DOMAIN t, IsCreate(t[k])
       PROVE  k = Len(t) /\ t[k].call = calls /\ ~IsCreate(Head(up))
  <2>1. k \in Nat /\ k >= 1 /\ k + 1 \in DOMAIN up /\ t[k] = up[k + 1]
    BY <1>3
  <2>2. k + 1 = Len(up) /\ up[k + 1].call = calls
    BY <1>7, <1>8, <2>1
  <2>3. IsCreate(Head(up)) => 1 = Len(up)
    BY <1>3, <1>7, <1>8
  <2>4. QED
    BY <1>1, <1>3, <2>1, <2>2, <2>3
<1>9. ~raced /\ IsCreate(Head(up)) => Head(up).call = calls
  BY <1>3, <1>7
<1>10. NoRequest => \A k \in DOMAIN t : ~IsCreate(t[k])
  BY <1>3 DEF NoRequest
<1>11. \A w \in windows, k \in DOMAIN up :
         up[k].id = w.id => Head(up).id = w.id \/ \E j \in DOMAIN t : t[j].id = w.id
  BY <1>3
<1>12. QED
  BY <1>2, <1>3, <1>4, <1>6, <1>8, <1>9, <1>10, <1>11

(* A refused creation, full table or failure of shm_create, keeps the invariant. *)
LEMMA RefusedKeeps ==
  ASSUME ClientInv, up # <<>>, up' = Tail(up), IsCreate(Head(up)), Room(CloseMsg),
         down' = down \o CloseMsg,
         UNCHANGED <<alive, windows, next_id, handles, calls, lib, need, raced, misread>>
  PROVE  ClientInv'
<1>1. PICK m : m = CloseMsg
  OBVIOUS
<1>2. Message(m) /\ \A k \in DOMAIN m : m[k].type = MSG_WINDOW_CLOSE /\ m[k].fd = 0
  BY <1>1, CloseIs
<1>3. Room(m) /\ down' = down \o m
  BY <1>1
<1>4. /\ down' \in Seq(Words) /\ Len(down') <= DownCap /\ Chain(down')
      /\ \A k \in DOMAIN down : k \in DOMAIN down' /\ down'[k] = down[k]
      /\ (down # <<>> => down[1].pos = 1) => down'[1].pos = 1
  BY <1>2, <1>3, SentStream
<1>5. \A k \in DOMAIN down' :
        \/ k \in DOMAIN down /\ down'[k] = down[k]
        \/ k - down'[k].pos = Len(down) /\ down'[k].fd = 0
  <2>1. \A k \in DOMAIN down' :
          \/ k \in DOMAIN down /\ down'[k] = down[k]
          \/ k - down'[k].pos = Len(down) /\ \E j \in DOMAIN m : down'[k] = m[j]
    BY <1>2, <1>3, SentStream
  <2>2. QED
    BY <1>2, <2>1
<1>6. /\ up' \in Seq(Requests) /\ Asked(up')
      /\ ~raced => \A k \in DOMAIN up' : ~IsCreate(up'[k])
      /\ \A w \in windows, k \in DOMAIN up :
           up[k].id = w.id => Head(up).id = w.id \/ \E j \in DOMAIN up' : up'[j].id = w.id
      /\ Head(up).id = 0
  BY ServedUp
<1>7. next_id \in Nat /\ next_id >= 1
  BY Facts
<1>8. Shapes' /\ Flags'
  BY <1>4, <1>6 DEF ClientInv, Shapes, Flags
<1>9. Numbered'
  <2>1. \A k \in DOMAIN down' : down'[k].fd < next_id
    BY <1>5, <1>7 DEF ClientInv, Numbered
  <2>2. QED
    BY <1>6, <2>1 DEF ClientInv, Numbered
<1>10. BufferMatches'
  BY DEF ClientInv, BufferMatches
<1>11. 1 \in DOMAIN up /\ Head(up) = up[1]
  BY Facts, TailIs
<1>12. InTurn'
  <2>1. SUFFICES ASSUME ~raced PROVE InTurn'
    BY DEF InTurn
  <2>2. ~NoRequest
    BY <1>11 DEF NoRequest
  <2>3. NoReply /\ lib # "poll" /\ (down # <<>> => down[1].pos = 1) /\ lib # "idle"
    BY <2>1, <2>2 DEF ClientInv, InTurn
  <2>4. \A k \in DOMAIN down' : Reply(k)' => k - down'[k].pos = Len(down)
    BY <1>5, <2>3 DEF NoReply, Reply
  <2>5. OneReply'
    BY <2>4 DEF OneReply
  <2>6. NoRequest'
    BY <1>6, <2>1 DEF NoRequest
  <2>7. QED
    BY <1>4, <2>3, <2>5, <2>6 DEF InTurn, NoRequest
<1>13. Agreed'
  <2>1. SUFFICES ASSUME ~raced PROVE Agreed'
    BY DEF Agreed
  <2>2. \A k \in DOMAIN down', w \in windows : down'[k].fd = w.id => w.call = calls
    BY <1>5, <2>1, Facts DEF ClientInv, Agreed
  <2>3. \A w \in windows :
          (\E k \in DOMAIN down : down[k].fd = w.id) => \E k \in DOMAIN down' : down'[k].fd = w.id
    BY <1>4
  <2>4. \A w \in windows :
          (\E k \in DOMAIN up : up[k].id = w.id) => \E k \in DOMAIN up' : up'[k].id = w.id
    BY <1>6, Facts
  <2>5. QED
    BY <2>1, <2>2, <2>3, <2>4 DEF ClientInv, Agreed
<1>14. Stopped'
  BY DEF ClientInv, Stopped
<1>15. QED
  BY <1>4, <1>8, <1>9, <1>10, <1>12, <1>13, <1>14 DEF ClientInv

(* A creation that is answered keeps the invariant. *)
LEMMA CreatedKeeps ==
  ASSUME ClientInv, up # <<>>, up' = Tail(up), IsCreate(Head(up)),
         NEW i \in WindowIds, NEW n \in FdNumbers, i >= next_id, Room(CreatedMsg(i, n)),
         down' = down \o CreatedMsg(i, n), next_id' = i + 1,
         windows' = windows \cup {[id |-> i, call |-> Head(up).call]},
         UNCHANGED <<alive, handles, calls, lib, need, raced, misread>>
  PROVE  ClientInv'
<1>1. /\ up' \in Seq(Requests) /\ Asked(up')
      /\ ~raced => \A k \in DOMAIN up' : ~IsCreate(up'[k])
      /\ \A w \in windows, k \in DOMAIN up :
           up[k].id = w.id => Head(up).id = w.id \/ \E j \in DOMAIN up' : up'[j].id = w.id
      /\ Head(up).id = 0 /\ Head(up).call \in Calls
      /\ ~raced => Head(up).call = calls
  BY ServedUp
<1>2. PICK m : m = CreatedMsg(i, n)
  OBVIOUS
<1>3. /\ Message(m) /\ \A k \in DOMAIN m : m[k].type = MSG_WINDOW_CREATED /\ m[k].fd \in {0, i}
      /\ 1 \in DOMAIN m /\ m[1].fd = i
  BY <1>1, <1>2, CreatedIs
<1>4. Room(m) /\ down' = down \o m
  BY <1>2
<1>5. /\ down' \in Seq(Words) /\ Len(down') <= DownCap /\ Chain(down')
      /\ \A k \in DOMAIN down : k \in DOMAIN down' /\ down'[k] = down[k]
      /\ (down # <<>> => down[1].pos = 1) => down'[1].pos = 1
      /\ \E k \in DOMAIN down' : down'[k].fd = i
  <2>1. /\ down' \in Seq(Words) /\ Len(down') <= DownCap /\ Chain(down')
        /\ \A k \in DOMAIN down : k \in DOMAIN down' /\ down'[k] = down[k]
        /\ (down # <<>> => down[1].pos = 1) => down'[1].pos = 1
        /\ \A j \in DOMAIN m : \E k \in DOMAIN down' : down'[k] = m[j]
    BY <1>3, <1>4, SentStream
  <2>2. \E k \in DOMAIN down' : down'[k] = m[1]
    BY <1>3, <2>1
  <2>3. QED
    BY <1>3, <2>1, <2>2
<1>6. \A k \in DOMAIN down' :
        \/ k \in DOMAIN down /\ down'[k] = down[k]
        \/ k - down'[k].pos = Len(down) /\ down'[k].fd \in {0, i}
  <2>1. \A k \in DOMAIN down' :
          \/ k \in DOMAIN down /\ down'[k] = down[k]
          \/ k - down'[k].pos = Len(down) /\ \E j \in DOMAIN m : down'[k] = m[j]
    BY <1>3, <1>4, SentStream
  <2>2. QED
    BY <1>3, <2>1
<1>7. i \in Nat /\ i >= 1 /\ next_id \in Nat /\ next_id <= i
  BY Consts, Facts
<1>8. PICK v : v = [id |-> i, call |-> Head(up).call]
  OBVIOUS
<1>9. v \in [id: WindowIds, call: Calls] /\ v.id = i /\ v.call = Head(up).call /\ windows' = windows \cup {v}
  BY <1>1, <1>7, <1>8
<1>10. Shapes' /\ Flags'
  <2>1. next_id' \in Nat \ {0}
    BY <1>7
  <2>2. QED
    BY <1>1, <1>5, <1>9, <2>1 DEF ClientInv, Shapes, Flags
<1>11. /\ \A w \in windows : w.id \in Nat /\ w.id < i
       /\ \A h \in handles : h.fd \in Nat /\ h.fd < i
       /\ \A k \in DOMAIN down : down[k].fd \in Nat /\ down[k].fd < i
  BY <1>7, Facts, WordFacts DEF ClientInv, Numbered
<1>12. Numbered'
  <2>1. \A w \in windows' : w.id < next_id'
    BY <1>7, <1>9, <1>11
  <2>2. \A h \in handles' : h.fd < next_id'
    BY <1>7, <1>11
  <2>3. \A k \in DOMAIN down' : down'[k].fd < next_id'
    <3>1. next_id' = i + 1
      OBVIOUS
    <3>2. SUFFICES ASSUME NEW k \in DOMAIN down' PROVE down'[k].fd < i + 1
      BY <3>1
    <3>3. CASE k \in DOMAIN down /\ down'[k] = down[k]
      <4>1. down[k].fd \in Nat /\ down[k].fd < i
        BY <1>11, <3>3
      <4>2. QED
        BY <1>7, <3>3, <4>1
    <3>4. CASE down'[k].fd \in {0, i}
      BY <1>7, <3>4
    <3>5. QED
      BY <1>6, <3>2, <3>3, <3>4
  <2>4. QED
    BY <1>1, <2>1, <2>2, <2>3 DEF Numbered
<1>13. BufferMatches'
  BY DEF ClientInv, BufferMatches
<1>14. 1 \in DOMAIN up /\ Head(up) = up[1]
  BY Facts, TailIs
<1>15. InTurn'
  <2>1. SUFFICES ASSUME ~raced PROVE InTurn'
    BY DEF InTurn
  <2>2. ~NoRequest
    BY <1>14 DEF NoRequest
  <2>3. NoReply /\ lib # "poll" /\ (down # <<>> => down[1].pos = 1) /\ lib # "idle"
    BY <2>1, <2>2 DEF ClientInv, InTurn
  <2>4. \A k \in DOMAIN down' : Reply(k)' => k - down'[k].pos = Len(down)
    BY <1>6, <2>3 DEF NoReply, Reply
  <2>5. OneReply'
    BY <2>4 DEF OneReply
  <2>6. NoRequest'
    BY <1>1, <2>1 DEF NoRequest
  <2>7. QED
    BY <1>5, <2>3, <2>5, <2>6 DEF InTurn, NoRequest
<1>16. Agreed'
  <2>1. SUFFICES ASSUME ~raced PROVE Agreed'
    BY DEF Agreed
  <2>2. ASSUME NEW k \in DOMAIN down', NEW w \in windows', down'[k].fd = w.id PROVE w.call = calls
    <3>1. CASE w = v
      BY <1>1, <1>9, <2>1, <3>1
    <3>2. CASE w # v
      <4>1. w \in windows /\ w.id # i /\ w.id # 0
        BY <1>9, <1>11, <3>2, Facts
      <4>2. k \in DOMAIN down /\ down'[k] = down[k]
        BY <1>6, <2>2, <4>1
      <4>3. QED
        BY <2>1, <2>2, <4>1, <4>2 DEF ClientInv, Agreed
    <3>3. QED
      BY <3>1, <3>2
  <2>3. ASSUME NEW h \in handles', NEW w \in windows', h.id = w.id PROVE h.call = w.call
    <3>1. w \in windows
      <4>1. h.id = h.fd
        BY <2>1, <2>3 DEF ClientInv, BufferMatches
      <4>2. h.id # i
        BY <1>7, <1>11, <2>3, <4>1
      <4>3. QED
        BY <1>9, <2>3, <4>2
    <3>2. QED
      BY <2>1, <2>3, <3>1 DEF ClientInv, Agreed
  <2>4. ASSUME alive', NEW w \in windows'
        PROVE  \/ \E h \in handles' : h.id = w.id
               \/ \E k \in DOMAIN up' : up'[k].id = w.id
               \/ \E k \in DOMAIN down' : down'[k].fd = w.id
    <3>1. CASE w = v
      BY <1>5, <1>9, <3>1
    <3>2. CASE w # v
      <4>1. w \in windows /\ w.id # 0
        BY <1>9, <3>2, Facts
      <4>2. \/ \E h \in handles : h.id = w.id
            \/ \E k \in DOMAIN up : up[k].id = w.id
            \/ \E k \in DOMAIN down : down[k].fd = w.id
        BY <2>1, <2>4, <4>1 DEF ClientInv, Agreed
      <4>3. (\E k \in DOMAIN down : down[k].fd = w.id) => \E k \in DOMAIN down' : down'[k].fd = w.id
        BY <1>5
      <4>4. (\E k \in DOMAIN up : up[k].id = w.id) => \E k \in DOMAIN up' : up'[k].id = w.id
        BY <1>1, <4>1
      <4>5. QED
        BY <4>2, <4>3, <4>4
    <3>3. QED
      BY <3>1, <3>2
  <2>5. QED
    BY <2>2, <2>3, <2>4 DEF Agreed
<1>17. Stopped'
  BY DEF ClientInv, Stopped
<1>18. QED
  BY <1>5, <1>10, <1>12, <1>13, <1>15, <1>16, <1>17 DEF ClientInv

(* A window destroyed on request keeps the invariant. *)
LEMMA DestroyKeeps ==
  ASSUME ClientInv, up # <<>>, up' = Tail(up), ~IsCreate(Head(up)), ServeDestroy,
         UNCHANGED <<alive, handles, calls, lib, need, raced, misread>>
  PROVE  ClientInv'
<1>1. windows' = {w \in windows : w.id # Head(up).id} /\ UNCHANGED <<next_id, down>>
  BY DEF ServeDestroy
<1>2. /\ up' \in Seq(Requests) /\ Asked(up')
      /\ ~raced => \A k \in DOMAIN up' :
                     IsCreate(up'[k]) => k = Len(up') /\ up'[k].call = calls
      /\ NoRequest => \A k \in DOMAIN up' : ~IsCreate(up'[k])
      /\ \A w \in windows, k \in DOMAIN up :
           up[k].id = w.id => Head(up).id = w.id \/ \E j \in DOMAIN up' : up'[j].id = w.id
  BY ServedUp
<1>3. Shapes' /\ Flags'
  BY <1>1, <1>2 DEF ClientInv, Shapes, Flags
<1>4. Numbered'
  BY <1>1, <1>2 DEF ClientInv, Numbered
<1>5. BufferMatches' /\ Chain(down')
  BY <1>1 DEF ClientInv, BufferMatches
<1>6. InTurn'
  <2>1. SUFFICES ASSUME ~raced PROVE InTurn'
    BY DEF InTurn
  <2>2. (OneReply' <=> OneReply) /\ (NoReply' <=> NoReply) /\ (NoRequest => NoRequest')
    BY <1>1, <1>2 DEF OneReply, NoReply, NoRequest, Reply
  <2>3. QED
    BY <1>1, <1>2, <2>1, <2>2 DEF ClientInv, InTurn
<1>7. Agreed'
  <2>1. SUFFICES ASSUME ~raced PROVE Agreed'
    BY DEF Agreed
  <2>2. \A w \in windows' : w \in windows /\ w.id # Head(up).id
    BY <1>1
  <2>3. \A w \in windows' :
          (\E k \in DOMAIN up : up[k].id = w.id) => \E k \in DOMAIN up' : up'[k].id = w.id
    BY <1>2, <2>2
  <2>4. QED
    BY <1>1, <2>1, <2>2, <2>3 DEF ClientInv, Agreed
<1>8. Stopped'
  BY DEF ClientInv, Stopped
<1>9. QED
  BY <1>3, <1>4, <1>5, <1>6, <1>7, <1>8 DEF ClientInv

(* The server taking one request keeps the invariant. *)
LEMMA ServeKeeps ==
  ASSUME ClientInv, handle_client_message
  PROVE  ClientInv'
<1>1. /\ up # <<>> /\ up' = Tail(up) /\ UNCHANGED <<alive, handles, calls, lib, need, raced, misread>>
      /\ \/ IsCreate(Head(up)) /\ ServeCreate
         \/ Head(up).type = "MSG_DESTROY_WINDOW" /\ ServeDestroy
  BY DEF handle_client_message, IsCreate
<1>2. CASE IsCreate(Head(up)) /\ ServeCreate
  <2>1. CASE Room(CloseMsg) /\ down' = down \o CloseMsg /\ UNCHANGED serverVars
    BY <1>1, <1>2, <2>1, RefusedKeeps DEF serverVars
  <2>2. ASSUME NEW i \in WindowIds, NEW n \in FdNumbers, i >= next_id, Room(CreatedMsg(i, n)),
               down' = down \o CreatedMsg(i, n),
               windows' = windows \cup {[id |-> i, call |-> Head(up).call]}, next_id' = i + 1
        PROVE  ClientInv'
    BY <1>1, <1>2, <2>2, CreatedKeeps
  <2>3. QED
    BY <1>2, <2>1, <2>2 DEF ServeCreate
<1>3. CASE Head(up).type = "MSG_DESTROY_WINDOW" /\ ServeDestroy
  <2>1. ~IsCreate(Head(up))
    BY <1>3 DEF IsCreate
  <2>2. QED
    BY <1>1, <1>3, <2>1, DestroyKeeps
<1>4. QED
  BY <1>1, <1>2, <1>3

(* The exit of the server keeps the invariant. *)
LEMMA ExitKeeps ==
  ASSUME ClientInv, Exit
  PROVE  ClientInv'
<1>1. up' = <<>> /\ UNCHANGED <<down, windows, next_id, handles, calls, lib, need, raced, misread>>
  BY DEF Exit, serverVars
<1>2. up' \in Seq(Requests) /\ DOMAIN up' = {}
  BY <1>1
<1>3. alive' = FALSE
  BY DEF Exit
<1>4. Flags'
  BY <1>1, <1>3, Zenon DEF ClientInv, Flags
<1>5. Shapes' /\ Numbered' /\ BufferMatches' /\ Chain(down')
  BY <1>1, <1>2 DEF ClientInv, Shapes, Numbered, Asked, BufferMatches
<1>6. NoRequest' /\ (OneReply' <=> OneReply) /\ (NoReply' <=> NoReply)
  BY <1>1, <1>2 DEF NoRequest, OneReply, NoReply, Reply
<1>7. InTurn'
  BY <1>1, <1>2, <1>6 DEF ClientInv, InTurn
<1>8. Agreed'
  BY <1>1, <1>3 DEF ClientInv, Agreed
<1>9. Stopped'
  BY <1>1 DEF Stopped
<1>10. QED
  BY <1>4, <1>5, <1>7, <1>8, <1>9 DEF ClientInv
-----------------------------------------------------------------------------
(* The client's steps. *)

(* The request half of window_create keeps the invariant. *)
LEMMA CreateCallKeeps ==
  ASSUME ClientInv, CreateCall
  PROVE  ClientInv'
<1>1. /\ lib = "idle" /\ calls < MaxCreates /\ calls' = calls + 1
      /\ UNCHANGED <<down, alive, windows, next_id, handles, need, raced, misread>>
      /\ \/ /\ lib' = "create"
            /\ up' = Append(up, [type |-> "MSG_CREATE_WINDOW", id |-> 0, call |-> calls'])
         \/ UNCHANGED <<up, lib>>
  BY DEF CreateCall, serverVars
<1>2. PICK r : r = [type |-> "MSG_CREATE_WINDOW", id |-> 0, call |-> calls + 1]
  OBVIOUS
<1>3. /\ calls \in Nat /\ calls + 1 \in 0 .. MaxCreates
      /\ up \in Seq(Requests) /\ Len(up) \in Nat
      /\ \A k \in DOMAIN up : k \in Nat /\ up[k].call \in Nat
  BY <1>1, Facts, Consts
<1>4. r \in Requests /\ IsCreate(r) /\ r.id = 0 /\ r.call = calls + 1
  BY <1>2, <1>3, Consts DEF Requests, IsCreate
<1>5. \/ lib' = "create" /\ up' = Append(up, r)
      \/ UNCHANGED <<up, lib>>
  BY <1>1, <1>2
<1>6. /\ up' \in Seq(Requests) /\ Len(up') \in {Len(up), Len(up) + 1}
      /\ \A k \in DOMAIN up : k \in DOMAIN up' /\ up'[k] = up[k] /\ k <= Len(up)
      /\ \A k \in DOMAIN up' :
           \/ k \in DOMAIN up
           \/ k = Len(up) + 1 /\ up'[k] = r /\ Len(up') = Len(up) + 1 /\ lib' = "create"
  <2>1. CASE UNCHANGED <<up, lib>>
    BY <1>3, <2>1
  <2>2. CASE lib' = "create" /\ up' = Append(up, r)
    <3>1. /\ Append(up, r) \in Seq(Requests) /\ Len(Append(up, r)) = Len(up) + 1
          /\ \A k \in DOMAIN up : /\ k \in DOMAIN Append(up, r) /\ Append(up, r)[k] = up[k]
                                  /\ k <= Len(up)
          /\ Append(up, r)[Len(up) + 1] = r
          /\ \A k \in DOMAIN Append(up, r) : k \in DOMAIN up \/ k = Len(up) + 1
      BY <1>3, <1>4, AppendIs
    <3>2. QED
      BY <2>2, <3>1
  <2>3. QED
    BY <1>5, <2>1, <2>2
<1>7. Shapes' /\ Flags'
  <2>1. calls' # 0 /\ lib' \in {"idle", "create", "poll"}
    BY <1>1, <1>3
  <2>2. QED
    BY <1>1, <1>3, <1>6, <2>1 DEF ClientInv, Shapes, Flags
<1>8. Numbered'
  <2>1. \A k \in DOMAIN up' : (k \in DOMAIN up /\ up'[k] = up[k]) \/ up'[k] = r
    BY <1>6
  <2>2. r.call # 0
    BY <1>3, <1>4
  <2>3. Asked(up')
    BY <1>4, <2>1, <2>2 DEF ClientInv, Numbered, Asked
  <2>4. QED
    BY <1>1, <2>3 DEF ClientInv, Numbered
<1>9. BufferMatches' /\ Chain(down')
  BY <1>1 DEF ClientInv, BufferMatches
<1>10. InTurn' /\ Agreed'
  <2>1. SUFFICES ASSUME ~raced PROVE InTurn' /\ Agreed'
    BY <1>1 DEF InTurn, Agreed
  <2>2. NoRequest /\ NoReply /\ (down # <<>> => down[1].pos = 1) /\ OneReply
    BY <1>1, <2>1 DEF ClientInv, InTurn
  <2>3. \A k \in DOMAIN up' : IsCreate(up'[k]) => k = Len(up') /\ up'[k].call = calls' /\ lib' = "create"
    BY <1>1, <1>4, <1>6, <2>2 DEF NoRequest
  <2>4. NoReply' /\ OneReply' /\ lib' # "poll"
    BY <1>1, <2>2 DEF NoReply, OneReply, Reply
  <2>5. lib' = "idle" => NoRequest'
    BY <2>3 DEF NoRequest
  <2>6. InTurn'
    BY <1>1, <2>2, <2>3, <2>4, <2>5 DEF InTurn
  <2>7. \A k \in DOMAIN down : down[k].fd = 0
    BY <2>2, Facts, WordFacts DEF NoReply, Reply, MSG_WINDOW_CREATED, MSG_KEY_EVENT
  <2>8. \A k \in DOMAIN down', w \in windows' : down'[k].fd # w.id
    BY <1>1, <2>7, Facts
  <2>9. \A w \in windows :
          (\E k \in DOMAIN up : up[k].id = w.id) => \E k \in DOMAIN up' : up'[k].id = w.id
    BY <1>6
  <2>10. Agreed'
    BY <1>1, <2>1, <2>8, <2>9 DEF ClientInv, Agreed
  <2>11. QED
    BY <2>6, <2>10
<1>11. Stopped'
  BY DEF ClientInv, Stopped, CreateCall
<1>12. QED
  BY <1>7, <1>8, <1>9, <1>10, <1>11 DEF ClientInv

(* window_destroy in the library keeps the invariant. *)
LEMMA DestroyCallKeeps ==
  ASSUME ClientInv, window_destroy
  PROVE  ClientInv'
<1>1. PICK h \in handles :
        /\ handles' = handles \ {h}
        /\ up' = IF alive
                 THEN Append(up, [type |-> "MSG_DESTROY_WINDOW", id |-> h.id, call |-> 0])
                 ELSE up
  BY DEF window_destroy
<1>2. lib = "idle" /\ UNCHANGED <<down, alive, windows, next_id, calls, lib, need, raced, misread>>
  BY DEF window_destroy, serverVars
<1>3. PICK r : r = [type |-> "MSG_DESTROY_WINDOW", id |-> h.id, call |-> 0]
  OBVIOUS
<1>4. h.id \in Nat /\ up \in Seq(Requests) /\ Len(up) \in Nat
  BY Facts
<1>5. r \in Requests /\ ~IsCreate(r) /\ r.id = h.id
  BY <1>3, <1>4, Consts DEF Requests, IsCreate
<1>6. /\ up' \in Seq(Requests)
      /\ \A k \in DOMAIN up : k \in DOMAIN up' /\ up'[k] = up[k]
      /\ \A k \in DOMAIN up' : k \in DOMAIN up \/ up'[k] = r
      /\ alive => \E k \in DOMAIN up' : up'[k] = r
  <2>1. CASE ~alive
    BY <1>1, <1>4, <2>1
  <2>2. CASE alive
    <3>1. up' = Append(up, r)
      BY <1>1, <1>3, <2>2
    <3>2. /\ Append(up, r) \in Seq(Requests)
          /\ \A k \in DOMAIN up : k \in DOMAIN Append(up, r) /\ Append(up, r)[k] = up[k]
          /\ Len(up) + 1 \in DOMAIN Append(up, r) /\ Append(up, r)[Len(up) + 1] = r
          /\ \A k \in DOMAIN Append(up, r) : k \in DOMAIN up \/ k = Len(up) + 1
      BY <1>4, <1>5, AppendIs
    <3>3. QED
      BY <3>1, <3>2
  <2>3. QED
    BY <2>1, <2>2
<1>7. \A k \in DOMAIN up' : IsCreate(up'[k]) => k \in DOMAIN up /\ up'[k] = up[k]
  BY <1>5, <1>6
<1>8. Shapes' /\ Flags'
  BY <1>1, <1>2, <1>6 DEF ClientInv, Shapes, Flags
<1>9. Numbered'
  <2>1. Asked(up')
    BY <1>7 DEF ClientInv, Numbered, Asked
  <2>2. \A g \in handles' : g.fd < next_id
    BY <1>1 DEF ClientInv, Numbered
  <2>3. QED
    BY <1>2, <2>1, <2>2 DEF ClientInv, Numbered
<1>10. BufferMatches' /\ Chain(down')
  BY <1>1, <1>2 DEF ClientInv, BufferMatches
<1>11. InTurn' /\ Agreed'
  <2>1. SUFFICES ASSUME ~raced PROVE InTurn' /\ Agreed'
    BY <1>2 DEF InTurn, Agreed
  <2>2. NoRequest /\ NoReply /\ (down # <<>> => down[1].pos = 1) /\ OneReply
    BY <1>2, <2>1 DEF ClientInv, InTurn
  <2>3. NoRequest' /\ \A k \in DOMAIN up' : ~IsCreate(up'[k])
    BY <1>7, <2>2 DEF NoRequest
  <2>4. NoReply' /\ OneReply'
    BY <1>2, <2>2 DEF NoReply, OneReply, Reply
  <2>5. InTurn'
    BY <1>2, <2>2, <2>3, <2>4 DEF InTurn
  <2>6. ASSUME alive, NEW w \in windows
        PROVE  \/ \E g \in handles' : g.id = w.id
               \/ \E k \in DOMAIN up' : up'[k].id = w.id
               \/ \E k \in DOMAIN down : down[k].fd = w.id
    <3>1. \/ \E g \in handles : g.id = w.id
          \/ \E k \in DOMAIN up : up[k].id = w.id
          \/ \E k \in DOMAIN down : down[k].fd = w.id
      BY <2>1, <2>6 DEF ClientInv, Agreed
    <3>2. CASE h.id = w.id
      BY <1>5, <1>6, <2>6, <3>2
    <3>3. CASE h.id # w.id
      <4>1. (\E g \in handles : g.id = w.id) => \E g \in handles' : g.id = w.id
        BY <1>1, <3>3
      <4>2. (\E k \in DOMAIN up : up[k].id = w.id) => \E k \in DOMAIN up' : up'[k].id = w.id
        BY <1>6
      <4>3. QED
        BY <3>1, <4>1, <4>2
    <3>4. QED
      BY <3>2, <3>3
  <2>7. /\ \A g \in handles', w \in windows : g.id = w.id => g.call = w.call
        /\ \A k \in DOMAIN down, w \in windows : down[k].fd = w.id => w.call = calls
    BY <1>1, <2>1 DEF ClientInv, Agreed
  <2>8. Agreed'
    BY <1>2, <2>6, <2>7 DEF Agreed
  <2>9. QED
    BY <2>5, <2>8
<1>12. Stopped'
  BY <1>1, <1>2 DEF ClientInv, Stopped
<1>13. QED
  BY <1>8, <1>9, <1>10, <1>11, <1>12 DEF ClientInv

(* Words are taken from the front. *)
LEMMA ReadStream ==
  ASSUME ClientInv, NEW n \in Nat, down' = SubSeq(down, n + 1, Len(down))
  PROVE  /\ down' \in Seq(Words) /\ Len(down') <= DownCap /\ Chain(down')
         /\ \A k \in DOMAIN down' :
              /\ k \in Nat /\ k >= 1 /\ k + n \in DOMAIN down /\ down'[k] = down[k + n]
              /\ down'[k].fd < next_id
         /\ down' # <<>> => n + 1 \in DOMAIN down /\ down'[1] = down[n + 1]
<1>1. down \in Seq(Words) /\ Len(down) \in Nat /\ Len(down) <= DownCap /\ Chain(down)
  BY Facts
<1>2. PICK d : d = SubSeq(down, n + 1, Len(down))
  OBVIOUS
<1>3. /\ d \in Seq(Words) /\ Len(d) = IF n < Len(down) THEN Len(down) - n ELSE 0
      /\ \A k \in DOMAIN d : k \in Nat /\ k >= 1 /\ k + n \in DOMAIN down /\ d[k] = down[k + n]
  BY <1>1, <1>2, DropIs
<1>4. Chain(d)
  BY <1>1, <1>2, ChainDrop
<1>5. Len(d) <= DownCap
  BY <1>1, <1>3, Consts
<1>6. \A k \in DOMAIN d : d[k].fd < next_id
  BY <1>3 DEF ClientInv, Numbered
<1>7. d # <<>> => n + 1 \in DOMAIN down /\ d[1] = down[n + 1]
  <2>1. SUFFICES ASSUME d # <<>> PROVE n + 1 \in DOMAIN down /\ d[1] = down[n + 1]
    OBVIOUS
  <2>2. 1 \in DOMAIN d
    BY <1>3, <2>1
  <2>3. 1 + n = n + 1
    OBVIOUS
  <2>4. QED
    BY <1>3, <2>2, <2>3
<1>8. QED
  BY <1>2, <1>3, <1>4, <1>5, <1>6, <1>7

(* The word behind one that does not end its message is the next of the same message. *)
LEMMA NextWord ==
  ASSUME ClientInv, NEW k \in DOMAIN down
  PROVE  /\ ~Ends(down[k]) => /\ k + 1 \in DOMAIN down /\ down[k + 1].type = down[k].type
                              /\ down[k + 1].pos = down[k].pos + 1
                              /\ down[k].fd # 0 => down[k + 1].val = down[k].fd
         /\ Ends(down[k]) /\ k + 1 \in DOMAIN down => down[k + 1].pos = 1
<1>1. down \in Seq(Words) /\ Len(down) \in Nat /\ k \in Nat /\ DOMAIN down = 1 .. Len(down)
  BY Facts
<1>2. IF k = Len(down) THEN Ends(down[k]) ELSE Follows(down[k], down[k + 1])
  BY DEF ClientInv, Chain
<1>3. k = Len(down) => k + 1 \notin DOMAIN down
  BY <1>1
<1>4. k # Len(down) => k + 1 \in DOMAIN down
  BY <1>1
<1>5. QED
  BY <1>2, <1>3, <1>4 DEF Follows

(* A reply at the front is whole, and so is a key event. *)
LEMMA CreatedFront ==
  ASSUME ClientInv, down # <<>>, down[1].type = MSG_WINDOW_CREATED, down[1].pos = 1
  PROVE  /\ 1 \in DOMAIN down /\ 2 \in DOMAIN down /\ 3 \in DOMAIN down
         /\ down[1].fd \in WindowIds /\ down[1].val = MSG_WINDOW_CREATED
         /\ down[2].val = down[1].fd /\ down[2].fd = 0 /\ down[3].fd = 0
         /\ 3 + 1 \in DOMAIN down => down[3 + 1].pos = 1
<1>1. /\ 1 \in DOMAIN down
      /\ \A k \in DOMAIN down : down[k] \in Words /\ WordOk(down[k])
  <2>1. down \in Seq(Words) /\ \A k \in DOMAIN down : down[k] \in Words /\ WordOk(down[k])
    BY Facts
  <2>2. QED
    BY <2>1
<1>2. WordsOf(MSG_WINDOW_CREATED) = 3
  BY WordsOfIs
<1>3. down[1].fd \in WindowIds /\ down[1].val = MSG_WINDOW_CREATED /\ down[1].fd # 0
  <2>1. WordOk(down[1])
    BY <1>1
  <2>2. down[1].fd \in WindowIds /\ down[1].val = MSG_WINDOW_CREATED
    BY <2>1 DEF WordOk, MSG_WINDOW_CREATED, MSG_WINDOW_CLOSE, MSG_KEY_EVENT
  <2>3. QED
    BY <2>2, Consts
<1>4. /\ 2 \in DOMAIN down /\ down[2].type = MSG_WINDOW_CREATED /\ down[2].pos = 2
      /\ down[2].val = down[1].fd
  <2>1. ~Ends(down[1])
    BY <1>2 DEF Ends
  <2>2. PICK k : k = 1
    OBVIOUS
  <2>3. /\ k + 1 \in DOMAIN down /\ down[k + 1].type = down[k].type
        /\ down[k + 1].pos = down[k].pos + 1 /\ down[k + 1].val = down[k].fd
    BY <1>1, <1>3, <2>1, <2>2, NextWord
  <2>4. QED
    BY <2>2, <2>3
<1>5. 3 \in DOMAIN down /\ down[3].type = MSG_WINDOW_CREATED /\ down[3].pos = 3
  <2>1. ~Ends(down[2])
    BY <1>2, <1>4 DEF Ends
  <2>2. PICK k : k = 2
    OBVIOUS
  <2>3. /\ k + 1 \in DOMAIN down /\ down[k + 1].type = down[k].type
        /\ down[k + 1].pos = down[k].pos + 1
    BY <1>4, <2>1, <2>2, NextWord
  <2>4. QED
    BY <1>4, <2>2, <2>3
<1>6. Ends(down[3])
  BY <1>2, <1>5 DEF Ends
<1>7. 3 + 1 \in DOMAIN down => down[3 + 1].pos = 1
  <2>1. PICK k : k = 3
    OBVIOUS
  <2>2. k + 1 \in DOMAIN down => down[k + 1].pos = 1
    BY <1>5, <1>6, <2>1, NextWord
  <2>3. QED
    BY <2>1, <2>2
<1>8. down[2].fd = 0 /\ down[3].fd = 0
  <2>1. down[2] \in Words /\ WordOk(down[2]) /\ down[3] \in Words /\ WordOk(down[3])
    BY <1>1, <1>4, <1>5
  <2>2. QED
    BY <1>4, <1>5, <2>1, WordFacts
<1>9. QED
  BY <1>1, <1>3, <1>4, <1>5, <1>7, <1>8

(* k words on in the same key event. *)
LEMMA KeyOn ==
  ASSUME ClientInv, NEW k \in DOMAIN down, down[k].type = MSG_KEY_EVENT, down[k].pos # 6
  PROVE  /\ k + 1 \in DOMAIN down /\ down[k + 1].type = MSG_KEY_EVENT
         /\ down[k + 1].pos = down[k].pos + 1 /\ down[k + 1].fd = 0
<1>1. WordsOf(MSG_KEY_EVENT) = 6
  BY WordsOfIs
<1>2. ~Ends(down[k])
  BY <1>1 DEF Ends
<1>3. /\ k + 1 \in DOMAIN down /\ down[k + 1].type = MSG_KEY_EVENT
      /\ down[k + 1].pos = down[k].pos + 1
  BY <1>2, NextWord
<1>4. down[k + 1] \in Words /\ WordOk(down[k + 1])
  BY <1>3, Facts
<1>5. QED
  BY <1>3, <1>4, WordFacts DEF MSG_WINDOW_CREATED, MSG_KEY_EVENT

(* A key event at the front of the stream is there with all six words. *)
LEMMA KeyFront ==
  ASSUME ClientInv, down # <<>>, down[1].type = MSG_KEY_EVENT, down[1].pos = 1
  PROVE  /\ down[1].val = MSG_KEY_EVENT /\ 6 \in DOMAIN down
         /\ 6 + 1 \in DOMAIN down => down[6 + 1].pos = 1
<1>1. 1 \in DOMAIN down /\ WordOk(down[1])
  <2>1. down \in Seq(Words) /\ \A k \in DOMAIN down : WordOk(down[k])
    BY Facts
  <2>2. QED
    BY <2>1
<1>2. down[1].val = MSG_KEY_EVENT
  BY <1>1 DEF WordOk, MSG_WINDOW_CREATED, MSG_WINDOW_CLOSE, MSG_KEY_EVENT
<1>3. ASSUME NEW k \in DOMAIN down, k \in Nat, down[k].type = MSG_KEY_EVENT, down[k].pos = k, k # 6
      PROVE  k + 1 \in DOMAIN down /\ down[k + 1].type = MSG_KEY_EVENT /\ down[k + 1].pos = k + 1
  BY <1>3, KeyOn
<1>4. 2 \in DOMAIN down /\ down[2].type = MSG_KEY_EVENT /\ down[2].pos = 2
  BY <1>1, <1>3
<1>5. 3 \in DOMAIN down /\ down[3].type = MSG_KEY_EVENT /\ down[3].pos = 3
  BY <1>3, <1>4
<1>6. 4 \in DOMAIN down /\ down[4].type = MSG_KEY_EVENT /\ down[4].pos = 4
  <2>1. PICK k : k = 3
    OBVIOUS
  <2>2. k \in DOMAIN down /\ k \in Nat /\ down[k].type = MSG_KEY_EVENT /\ down[k].pos = k /\ k # 6
    BY <1>5, <2>1
  <2>3. k + 1 \in DOMAIN down /\ down[k + 1].type = MSG_KEY_EVENT /\ down[k + 1].pos = k + 1
    BY <1>3, <2>2
  <2>4. QED
    BY <2>1, <2>3
<1>7. 5 \in DOMAIN down /\ down[5].type = MSG_KEY_EVENT /\ down[5].pos = 5
  BY <1>3, <1>6
<1>8. 6 \in DOMAIN down /\ down[6].type = MSG_KEY_EVENT /\ down[6].pos = 6
  <2>1. PICK k : k = 5
    OBVIOUS
  <2>2. k \in DOMAIN down /\ k \in Nat /\ down[k].type = MSG_KEY_EVENT /\ down[k].pos = k /\ k # 6
    BY <1>7, <2>1
  <2>3. k + 1 \in DOMAIN down /\ down[k + 1].type = MSG_KEY_EVENT /\ down[k + 1].pos = k + 1
    BY <1>3, <2>2
  <2>4. QED
    BY <2>1, <2>3
<1>9. Ends(down[6])
  BY <1>8, WordsOfIs DEF Ends
<1>10. PICK k : k = 6
  OBVIOUS
<1>11. k + 1 \in DOMAIN down => down[k + 1].pos = 1
  BY <1>8, <1>9, <1>10, NextWord
<1>12. QED
  BY <1>2, <1>8, <1>10, <1>11

(* What is left of the stream after recv took up to n words. *)
LEMMA TakenIs ==
  ASSUME ClientInv, NEW n \in Nat, n >= 1
  PROVE  /\ Taken(n) \in Seq(Words)
         /\ Len(Taken(n)) = IF Len(down) < n THEN Len(down) ELSE n
         /\ \A k \in DOMAIN Taken(n) : k \in DOMAIN down /\ Taken(n)[k] = down[k] /\ k <= n
         /\ \A k \in DOMAIN down : k <= n => k \in DOMAIN Taken(n)
<1>1. down \in Seq(Words) /\ Len(down) \in Nat /\ DOMAIN down = 1 .. Len(down)
      /\ \A k \in DOMAIN down : down[k] \in Words
  BY Facts
<1>2. PICK l : l = IF Len(down) < n THEN Len(down) ELSE n
  OBVIOUS
<1>3. l \in Nat /\ l <= Len(down) /\ l <= n
  BY <1>1, <1>2
<1>4. Taken(n) = SubSeq(down, 1, l)
  BY <1>2 DEF Taken
<1>5. SubSeq(down, 1, l) = [k \in 1 .. l |-> down[k]]
  BY <1>1, <1>3
<1>6. \A k \in 1 .. l : k \in DOMAIN down
  BY <1>1, <1>3
<1>7. Taken(n) \in [1 .. l -> Words]
  BY <1>1, <1>4, <1>5, <1>6
<1>8. Taken(n) \in Seq(Words) /\ Len(Taken(n)) = l /\ DOMAIN Taken(n) = 1 .. l
  BY <1>3, <1>7
<1>9. \A k \in 1 .. l : Taken(n)[k] = down[k] /\ k <= n
  BY <1>3, <1>4, <1>5
<1>10. \A k \in DOMAIN down : k <= n => k \in 1 .. l
  <2>1. SUFFICES ASSUME NEW k \in 1 .. Len(down), k <= n PROVE k \in 1 .. l
    BY <1>1
  <2>2. k \in Nat /\ k >= 1 /\ k <= Len(down) /\ Len(down) \in Nat
    BY <1>1
  <2>3. k <= l
    BY <1>2, <2>1, <2>2
  <2>4. QED
    BY <1>3, <2>2, <2>3
<1>11. QED
  BY <1>2, <1>6, <1>8, <1>9, <1>10

(* What window_create makes of the words it took, in step or not. *)
FrontCreated == down # <<>> /\ down[1].type = MSG_WINDOW_CREATED /\ down[1].pos = 1

(* The handle window_create makes of a reply at the front of the stream, of a  *)
(* word inside a message that looks like one, or of anything else.             *)
LEMMA NewHandlesAre ==
  ASSUME ClientInv
  PROVE  /\ FrontCreated => NewHandles(Taken(3)) = {[id |-> down[1].fd, fd |-> down[1].fd, call |-> calls]}
         /\ ~FrontCreated /\ ~TypeFromInside => NewHandles(Taken(3)) = {}
         /\ calls # 0 => \A h \in NewHandles(Taken(3)) : h \in Handles /\ h.fd < next_id
         /\ FrontCreated => ~TypeFromInside
<1>1. PICK t : t = Taken(3)
  OBVIOUS
<1>2. /\ t \in Seq(Words) /\ Len(t) = IF Len(down) < 3 THEN Len(down) ELSE 3
      /\ \A k \in DOMAIN t : k \in DOMAIN down /\ t[k] = down[k] /\ k <= 3
      /\ \A k \in DOMAIN down : k <= 3 => k \in DOMAIN t
  <2>1. PICK n : n = 3
    OBVIOUS
  <2>2. n \in Nat /\ n >= 1 /\ t = Taken(n)
    BY <1>1, <2>1
  <2>3. /\ t \in Seq(Words) /\ Len(t) = IF Len(down) < n THEN Len(down) ELSE n
        /\ \A k \in DOMAIN t : k \in DOMAIN down /\ t[k] = down[k] /\ k <= n
        /\ \A k \in DOMAIN down : k <= n => k \in DOMAIN t
    BY <2>2, TakenIs
  <2>4. QED
    BY <2>1, <2>3
<1>3. /\ down \in Seq(Words) /\ Len(down) \in Nat /\ DOMAIN down = 1 .. Len(down)
      /\ \A k \in DOMAIN down : k \in Nat /\ down[k] \in Words /\ WordOk(down[k])
  BY Facts
<1>4. ASSUME FrontCreated
      PROVE  NewHandles(t) = {[id |-> down[1].fd, fd |-> down[1].fd, call |-> calls]}
  <2>1. /\ 1 \in DOMAIN down /\ 2 \in DOMAIN down /\ 3 \in DOMAIN down
        /\ down[1].fd \in WindowIds /\ down[1].val = MSG_WINDOW_CREATED
        /\ down[2].val = down[1].fd /\ down[2].fd = 0 /\ down[3].fd = 0
    BY <1>4, CreatedFront DEF FrontCreated
  <2>2. PICK i : i = down[1].fd
    OBVIOUS
  <2>3. i # 0
    BY <2>1, <2>2, Consts
  <2>4. 1 \in DOMAIN t /\ 2 \in DOMAIN t /\ 3 \in DOMAIN t
    BY <1>2, <2>1
  <2>5. t[1] = down[1] /\ t[2] = down[2] /\ t[3] = down[3]
    BY <1>2, <2>4
  <2>6. \A k \in DOMAIN t : k \in {1, 2, 3}
    BY <1>2, <1>3
  <2>7. \A k \in DOMAIN t : t[k].fd \in {0, i}
    BY <2>1, <2>2, <2>5, <2>6
  <2>8. t[1].fd = i
    BY <2>2, <2>5
  <2>9. FdIn(t) = {i}
    BY <2>3, <2>4, <2>7, <2>8 DEF FdIn
  <2>10. t # <<>> /\ Head(t) = t[1]
    BY <1>2, <2>4
  <2>11. t[2].val = i /\ Head(t).val = MSG_WINDOW_CREATED
    BY <2>1, <2>2, <2>5, <2>10
  <2>12. NewHandles(t) = {[id |-> t[2].val, fd |-> x, call |-> calls] : x \in FdIn(t)}
    BY <2>9, <2>10, <2>11 DEF NewHandles
  <2>13. NewHandles(t) = {[id |-> i, fd |-> i, call |-> calls]}
    BY <2>9, <2>11, <2>12
  <2>14. QED
    BY <2>2, <2>13
<1>5. ASSUME ~FrontCreated, ~TypeFromInside PROVE NewHandles(t) = {}
  <2>1. SUFFICES ASSUME t # <<>>, Head(t).val = MSG_WINDOW_CREATED PROVE FALSE
    BY DEF NewHandles
  <2>2. 1 \in DOMAIN t /\ Head(t) = t[1]
    BY <1>2, <2>1
  <2>3. 1 \in DOMAIN down /\ t[1] = down[1] /\ down # <<>> /\ Head(down) = down[1]
    BY <1>2, <1>3, <2>2
  <2>4. down[1] \in Words /\ WordOk(down[1]) /\ down[1].val = MSG_WINDOW_CREATED
    BY <1>3, <2>1, <2>2, <2>3
  <2>5. down[1].pos = 1
    BY <1>5, <2>3, <2>4 DEF TypeFromInside
  <2>6. QED
    BY <1>5, <2>3, <2>4, <2>5, WordFacts DEF FrontCreated
<1>6. ASSUME calls # 0, NEW h \in NewHandles(t) PROVE h \in Handles /\ h.fd < next_id
  <2>1. t # <<>> /\ Head(t).val = MSG_WINDOW_CREATED /\ FdIn(t) # {}
    BY <1>6 DEF NewHandles
  <2>2. PICK f \in FdIn(t) : h = [id |-> t[2].val, fd |-> f, call |-> calls]
    BY <1>6, <2>1 DEF NewHandles
  <2>3. PICK k \in DOMAIN t : f = t[k].fd /\ f # 0
    BY <2>2 DEF FdIn
  <2>4. /\ k \in DOMAIN down /\ t[k] = down[k] /\ down[k] \in Words /\ WordOk(down[k])
        /\ f \in WindowIds /\ down[k].type = MSG_WINDOW_CREATED /\ down[k].pos = 1 /\ f < next_id
    <3>1. k \in DOMAIN down /\ t[k] = down[k] /\ down[k] \in Words /\ WordOk(down[k])
      BY <1>2, <1>3
    <3>2. QED
      BY <2>3, <3>1, WordFacts DEF ClientInv, Numbered
  <2>5. 2 \in DOMAIN t
    <3>1. CASE k = 1
      <4>1. down # <<>>
        BY <1>3, <2>4
      <4>2. 2 \in DOMAIN down
        BY <2>4, <3>1, <4>1, CreatedFront
      <4>3. QED
        BY <1>2, <4>2
    <3>2. CASE k # 1
      <4>1. DOMAIN t = 1 .. Len(t) /\ Len(t) \in Nat
        <5>1. t \in Seq(Words)
          BY <1>2
        <5>2. QED
          BY <5>1
      <4>2. QED
        BY <3>2, <4>1
    <3>3. QED
      BY <3>1, <3>2
  <2>6. t[2] \in Words
    BY <1>2, <1>3, <2>5
  <2>7. t[2].val \in Nat
    BY <2>6 DEF Words
  <2>8. calls \in Calls
    BY <1>6, Facts, Consts
  <2>9. QED
    BY <2>2, <2>4, <2>7, <2>8 DEF Handles
<1>7. FrontCreated => ~TypeFromInside
  BY <1>3 DEF FrontCreated, TypeFromInside
<1>8. QED
  BY <1>1, <1>4, <1>5, <1>6, <1>7

(* The reply half of window_create, whatever it takes for its reply, keeps the invariant. *)
LEMMA CreateReplyKeeps ==
  ASSUME ClientInv, CreateReply
  PROVE  ClientInv'
<1>1. /\ lib = "create" /\ CanReceive /\ lib' = "idle"
      /\ down' = SubSeq(down, 4, Len(down)) /\ handles' = handles \cup NewHandles(Taken(3))
      /\ UNCHANGED <<up, alive, windows, next_id, calls, need>>
  BY DEF CreateReply, serverVars
<1>2. raced' = (raced \/ KeyInTheWay)
  BY DEF CreateReply
<1>3. /\ down' \in Seq(Words) /\ Len(down') <= DownCap /\ Chain(down')
      /\ \A k \in DOMAIN down' : /\ k \in Nat /\ k >= 1 /\ k + 3 \in DOMAIN down
                                 /\ down'[k] = down[k + 3] /\ down'[k].fd < next_id
      /\ down' # <<>> => 3 + 1 \in DOMAIN down /\ down'[1] = down[3 + 1]
  <2>1. PICK n : n = 3
    OBVIOUS
  <2>2. n \in Nat /\ down' = SubSeq(down, n + 1, Len(down))
    BY <1>1, <2>1
  <2>3. /\ down' \in Seq(Words) /\ Len(down') <= DownCap /\ Chain(down')
        /\ \A k \in DOMAIN down' : /\ k \in Nat /\ k >= 1 /\ k + n \in DOMAIN down
                                   /\ down'[k] = down[k + n] /\ down'[k].fd < next_id
        /\ down' # <<>> => n + 1 \in DOMAIN down /\ down'[1] = down[n + 1]
    BY <2>2, ReadStream
  <2>4. QED
    BY <2>1, <2>3
<1>4. PICK g : g = [id |-> down[1].fd, fd |-> down[1].fd, call |-> calls]
  OBVIOUS
<1>5. /\ FrontCreated => handles' = handles \cup {g}
      /\ ~FrontCreated /\ ~TypeFromInside => handles' = handles
      /\ \A h \in handles' : h \in handles \/ (h \in Handles /\ h.fd < next_id)
      /\ handles \subseteq handles'
  <2>1. calls # 0
    BY <1>1 DEF ClientInv, Shapes
  <2>2. QED
    BY <1>1, <1>4, <2>1, NewHandlesAre
<1>6. g.id = down[1].fd /\ g.fd = down[1].fd /\ g.call = calls
  BY <1>4
<1>7. FrontCreated => down[1].fd \in WindowIds /\ 1 \in DOMAIN down
  BY CreatedFront DEF FrontCreated
<1>8. misread' = (misread \/ TypeFromInside)
  BY DEF CreateReply
<1>9. misread' => raced'
  <2>1. SUFFICES ASSUME TypeFromInside PROVE raced
    BY <1>2, <1>8, Zenon DEF ClientInv, BufferMatches
  <2>2. down # <<>> /\ down[1].pos # 1
    BY <2>1, Facts DEF TypeFromInside
  <2>3. QED
    BY <2>2 DEF ClientInv, InTurn
<1>10. Shapes'
  <2>1. handles' \subseteq Handles
    BY <1>5 DEF ClientInv, Shapes
  <2>2. QED
    BY <1>1, <1>3, <2>1 DEF ClientInv, Shapes
<1>11. Flags'
  <2>1. alive \in BOOLEAN /\ alive' = alive
    BY <1>1 DEF ClientInv, Flags
  <2>2. raced' \in BOOLEAN /\ misread' \in BOOLEAN
    BY <1>2, <1>8, Zenon
  <2>3. QED
    BY <2>1, <2>2, Zenon DEF Flags
<1>12. Numbered'
  <2>1. \A h \in handles' : h.fd < next_id
    BY <1>5 DEF ClientInv, Numbered
  <2>2. QED
    BY <1>1, <1>3, <2>1 DEF ClientInv, Numbered
<1>13. BufferMatches'
  <2>1. ASSUME ~misread', NEW h \in handles' PROVE h.fd = h.id
    <3>1. ~misread /\ ~TypeFromInside
      BY <1>8, <2>1, Zenon
    <3>2. \A x \in handles : x.fd = x.id
      BY <3>1 DEF ClientInv, BufferMatches
    <3>3. QED
      BY <1>5, <1>6, <2>1, <3>1, <3>2
  <2>2. QED
    BY <1>9, <2>1 DEF BufferMatches
<1>14. InTurn' /\ Agreed'
  <2>1. SUFFICES ASSUME ~raced' PROVE InTurn' /\ Agreed'
    BY DEF InTurn, Agreed
  <2>2. ~raced /\ ~KeyInTheWay
    BY <1>2, <2>1, Zenon
  <2>3. /\ \A k \in DOMAIN up : IsCreate(up[k]) => k = Len(up) /\ up[k].call = calls
        /\ OneReply /\ (~NoRequest => NoReply) /\ (down # <<>> => down[1].pos = 1)
    BY <2>2 DEF ClientInv, InTurn
  <2>4. /\ down \in Seq(Words) /\ DOMAIN down = 1 .. Len(down) /\ Len(down) \in Nat
        /\ \A k \in DOMAIN down : k \in Nat /\ down[k] \in Words /\ WordOk(down[k])
    BY Facts
  <2>5. \A k \in DOMAIN down : down[k].pos \in Nat /\ (Reply(k) => down[k].pos <= 3)
    BY <2>4, WordFacts DEF Reply
  <2>6. ASSUME down # <<>>
        PROVE  /\ 1 \in DOMAIN down /\ Reply(1) /\ down[1].pos = 1
               /\ \A k \in DOMAIN down : Reply(k) => k = down[k].pos
               /\ ~FrontCreated => \A k \in DOMAIN down : Reply(k)
    <3>1. 1 \in DOMAIN down /\ Head(down) = down[1]
      BY <2>4, <2>6
    <3>2. Reply(1)
      BY <2>2, <3>1 DEF KeyInTheWay, Reply, MSG_KEY_EVENT, MSG_WINDOW_CREATED
    <3>3. down[1].pos = 1
      BY <2>3, <2>6
    <3>4. \A k \in DOMAIN down : Reply(k) => k = down[k].pos
      <4>1. SUFFICES ASSUME NEW k \in DOMAIN down, Reply(k) PROVE k = down[k].pos
        OBVIOUS
      <4>2. PICK j : j = 1
        OBVIOUS
      <4>3. j - down[j].pos = k - down[k].pos
        BY <2>3, <3>1, <3>2, <4>1, <4>2 DEF OneReply
      <4>4. down[k].pos \in Nat /\ k \in Nat /\ j - down[j].pos = 0
        BY <2>4, <2>5, <3>3, <4>2
      <4>5. QED
        BY <4>3, <4>4
    <3>5. ~FrontCreated => \A k \in DOMAIN down : Reply(k)
      BY <2>2, <2>6, <3>1, <3>3 DEF KeyInTheWay, FrontCreated, Reply
    <3>6. QED
      BY <3>1, <3>2, <3>3, <3>4, <3>5
  <2>7. NoReply'
    <3>1. SUFFICES ASSUME NEW k \in DOMAIN down', Reply(k)' PROVE FALSE
      BY DEF NoReply
    <3>2. PICK j : j = k + 3
      OBVIOUS
    <3>3. j \in DOMAIN down /\ down'[k] = down[j] /\ j > 3
      BY <1>3, <3>2
    <3>4. Reply(j) /\ down # <<>>
      BY <2>4, <3>1, <3>3 DEF Reply
    <3>5. j = down[j].pos /\ down[j].pos <= 3 /\ down[j].pos \in Nat
      BY <2>5, <2>6, <3>3, <3>4
    <3>6. QED
      BY <3>3, <3>5
  <2>8. down' # <<>> => down'[1].pos = 1
    <3>1. SUFFICES ASSUME down' # <<>> PROVE down'[1].pos = 1
      OBVIOUS
    <3>2. 3 + 1 \in DOMAIN down /\ down'[1] = down[3 + 1] /\ down # <<>>
      BY <1>3, <2>4, <3>1
    <3>3. CASE FrontCreated
      BY <3>2, <3>3, CreatedFront DEF FrontCreated
    <3>4. CASE ~FrontCreated
      <4>1. PICK j : j = 3 + 1
        OBVIOUS
      <4>2. Reply(j) /\ j = down[j].pos /\ down[j].pos <= 3
        BY <2>5, <2>6, <3>2, <3>4, <4>1
      <4>3. QED
        BY <4>1, <4>2
    <3>5. QED
      BY <3>3, <3>4
  <2>9. NoRequest /\ NoRequest'
    <3>1. CASE ~alive
      <4>1. up = <<>>
        BY <3>1 DEF ClientInv, Stopped
      <4>2. QED
        BY <1>1, <4>1 DEF NoRequest
    <3>2. CASE alive
      <4>1. down # <<>>
        BY <1>1, <3>2 DEF CanReceive
      <4>2. ~NoReply
        BY <2>6, <4>1 DEF NoReply
      <4>3. QED
        BY <1>1, <2>3, <4>2 DEF NoRequest
    <3>3. QED
      BY <3>1, <3>2
  <2>10. OneReply'
    BY <2>7 DEF OneReply, NoReply
  <2>11. InTurn'
    BY <1>1, <2>3, <2>7, <2>8, <2>9, <2>10 DEF InTurn
  <2>12. \A k \in DOMAIN down' : down'[k].fd = 0
    <3>1. \A k \in DOMAIN down' : down'[k] \in Words /\ WordOk(down'[k])
      BY <1>3 DEF Chain
    <3>2. QED
      BY <2>7, <3>1, WordFacts DEF NoReply, Reply, MSG_WINDOW_CREATED, MSG_KEY_EVENT
  <2>13. \A k \in DOMAIN down', w \in windows : down'[k].fd # w.id
    BY <2>12, Facts
  <2>14. \A h \in handles', w \in windows : h.id = w.id => h.call = w.call
    <3>1. \A h \in handles, w \in windows : h.id = w.id => h.call = w.call
      BY <2>2 DEF ClientInv, Agreed
    <3>2. FrontCreated => \A w \in windows : g.id = w.id => g.call = w.call
      BY <1>6, <1>7, <2>2 DEF ClientInv, Agreed
    <3>3. ~TypeFromInside
      BY <1>8, <1>9, <2>1, Zenon
    <3>4. QED
      BY <1>5, <3>1, <3>2, <3>3
  <2>15. ASSUME alive, NEW w \in windows
         PROVE  (\E h \in handles' : h.id = w.id) \/ (\E k \in DOMAIN up : up[k].id = w.id)
    <3>1. \/ \E h \in handles : h.id = w.id
          \/ \E k \in DOMAIN up : up[k].id = w.id
          \/ \E k \in DOMAIN down : down[k].fd = w.id
      BY <2>2, <2>15 DEF ClientInv, Agreed
    <3>2. ASSUME NEW k \in DOMAIN down, down[k].fd = w.id PROVE \E h \in handles' : h.id = w.id
      <4>1. down[k].fd # 0 /\ down[k] \in Words /\ WordOk(down[k]) /\ down # <<>>
        BY <2>4, <3>2, Facts
      <4>2. down[k].type = MSG_WINDOW_CREATED /\ down[k].pos = 1
        BY <4>1, WordFacts
      <4>3. Reply(k)
        BY <4>2 DEF Reply, MSG_WINDOW_CREATED, MSG_KEY_EVENT
      <4>4. k = 1
        BY <2>6, <4>1, <4>2, <4>3
      <4>5. FrontCreated
        BY <4>1, <4>2, <4>4 DEF FrontCreated
      <4>6. QED
        BY <1>5, <1>6, <3>2, <4>4, <4>5
    <3>3. handles \subseteq handles'
      BY <1>5
    <3>4. QED
      BY <3>1, <3>2, <3>3
  <2>16. Agreed'
    BY <1>1, <2>13, <2>14, <2>15 DEF Agreed
  <2>17. QED
    BY <2>11, <2>16
<1>15. Stopped'
  BY <1>1 DEF ClientInv, Stopped
<1>16. QED
  BY <1>3, <1>10, <1>11, <1>12, <1>13, <1>14, <1>15 DEF ClientInv

(* event_poll and the loop of recv_exact: in step, a whole event is taken. *)
LEMMA ReadKeeps ==
  ASSUME ClientInv, NEW n \in Nat, down' = SubSeq(down, n + 1, Len(down)),
         need' \in 0 .. 5, lib' \in {"idle", "poll"},
         ~raced => /\ lib = "idle" /\ lib' = "idle"
                   /\ n + 1 \in DOMAIN down => down[n + 1].pos = 1,
         UNCHANGED <<up, alive, windows, next_id, handles, calls, raced, misread>>
  PROVE  ClientInv'
<1>1. /\ down' \in Seq(Words) /\ Len(down') <= DownCap /\ Chain(down')
      /\ \A k \in DOMAIN down' : /\ k \in Nat /\ k + n \in DOMAIN down /\ down'[k] = down[k + n]
                                 /\ down'[k].fd < next_id
      /\ down' # <<>> => n + 1 \in DOMAIN down /\ down'[1] = down[n + 1]
  BY ReadStream
<1>2. Shapes' /\ Flags' /\ Stopped' /\ BufferMatches'
  BY <1>1 DEF ClientInv, Shapes, Flags, Stopped, BufferMatches
<1>3. Numbered'
  BY <1>1 DEF ClientInv, Numbered
<1>4. InTurn' /\ Agreed'
  <2>1. SUFFICES ASSUME ~raced PROVE InTurn' /\ Agreed'
    BY DEF InTurn, Agreed
  <2>2. NoReply /\ NoRequest
    BY <2>1 DEF ClientInv, InTurn
  <2>3. NoReply' /\ NoRequest'
    BY <1>1, <2>2 DEF NoReply, Reply, NoRequest
  <2>4. OneReply'
    BY <2>3 DEF OneReply, NoReply
  <2>5. down' # <<>> => down'[1].pos = 1
    BY <1>1, <2>1
  <2>6. InTurn'
    BY <2>1, <2>3, <2>4, <2>5 DEF InTurn, NoRequest
  <2>7. \A k \in DOMAIN down : down[k].fd = 0
    BY <2>2, Facts, WordFacts DEF NoReply, Reply, MSG_WINDOW_CREATED, MSG_KEY_EVENT
  <2>8. \A w \in windows : w.id # 0
    BY Facts
  <2>9. \A k \in DOMAIN down', w \in windows : down'[k].fd # w.id
    BY <1>1, <2>7, <2>8
  <2>10. \A k \in DOMAIN down, w \in windows : down[k].fd # w.id
    BY <2>7, <2>8
  <2>11. Agreed'
    BY <2>1, <2>9, <2>10 DEF ClientInv, Agreed
  <2>12. QED
    BY <2>6, <2>11
<1>5. QED
  BY <1>1, <1>2, <1>3, <1>4 DEF ClientInv

(* event_poll keeps the invariant. *)
LEMMA PollKeeps ==
  ASSUME ClientInv, event_poll
  PROVE  ClientInv'
<1>1. /\ lib = "idle" /\ down # <<>> /\ Head(down).val \in PolledTypes
      /\ RecvExact(WordsOf(Head(down).val))
      /\ UNCHANGED <<up, alive, windows, next_id, handles, calls, raced, misread>>
  BY DEF event_poll, serverVars
<1>2. PICK n : n = WordsOf(Head(down).val)
  OBVIOUS
<1>3. n \in {2, 4, 6}
  BY <1>1, <1>2 DEF WordsOf, PolledTypes, MSG_WINDOW_CREATED, MSG_KEY_EVENT, MSG_WINDOW_CLOSE
<1>4. /\ down' = SubSeq(down, n + 1, Len(down)) /\ need' = n - Len(Taken(n))
      /\ lib' = IF need' = 0 THEN "idle" ELSE "poll"
  BY <1>1, <1>2 DEF RecvExact
<1>5. down \in Seq(Words) /\ Len(down) \in Nat /\ DOMAIN down = 1 .. Len(down) /\ Len(down) # 0
      /\ Head(down) = down[1]
  BY <1>1, Facts
<1>6. Len(Taken(n)) = IF Len(down) < n THEN Len(down) ELSE n
  BY <1>3, TakenIs
<1>7. need' \in 0 .. 5
  <2>1. PICK l : l = Len(down)
    OBVIOUS
  <2>2. l \in Nat /\ l # 0 /\ need' = n - (IF l < n THEN l ELSE n)
    BY <1>4, <1>5, <1>6, <2>1
  <2>3. QED
    BY <1>3, <2>2
<1>8. ASSUME ~raced PROVE lib' = "idle" /\ (n + 1 \in DOMAIN down => down[n + 1].pos = 1)
  <2>1. NoReply /\ down[1].pos = 1
    BY <1>1, <1>8 DEF ClientInv, InTurn
  <2>2. down[1].type = MSG_KEY_EVENT
    BY <1>5, <2>1 DEF NoReply, Reply
  <2>3. /\ down[1].val = MSG_KEY_EVENT /\ 6 \in DOMAIN down
        /\ 6 + 1 \in DOMAIN down => down[6 + 1].pos = 1
    BY <1>1, <2>1, <2>2, KeyFront
  <2>4. n = 6
    BY <1>2, <1>5, <2>3, WordsOfIs
  <2>5. need' = 0
    BY <1>4, <1>5, <1>6, <2>3, <2>4
  <2>6. QED
    BY <1>4, <2>3, <2>4, <2>5
<1>9. lib' \in {"idle", "poll"} /\ n \in Nat
  BY <1>3, <1>4
<1>10. QED
  BY <1>1, <1>4, <1>7, <1>8, <1>9, ReadKeeps

(* recv_exact taking the rest of a message keeps the invariant. *)
LEMMA MoreKeeps ==
  ASSUME ClientInv, RecvMore
  PROVE  ClientInv'
<1>1. lib = "poll" /\ UNCHANGED <<up, alive, windows, next_id, handles, calls, raced, misread>>
  BY DEF RecvMore, serverVars
<1>2. raced
  BY <1>1 DEF ClientInv, InTurn
<1>3. down \in Seq(Words) /\ Len(down) \in Nat /\ need \in 0 .. 5
  BY Facts DEF ClientInv, Shapes
<1>4. CASE down # <<>> /\ RecvExact(need)
  <2>1. /\ down' = SubSeq(down, need + 1, Len(down)) /\ need' = need - Len(Taken(need))
        /\ lib' = IF need' = 0 THEN "idle" ELSE "poll"
    BY <1>4 DEF RecvExact
  <2>2. need' \in 0 .. 5
    <3>1. CASE need = 0
      <4>1. Taken(need) = <<>>
        BY <1>3, <3>1 DEF Taken
      <4>2. QED
        BY <2>1, <3>1, <4>1
    <3>2. CASE need # 0
      <4>1. need \in Nat /\ need >= 1
        BY <1>3, <3>2
      <4>2. Len(Taken(need)) = IF Len(down) < need THEN Len(down) ELSE need
        BY <4>1, TakenIs
      <4>3. QED
        BY <1>3, <2>1, <4>2
    <3>3. QED
      BY <3>1, <3>2
  <2>3. lib' \in {"idle", "poll"} /\ need \in Nat
    BY <1>3, <2>1
  <2>4. PICK n : n = need
    OBVIOUS
  <2>5. QED
    BY <1>1, <1>2, <2>1, <2>2, <2>3, <2>4, ReadKeeps
<1>5. CASE down = <<>> /\ lib' = "idle" /\ need' = 0 /\ UNCHANGED down
  <2>1. PICK n : n = 0
    OBVIOUS
  <2>2. n \in Nat /\ down' = SubSeq(down, n + 1, Len(down)) /\ need' \in 0 .. 5
    BY <1>5, <2>1
  <2>3. QED
    BY <1>1, <1>2, <1>5, <2>2, ReadKeeps
<1>6. QED
  BY <1>4, <1>5 DEF RecvMore

(* A fresh connection satisfies the invariant. *)
LEMMA InitClientInv ==
  ASSUME Init
  PROVE  ClientInv
<1>1. /\ up = <<>> /\ down = <<>> /\ windows = {} /\ next_id = 1 /\ handles = {} /\ calls = 0
      /\ lib = "idle" /\ need = 0 /\ misread = FALSE
  BY DEF Init
<1>2. DOMAIN up = {} /\ DOMAIN down = {} /\ Len(down) = 0 /\ up \in Seq(Requests)
      /\ down \in Seq(Words)
  BY <1>1
<1>3. Shapes
  BY <1>1, <1>2, Consts DEF Shapes
<1>4. Flags
  <2>1. alive = TRUE /\ raced = FALSE /\ misread = FALSE
    BY DEF Init
  <2>2. QED
    BY <2>1, Zenon DEF Flags
<1>5. Chain(down) /\ Numbered /\ BufferMatches /\ Stopped
  BY <1>1, <1>2 DEF Chain, Numbered, Asked, BufferMatches, Stopped
<1>6. InTurn /\ Agreed
  BY <1>1, <1>2 DEF InTurn, Agreed, OneReply, NoReply, NoRequest
<1>7. QED
  BY <1>3, <1>4, <1>5, <1>6 DEF ClientInv

(* One step of the library, the application or the server keeps the invariant. *)
LEMMA StepClientInv ==
  ASSUME ClientInv, [Next]_vars
  PROVE  ClientInv'
<1>1. CASE UNCHANGED vars
  <2>1. UNCHANGED <<up, down, alive, windows, next_id, handles, calls, lib, need, raced, misread>>
    BY <1>1 DEF vars
  <2>2. Shapes' /\ Flags' /\ Chain(down') /\ Numbered' /\ BufferMatches' /\ Stopped'
    BY <2>1 DEF ClientInv, Shapes, Flags, Numbered, BufferMatches, Stopped
  <2>3. (OneReply' <=> OneReply) /\ (NoReply' <=> NoReply) /\ (NoRequest' <=> NoRequest)
    BY <2>1 DEF OneReply, NoReply, NoRequest, Reply
  <2>4. InTurn' /\ Agreed'
    BY <2>1, <2>3 DEF ClientInv, InTurn, Agreed
  <2>5. QED
    BY <2>2, <2>4 DEF ClientInv
<1>2. CASE \E w \in windows, code \in Keycodes, text \in TextWords : broadcast_key(w.id, code, text)
  <2>1. PICK w \in windows, code \in Keycodes, text \in TextWords : broadcast_key(w.id, code, text)
    BY <1>2
  <2>2. PICK i : i = w.id
    OBVIOUS
  <2>3. i \in WindowIds /\ broadcast_key(i, code, text)
    BY <2>1, <2>2, Facts
  <2>4. QED
    BY <2>3, KeyKeeps
<1>3. CASE Finished
  BY <1>1, <1>3 DEF Finished
<1>4. QED
  BY <1>1, <1>2, <1>3, ServeKeeps, ExitKeeps, CreateCallKeeps, CreateReplyKeeps, PollKeeps,
     MoreKeeps, DestroyCallKeeps DEF Next

(* The inductive invariant: the stream is a row of whole messages, and     *)
(* without a race it is read message by message.                           *)
THEOREM ClientInvariance == Spec => []ClientInv
<1>1. Init => ClientInv
  BY InitClientInv
<1>2. ClientInv /\ [Next]_vars => ClientInv'
  BY StepClientInv
<1>3. QED
  BY <1>1, <1>2, PTL DEF Spec

(* The invariant implies the types the run checks. *)
LEMMA ClientTypeOK ==
  ASSUME ClientInv
  PROVE  TypeOK
<1>1. \A k \in DOMAIN down :
        /\ down[k].type \in {MSG_WINDOW_CREATED, MSG_KEY_EVENT, MSG_WINDOW_CLOSE}
        /\ down[k].pos \in 1 .. 6 /\ down[k].fd \in WindowIds \cup {0}
  BY Facts DEF Words
<1>2. {alive, raced, misread} \subseteq BOOLEAN
  BY Zenon DEF ClientInv, Flags
<1>3. QED
  BY <1>1, <1>2 DEF ClientInv, Shapes, TypeOK, Requests, Handles

(* Whatever ids, descriptor numbers and texts stand in the stream,          *)
(* window_create joins the id of one window to the buffer of another only   *)
(* after it began to read at a word inside a message that has the value of  *)
(* MSG_WINDOW_CREATED, which takes a race before; and as long as no key     *)
(* event stood in the way of a reply, event_poll finds a whole event it     *)
(* knows at the front of the stream.                                        *)
THEOREM StreamCorrect == Spec => []StreamSound
<1>1. ClientInv => InStep
  <2>1. SUFFICES ASSUME ClientInv, ~raced, lib = "idle", down # <<>>
                 PROVE  Head(down).pos = 1 /\ Head(down).val \in PolledTypes
    BY DEF InStep
  <2>2. NoReply /\ down[1].pos = 1
    BY <2>1 DEF ClientInv, InTurn
  <2>3. 1 \in DOMAIN down /\ Head(down) = down[1]
    BY <2>1, Facts
  <2>4. down[1].type = MSG_KEY_EVENT
    BY <2>2, <2>3 DEF NoReply, Reply
  <2>5. down[1].val = MSG_KEY_EVENT
    BY <2>1, <2>2, <2>4, KeyFront
  <2>6. QED
    BY <2>2, <2>3, <2>5 DEF PolledTypes, MSG_KEY_EVENT, MSG_WINDOW_CLOSE
<1>2. ClientInv => StreamSound
  BY <1>1, ClientTypeOK DEF StreamSound, ClientInv
<1>3. QED
  BY <1>2, ClientInvariance, PTL

(* With the same exception, a window_t answers the call that returned it,  *)
(* and the server keeps no window the client knows nothing of.             *)
THEOREM WindowsCorrect == Spec => []WindowsAnswered
<1>1. ClientInv => AnswersOwnCall
  BY DEF ClientInv, Agreed, AnswersOwnCall
<1>2. ClientInv => NoOrphan
  <2>1. SUFFICES ASSUME ClientInv, ~raced, alive, lib = "idle", NEW w \in windows
                 PROVE  \/ \E h \in handles : h.id = w.id
                        \/ \E k \in DOMAIN up : up[k].id = w.id
    BY DEF NoOrphan
  <2>2. NoReply
    BY <2>1 DEF ClientInv, InTurn
  <2>3. \A k \in DOMAIN down : down[k].fd = 0
    BY <2>1, <2>2, Facts, WordFacts DEF NoReply, Reply, MSG_WINDOW_CREATED, MSG_KEY_EVENT
  <2>4. w.id # 0
    BY <2>1, Facts
  <2>5. QED
    BY <2>1, <2>3, <2>4 DEF ClientInv, Agreed
<1>3. QED
  BY <1>1, <1>2, ClientInvariance, PTL DEF WindowsAnswered
=============================================================================
