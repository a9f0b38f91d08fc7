------------------------------- MODULE Topics -------------------------------
(***************************************************************************)
(* The MQTT topics of a device, app/src/product_topics.c: topic_prefix, a  *)
(* slash and the name of a stream.  These are functions of their arguments, *)
(* so there is no state here.  A text is a sequence of characters; the     *)
(* argument that could be NULL is left out.                                *)
(***************************************************************************)
EXTENDS Integers, Sequences, TLAPS

CONSTANTS
  Char, \* characters
  SLASH \* the character '/'

NoSlash(text) == \A i \in 1 .. Len(text) : text[i] # SLASH

Topic(prefix, stream) == prefix \o <<SLASH>> \o stream

(* product_topic_build returns 0, with the topic in out: the stream is one *)
(* level, and the terminating zero fits as well.                           *)
Builds(prefix, stream, cap) ==
  /\ prefix # <<>> /\ stream # <<>> /\ NoSlash(stream)
  /\ Len(Topic(prefix, stream)) < cap

(* product_topic_matches_prefix. *)
MatchesPrefix(prefix, topic) ==
  /\ prefix # <<>>
  /\ Len(prefix) < Len(topic)
  /\ \A i \in 1 .. Len(prefix) : topic[i] = prefix[i]
  /\ topic[Len(prefix) + 1] = SLASH

----------------------------------------------------------------------------

(* Where each part of a topic is. *)
Parts(t, prefix, stream) ==
  /\ t \in Seq(Char) /\ Len(t) = Len(prefix) + 1 + Len(stream)
  /\ \A i \in 1 .. Len(prefix) : t[i] = prefix[i]
  /\ t[Len(prefix) + 1] = SLASH
  /\ \A i \in 1 .. Len(stream) : t[Len(prefix) + 1 + i] = stream[i]

LEMMA TopicParts ==
  ASSUME SLASH \in Char, NEW prefix \in Seq(Char), NEW stream \in Seq(Char)
  PROVE  Parts(Topic(prefix, stream), prefix, stream)
<1> DEFINE h == prefix \o <<SLASH>>
<1>1. /\ h \in Seq(Char) /\ Len(h) = Len(prefix) + 1
      /\ \A i \in 1 .. Len(prefix) : h[i] = prefix[i]
      /\ h[Len(prefix) + 1] = SLASH
  OBVIOUS
<1>2. Topic(prefix, stream) = h \o stream
  BY DEF Topic
<1> DEFINE t == h \o stream
<1>3. /\ t \in Seq(Char) /\ Len(t) = Len(h) + Len(stream)
      /\ \A i \in 1 .. Len(h) : t[i] = h[i]
      /\ \A i \in 1 .. Len(stream) : t[Len(h) + i] = stream[i]
  <2> HIDE DEF h
  <2>1. QED
    BY <1>1
<1> HIDE DEF h, t
<1>4. Parts(t, prefix, stream)
  BY <1>1, <1>3 DEF Parts
<1>5. QED
  BY <1>2, <1>4 DEF t

(* GET /status builds the topic "test" in a buffer of 128 bytes: the test  *)
(* topic fits whatever the prefix, of which 63 characters are kept.         *)
THEOREM StatusTopicFits ==
  ASSUME SLASH \in Char, NEW prefix \in Seq(Char), NEW stream \in Seq(Char),
         prefix # <<>>, Len(prefix) < 64, Len(stream) = 4, NoSlash(stream)
  PROVE  Builds(prefix, stream, 128)
<1>1. Parts(Topic(prefix, stream), prefix, stream)
  BY TopicParts
<1> DEFINE n == Len(Topic(prefix, stream))
<1>2. n = Len(prefix) + 1 + Len(stream)
  BY <1>1 DEF Parts
<1> HIDE DEF n
<1>3. n < 128
  BY <1>2
<1>4. stream # <<>>
  <2>1. SUFFICES ASSUME stream = <<>> PROVE FALSE
    OBVIOUS
  <2>2. Len(stream) = 0
    BY <2>1, Len(<<>>) = 0
  <2>3. QED
    BY <2>2
<1>5. QED
  BY <1>3, <1>4 DEF Builds, n

(* Two topics are the same only if their prefixes and their streams are:   *)
(* this is what the check for a slash in the stream is for.                *)
THEOREM TopicsDiffer ==
  ASSUME SLASH \in Char,
         NEW p \in Seq(Char), NEW s \in Seq(Char), NEW q \in Seq(Char), NEW r \in Seq(Char),
         NoSlash(s), NoSlash(r), Topic(p, s) = Topic(q, r)
  PROVE  p = q /\ s = r
<1> DEFINE t == Topic(p, s)
<1>1. Parts(t, p, s) /\ Parts(t, q, r)
  BY TopicParts
<1> HIDE DEF t
<1>2. /\ Len(t) = Len(p) + 1 + Len(s) /\ Len(t) = Len(q) + 1 + Len(r)
      /\ \A i \in 1 .. Len(p) : t[i] = p[i]
      /\ \A i \in 1 .. Len(q) : t[i] = q[i]
      /\ t[Len(p) + 1] = SLASH /\ t[Len(q) + 1] = SLASH
      /\ \A i \in 1 .. Len(s) : t[Len(p) + 1 + i] = s[i]
      /\ \A i \in 1 .. Len(r) : t[Len(q) + 1 + i] = r[i]
  BY <1>1 DEF Parts
<1>3. ASSUME Len(p) < Len(q) PROVE FALSE
  <2>1. Len(q) - Len(p) \in 1 .. Len(s) /\ Len(p) + 1 + (Len(q) - Len(p)) = Len(q) + 1
    BY <1>1, <1>2, <1>3
  <2>2. s[Len(q) - Len(p)] = SLASH
    BY <1>1, <1>2, <2>1
  <2>3. QED
    BY <2>1, <2>2 DEF NoSlash
<1>4. ASSUME Len(q) < Len(p) PROVE FALSE
  <2>1. Len(p) - Len(q) \in 1 .. Len(r) /\ Len(q) + 1 + (Len(p) - Len(q)) = Len(p) + 1
    BY <1>1, <1>2, <1>4
  <2>2. r[Len(p) - Len(q)] = SLASH
    BY <1>1, <1>2, <2>1
  <2>3. QED
    BY <2>1, <2>2 DEF NoSlash
<1>5. Len(p) = Len(q) /\ Len(s) = Len(r)
  BY <1>1, <1>2, <1>3, <1>4
<1>6. \A i \in 1 .. Len(p) : p[i] = q[i]
  BY <1>1, <1>2, <1>5
<1>7. \A i \in 1 .. Len(s) : s[i] = r[i]
  BY <1>1, <1>2, <1>5
<1>8. QED
  BY <1>5, <1>6, <1>7

(* A prefix matches its own topics, and the topics of another prefix only  *)
(* if that one lies below it: "site/a" does not match those of "site/ab".   *)
THEOREM MatchesWholeLevels ==
  ASSUME SLASH \in Char,
         NEW p \in Seq(Char), NEW s \in Seq(Char), NEW q \in Seq(Char),
         NEW cap, Builds(p, s, cap), q # <<>>
  PROVE  MatchesPrefix(q, Topic(p, s)) <=> q = p \/ MatchesPrefix(q, p)
<1> DEFINE t == Topic(p, s)
<1>1. /\ t \in Seq(Char) /\ Len(t) = Len(p) + 1 + Len(s)
      /\ \A i \in 1 .. Len(p) : t[i] = p[i]
      /\ t[Len(p) + 1] = SLASH
      /\ \A i \in 1 .. Len(s) : t[Len(p) + 1 + i] = s[i]
  BY TopicParts DEF Parts
<1>2. NoSlash(s)
  BY DEF Builds
<1> HIDE DEF t
<1>3. ASSUME MatchesPrefix(q, t) PROVE q = p \/ MatchesPrefix(q, p)
  <2>1. /\ Len(q) < Len(t) /\ t[Len(q) + 1] = SLASH
        /\ \A i \in 1 .. Len(q) : t[i] = q[i]
    BY <1>3 DEF MatchesPrefix
  <2>2. ASSUME Len(p) < Len(q) PROVE FALSE
    <3>1. Len(q) - Len(p) \in 1 .. Len(s) /\ Len(p) + 1 + (Len(q) - Len(p)) = Len(q) + 1
      BY <1>1, <2>1, <2>2
    <3>2. s[Len(q) - Len(p)] = SLASH
      BY <1>1, <2>1, <3>1
    <3>3. QED
      BY <1>2, <3>1, <3>2 DEF NoSlash
  <2>3. CASE Len(q) = Len(p)
    <3>1. \A i \in 1 .. Len(q) : q[i] = p[i]
      BY <1>1, <2>1, <2>3
    <3>2. QED
      BY <2>3, <3>1
  <2>4. CASE Len(q) < Len(p)
    <3>1. p[Len(q) + 1] = SLASH /\ \A i \in 1 .. Len(q) : p[i] = q[i]
      BY <1>1, <2>1, <2>4
    <3>2. QED
      BY <2>4, <3>1 DEF MatchesPrefix
  <2>5. QED
    BY <2>2, <2>3, <2>4
<1>4. ASSUME q = p PROVE MatchesPrefix(q, t)
  BY <1>1, <1>4 DEF MatchesPrefix
<1>5. ASSUME MatchesPrefix(q, p) PROVE MatchesPrefix(q, t)
  <2>1. Len(q) < Len(p) /\ p[Len(q) + 1] = SLASH /\ \A i \in 1 .. Len(q) : p[i] = q[i]
    BY <1>5 DEF MatchesPrefix
  <2>2. Len(q) < Len(t) /\ Len(q) + 1 \in 1 .. Len(p)
    BY <1>1, <2>1
  <2>3. t[Len(q) + 1] = SLASH
    BY <1>1, <2>1, <2>2
  <2>4. \A i \in 1 .. Len(q) : t[i] = q[i]
    BY <1>1, <2>1
  <2>5. QED
    BY <2>2, <2>3, <2>4 DEF MatchesPrefix
<1>6. QED
  BY <1>3, <1>4, <1>5 DEF t
=============================================================================
