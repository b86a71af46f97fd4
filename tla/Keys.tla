-------------------------------- MODULE Keys --------------------------------
(***************************************************************************)
(* Keys and headers on the way from NATS to Kafka and back.  A subject, a  *)
(* reply or a key is the sequence of its tokens between dots; NATS headers *)
(* are a function from names to sequences of values, Kafka headers a       *)
(* sequence of records.  An empty sequence of values stands for nil.       *)
(***************************************************************************)
EXTENDS Naturals, SequencesExt

\* A regular expression, external: whether it compiles, and the token its first
\* group captures, 0 when it has no group.
FindStringSubmatch(regex, s) ==
  IF regex.valid /\ regex.group \in 1..Len(s) THEN <<s[regex.group]>> ELSE <<>>

calculateKey(config, subject, replyto) ==
  CASE config.keyType = "fixed"        -> config.keyValue
    [] config.keyType = "subject"      -> subject
    [] config.keyType = "reply"        -> replyto
    [] config.keyType = "subjectre"    -> FindStringSubmatch(config.regex, subject)
    [] config.keyType = "replyre"      -> FindStringSubmatch(config.regex, replyto)
    [] OTHER                           -> <<>>

-----------------------------------------------------------------------------
\* The value of every header is a sequence of tokens, too.
Nil == <<"nil">>
SubjectHeader == "subject"
MetaData == {"num_pending", "timestamp", "stream_seq", "consumer_seq"}

\* One record for each name, with the first of its values, in the order the
\* map is iterated.
convertFromNatsToKafkaHeaders(hdr, order) ==
  [i \in 1..Len(order) |-> [key |-> order[i],
                            value |-> IF hdr[order[i]] = <<>> THEN Nil ELSE hdr[order[i]][1]]]

\* convertFromNatsToKafkaHeadersWithMetaData: what the message itself carries
\* stays in front.  What is added comes in the order of a map, on which nothing
\* depends.  The value of a metadata header is named after it.
WithMetaData(headers, subject, meta) ==
  headers \o <<[key |-> SubjectHeader, value |-> subject]>>
    \o [i \in 1..Len(meta) |-> [key |-> meta[i], value |-> <<meta[i]>>]]

\* Headers without a value are dropped, those of one name are collected.
convertFromKafkaToNatsHeaders(hdrs) ==
  LET kept == SelectSeq(hdrs, LAMBDA h : h.value # Nil)
      names == {kept[i].key : i \in 1..Len(kept)}
      of(k) == SelectSeq(kept, LAMBDA h : h.key = k)
  IN [k \in names |-> [i \in 1..Len(of(k)) |-> of(k)[i].value]]

-----------------------------------------------------------------------------
\* Mutant of refineKeyWithSubjectHeader: all the tokens of the subject.
refineKeyWhole(key, headers) ==
  LET i == SelectInSeq(headers, LAMBDA h : h.key = SubjectHeader) IN
  IF key = <<>> \/ Last(key) # ">" \/ i = 0 \/ Len(headers[i].value) < 5
  THEN key
  ELSE headers[i].value \o <<">">>

\* Mutant of refineKeyWithSubjectHeader: one token less.
refineKeyCoarse(key, headers) ==
  LET i == SelectInSeq(headers, LAMBDA h : h.key = SubjectHeader) IN
  IF key = <<>> \/ Last(key) # ">" \/ i = 0 \/ Len(headers[i].value) < 5
  THEN key
  ELSE SubSeq(headers[i].value, 1, 4) \o <<">">>

\* A key that ends in the wildcard is replaced by the first five tokens of the
\* first subject header, with the wildcard behind them.
refineKeyWithSubjectHeader(key, headers) ==
  LET i == SelectInSeq(headers, LAMBDA h : h.key = SubjectHeader) IN
  IF key = <<>> \/ Last(key) # ">" \/ i = 0 \/ Len(headers[i].value) < 5
  THEN key
  ELSE SubSeq(headers[i].value, 1, 5) \o <<">">>
=============================================================================
