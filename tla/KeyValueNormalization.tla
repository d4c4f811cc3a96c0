------------------------ MODULE KeyValueNormalization ------------------------
(***************************************************************************)
(* Session::prepareKeyValueMapForDataSigning (Session.cpp 500-528): the    *)
(* canonical byte sequence a caller signs for a map of GET parameters.     *)
(* The keys are sorted with std::string::compare, then each key and value  *)
(* is URL-encoded and the pairs are joined as key=value with '&'.          *)
(*                                                                         *)
(* A std::string is a sequence of one-character strings. The bounded      *)
(* inputs use a handful of characters, among them the separators and the  *)
(* space, which URL encoding rewrites.                                     *)
(***************************************************************************)
EXTENDS Integers, Sequences, SequencesExt

CONSTANTS Keys,     \* the std::string keys a caller may put in the map
          Values    \* the std::string values

\* Byte value (ASCII) of every character an input or an encoding uses.
Byte == (" " :> 32) @@ ("%" :> 37) @@ ("&" :> 38) @@ ("*" :> 42)
        @@ ("+" :> 43) @@ ("2" :> 50) @@ ("3" :> 51) @@ ("6" :> 54)
        @@ ("=" :> 61) @@ ("B" :> 66) @@ ("D" :> 68)
        @@ ("a" :> 97) @@ ("b" :> 98)

\* Every std::map<std::string, std::string> over the bounded keys and values.
Maps == UNION {[D -> Values] : D \in SUBSET Keys}

(***************************************************************************)
(* utils::ConvertStringToUrlEncodedData (outside src/): letters, digits   *)
(* and "-_.*" stay, a space becomes '+', any other byte becomes %XX.      *)
(***************************************************************************)
Unreserved == {"a", "b", "*", "2", "3", "6", "B", "D"}
PercentHex == ("&" :> <<"2", "6">>) @@ ("+" :> <<"2", "B">>)
              @@ ("=" :> <<"3", "D">>) @@ ("%" :> <<"2", "5">>)

EncodeChar(c) ==
  CASE c \in Unreserved -> <<c>>
    [] c = " "          -> <<"+">>
    [] OTHER            -> <<"%">> \o PercentHex[c]

UrlEncode(s) == FlattenSeq([i \in DOMAIN s |-> EncodeChar(s[i])])

\* std::string::compare: the first differing byte decides, else the
\* shorter string is the smaller.
RECURSIVE Compare(_, _)
Compare(a, b) ==
  CASE a = <<>> /\ b = <<>>          -> 0
    [] a = <<>>                      -> -1
    [] b = <<>>                      -> 1
    [] Byte[Head(a)] < Byte[Head(b)] -> -1
    [] Byte[Head(a)] > Byte[Head(b)] -> 1
    [] OTHER                         -> Compare(Tail(a), Tail(b))

\* Fault model: the keys are ordered by their URL-encoded form.
SortedKeysEncoded(map) ==
  SetToSortSeq(DOMAIN map, LAMBDA a, b : Compare(UrlEncode(a), UrlEncode(b)) < 0)

\* The vector of key pointers, sorted with a->compare(*b) < 0.
SortedKeys(map) ==
  SetToSortSeq(DOMAIN map, LAMBDA a, b : Compare(a, b) < 0)

\* Fault model: the key is appended without URL encoding.
PairRawKey(map, k) == k \o <<"=">> \o UrlEncode(map[k])

\* Fault model: the value is appended without URL encoding.
PairRawValue(map, k) == UrlEncode(k) \o <<"=">> \o map[k]

\* One 'key=value' entry of the result.
Pair(map, k) == UrlEncode(k) \o <<"=">> \o UrlEncode(map[k])

\* The loop over the sorted keys: '&' goes before every entry but the
\* first, i.e. whenever the result is not empty yet.
PrepareKeyValueMapForDataSigning(map) ==
  FoldLeft(LAMBDA result, k :
             IF result = <<>> THEN Pair(map, k)
             ELSE result \o <<"&">> \o Pair(map, k),
           <<>>, SortedKeys(map))

-----------------------------------------------------------------------------
(***************************************************************************)
(* The reference definition (spec.md 2 and 8): the entries of the map in  *)
(* lexicographic order of their keys, each key and value URL-encoded,     *)
(* joined as key=value pairs with '&'.                                    *)
(***************************************************************************)

\* Lexicographic order on byte strings, from its definition.
LexLess(a, b) ==
  \/ IsStrictPrefix(a, b)
  \/ \E i \in 1..Len(a) :
       /\ i <= Len(b)
       /\ SubSeq(a, 1, i - 1) = SubSeq(b, 1, i - 1)
       /\ Byte[a[i]] < Byte[b[i]]

RECURSIVE Normalized(_)
Normalized(map) ==
  IF DOMAIN map = {} THEN <<>>
  ELSE LET k    == CHOOSE k \in DOMAIN map :
                     \A j \in DOMAIN map \ {k} : LexLess(k, j)
           rest == Normalized(Restrict(map, DOMAIN map \ {k}))
           entry == UrlEncode(k) \o <<"=">> \o UrlEncode(map[k])
       IN IF rest = <<>> THEN entry ELSE entry \o <<"&">> \o rest

-----------------------------------------------------------------------------
(***************************************************************************)
(* The JNI entry prepareKeyValueDictionaryForDataSigning (SessionJNI.cpp  *)
(* 355-380).  Java passes the keys and the values as two String arrays.   *)
(* The wrapper returns NULL for a missing handle or array and for arrays  *)
(* of different lengths; otherwise it copies them pair by pair into a     *)
(* std::map, where a later duplicate key overwrites an earlier one, and   *)
(* calls the Session function on that map.                                *)
(***************************************************************************)
JavaNull == [isNull |-> TRUE, bytes |-> <<>>]
JavaBytes(b) == [isNull |-> FALSE, bytes |-> b]

\* Fault model: the copy loop stops one element early.
ArraysToMapSkippingLast(keys, values) ==
  FoldLeft(LAMBDA m, i : (keys[i] :> values[i]) @@ m,
           [k \in {} |-> <<>>], [i \in 1..(Len(keys) - 1) |-> i])

\* for (index = 0; index < keysCount; index++) cppMap[key] = value;
ArraysToMap(keys, values) ==
  FoldLeft(LAMBDA m, i : (keys[i] :> values[i]) @@ m,
           [k \in {} |-> <<>>], [i \in 1..Len(keys) |-> i])

JPrepareKeyValueDictionaryForDataSigning(nullArg, keys, values) ==
  IF nullArg \/ Len(keys) # Len(values) THEN JavaNull
  ELSE JavaBytes(PrepareKeyValueMapForDataSigning(ArraysToMap(keys, values)))

\* The arrays a Java caller builds from a map's entries, in every order the
\* entries can come in, and the same arrays with the last value missing.
EntryArrays(map) ==
  UNION {LET vs == [i \in DOMAIN ks |-> map[ks[i]]]
         IN {<<ks, vs>>, <<ks, Front(vs)>>} : ks \in SetToSeqs(DOMAIN map)}

-----------------------------------------------------------------------------
(***************************************************************************)
(* A caller hands one map to the function and receives its result, once  *)
(* directly and once through the JNI entry, which tells whether the two   *)
(* arrays it passed were present and of one length.                       *)
(***************************************************************************)
VARIABLES input, output, done, jout, jdone, jmatched

vars == <<input, output, done, jout, jdone, jmatched>>

Init ==
  /\ input \in Maps /\ output = <<>> /\ done = FALSE
  /\ jout = JavaNull /\ jdone = FALSE /\ jmatched = FALSE

Prepare ==
  /\ ~done
  /\ output' = PrepareKeyValueMapForDataSigning(input)
  /\ done' = TRUE
  /\ UNCHANGED <<input, jout, jdone, jmatched>>

PrepareJNI ==
  /\ ~jdone
  /\ \E nullArg \in BOOLEAN, kv \in EntryArrays(input) :
       /\ jout' = JPrepareKeyValueDictionaryForDataSigning(nullArg, kv[1], kv[2])
       /\ jmatched' = (~nullArg /\ Len(kv[1]) = Len(kv[2]))
  /\ jdone' = TRUE
  /\ UNCHANGED <<input, output, done>>

Next == Prepare \/ PrepareJNI

Spec == Init /\ [][Next]_vars

-----------------------------------------------------------------------------
\* The result is a byte string over the URL-encoded alphabet and the two
\* separators: no raw space reaches the signed data.
TypeOK ==
  /\ input \in Maps
  /\ output \in Seq(Unreserved \cup {"+", "%", "=", "&"})
  /\ done \in BOOLEAN
  /\ jout \in {JavaNull} \cup [isNull: {FALSE}, bytes: Seq(Unreserved \cup {"+", "%", "=", "&"})]
  /\ jdone \in BOOLEAN /\ jmatched \in BOOLEAN

\* The loop of prepareKeyValueMapForDataSigning, with its std::sort over
\* raw keys and its '&' placement, yields exactly the normalization the
\* specification defines.
MatchesReference == done => output = Normalized(input)

\* Two different maps never normalize to the same bytes: the escaping of
\* '&', '=' and the space in keys and values keeps a signature over the
\* result from standing for a second parameter set.
NormalizationInjective ==
  done => \A other \in Maps :
            other # input => PrepareKeyValueMapForDataSigning(other) # output

\* Through the JNI entry, two arrays that list a map's entries, in whatever
\* order Java's map iteration produced them, are signed as exactly that
\* map's normalization; arrays of different lengths, or a missing one, give
\* NULL instead of bytes for a partial map.
JNIArraysMatchReference ==
  jdone => jout = IF jmatched THEN JavaBytes(Normalized(input)) ELSE JavaNull

=============================================================================
