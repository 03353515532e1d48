------------------------------- MODULE Fields -------------------------------
(***************************************************************************)
(* From the document of a start to the topics of its redis reader: the     *)
(* checks of gqlStart, the field names that ast.go takes from the          *)
(* document, and the loop of HandleSubscriptionStart that lets every field *)
(* add its topics to a Subscriber.                                         *)
(***************************************************************************)
EXTENDS Naturals, Sequences, SequencesExt

CONSTANTS
  Schema,         \* the topics the Subscribe of each subscription field asks for
  NoSubscribe,    \* fields of the schema without Subscribe
  BadTopic,       \* a value that is no Topic
  MaxDefs, MaxSelections   \* bounds of a document

FieldNames == DOMAIN Schema \cup NoSubscribe
Fragment   == "..."     \* a fragment spread or an inline fragment
NoName     == ""

Upto(S, n)  == UNION {[1 .. k -> S] : k \in 1 .. n}
Selections  == Upto(FieldNames \cup {Fragment}, MaxSelections)
Definitions == [op : {"subscription", "query", "fragment"}, sels : Selections]
Documents   == Upto(Definitions, MaxDefs)

ASSUME FieldsAssumption ==
  /\ MaxDefs \in Nat /\ MaxSelections \in Nat
  /\ {Fragment, NoName} \cap FieldNames = {}
  /\ DOMAIN Schema \cap NoSubscribe = {}
  /\ \A f \in DOMAIN Schema : Schema[f] \in Seq(ToSet(Schema[f]))

VARIABLES
  sub,      \* the Subscription: whether it has an id and a query, whether the parser and
            \* the validator accept the query, and its document
  Names,    \* Subscription.Fields
  next, at, \* the field whose Subscribe is called, the topics it has asked for so far
  topics,   \* the topics of the Subscriber
  outcome   \* start, refused (by gqlStart), fields, error (of the handler), stored

vars == <<sub, Names, next, at, topics, outcome>>

Init ==
  /\ sub \in [id : BOOLEAN, query : BOOLEAN, valid : BOOLEAN, doc : Documents]
  /\ Names = << >> /\ next = 1 /\ at = 0 /\ topics = << >> /\ outcome = "start"

(***************************************************************************)
(* ast.go.                                                                 *)
(***************************************************************************)
(* Variant: every operation counts. *)
AllDefinitions(doc, op) == SelectSeq(doc, LAMBDA d : d.op # "fragment")

operationDefinitionsWithOperation(doc, op) ==
  LET defs[k \in 0 .. Len(doc)] ==
        IF k = 0 THEN << >>
                 ELSE IF doc[k].op = op THEN Append(defs[k - 1], doc[k]) ELSE defs[k - 1]
  IN  defs[Len(doc)]

selectionSetsForOperationDefinitions(defs) == [k \in DOMAIN defs |-> defs[k].sels]

(* A selection that is no field leaves its place empty. *)
nameForSelectionSet(set) ==
  [k \in DOMAIN set |-> IF set[k] \in FieldNames THEN set[k] ELSE NoName]

namesForSelectionSets(sets) ==
  FlattenSeq([k \in DOMAIN sets |-> nameForSelectionSet(sets[k])])

SubscriptionFieldNamesFromDocument(doc) ==
  namesForSelectionSets(selectionSetsForOperationDefinitions(
    operationDefinitionsWithOperation(doc, "subscription")))

(***************************************************************************)
(* gqlStart.  The connection of the subscription is always set there.      *)
(***************************************************************************)
ValidateSubscription(s) == s.id /\ s.query

(* A subscription without id or query, a query that does not parse and a document
   that does not fit the schema are refused, in this order and alike. *)
GqlStart ==
  /\ outcome = "start"
  /\ \/ /\ ~ValidateSubscription(sub) \/ ~sub.valid
        /\ outcome' = "refused" /\ UNCHANGED Names
     \/ /\ ValidateSubscription(sub) /\ sub.valid
        /\ outcome' = "fields" /\ Names' = SubscriptionFieldNamesFromDocument(sub.doc)
  /\ UNCHANGED <<sub, next, at, topics>>

MatchesField(field) == Names # << >> /\ \E k \in DOMAIN Names : Names[k] = field

(***************************************************************************)
(* The Subscriber and HandleSubscriptionStart.                             *)
(***************************************************************************)
(* Variant: a topic is appended once more. *)
SubscribeAgain(ts, topic) == Append(ts, topic)

Subscribe(ts, topic) == IF topic \in ToSet(ts) THEN ts ELSE Append(ts, topic)

InFields == outcome = "fields" /\ next <= Len(Names)

(* A name that is no field of the schema, or a field without Subscribe. *)
FieldNotFound ==
  /\ InFields /\ Names[next] \notin DOMAIN Schema
  /\ outcome' = "error"
  /\ UNCHANGED <<sub, Names, next, at, topics>>

(* The field's Subscribe asks for a topic, and returns the error if it is none. *)
SubscriberSubscribe ==
  /\ InFields /\ Names[next] \in DOMAIN Schema /\ at < Len(Schema[Names[next]])
  /\ LET topic == Schema[Names[next]][at + 1] IN
     IF topic = BadTopic
       THEN outcome' = "error" /\ UNCHANGED <<at, topics>>
       ELSE topics' = Subscribe(topics, topic) /\ at' = at + 1 /\ UNCHANGED outcome
  /\ UNCHANGED <<sub, Names, next>>

(* The field's Subscribe has asked for all its topics. *)
FieldSubscribed ==
  /\ InFields /\ Names[next] \in DOMAIN Schema /\ at = Len(Schema[Names[next]])
  /\ next' = next + 1 /\ at' = 0
  /\ UNCHANGED <<sub, Names, topics, outcome>>

(* The reader is stored and started with the topics. *)
StoreReader ==
  /\ outcome = "fields" /\ next > Len(Names)
  /\ outcome' = "stored"
  /\ UNCHANGED <<sub, Names, next, at, topics>>

Next == GqlStart \/ FieldNotFound \/ SubscriberSubscribe \/ FieldSubscribed \/ StoreReader

Spec == Init /\ [][Next]_vars

(***************************************************************************)
(* Properties.                                                             *)
(***************************************************************************)
Selected(field) ==
  \E k \in DOMAIN sub.doc :
    sub.doc[k].op = "subscription" /\ field \in ToSet(sub.doc[k].sels)

(* MatchesField tells exactly the fields selected by a subscription operation
   of the document, whatever other definitions stand between them. *)
MatchesSelected ==
  outcome \notin {"start", "refused"} => \A f \in FieldNames : MatchesField(f) <=> Selected(f)

(* A reader subscribes to exactly the topics of the selected fields and to none
   twice: the confirmation of redis that has the count topicsLen is the last. *)
TopicsAreExact ==
  outcome = "stored" =>
    /\ ToSet(topics) = UNION {ToSet(Schema[f]) : f \in {g \in DOMAIN Schema : Selected(g)}}
    /\ IsInjective(topics)

(* README.md, "This library will call Subscribe method of all subscription fields
   described in the query": a valid query whose fields can all be subscribed to
   gets its reader. *)
EverySubscribableStarts ==
  (\A f \in FieldNames : Selected(f) => f \in DOMAIN Schema /\ BadTopic \notin ToSet(Schema[f]))
    => outcome # "error"
=============================================================================
