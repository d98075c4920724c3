---------------------------- MODULE MqttMessages ----------------------------
(***************************************************************************)
(* The messages a tab shows: the buffer that is emptied once a frame       *)
(* (application/mqtt/message-buffer.ts), the list, its filter and the      *)
(* selection that follows it (messages.ts, messages-panel.tsx).            *)
(*                                                                         *)
(* How rows come and go is the subject of MqttRows; here they only do.     *)
(* The effects of a step are part of it: they run before anything else.    *)
(***************************************************************************)
EXTENDS Integers, Sequences, FiniteSets, SequencesExt, Functions, Arrays

CONSTANTS
    OpenTabs,     \* connections whose tabs are open
    Names,        \* topics of messages
    Wild, Shared, \* a filter with a wildcard that all topics match, and $share/<group>/ before a topic
    SharedName,   \* that topic
    Nothing,      \* no filter, no selection
    MaxMessages,  \* maxMessages
    MaxBuffered,  \* MAX_BUFFERED
    MaxArrivals,  \* bound: messages that arrive
    MaxClicks     \* bound: steps of the user

Filters == Names \cup {Wild, Shared}

ASSUME MessagesAssumption ==
    /\ SharedName \in Names /\ Cardinality({Wild, Shared, Nothing} \ Names) = 3
    /\ MaxMessages \in Nat \ {0} /\ MaxBuffered \in Nat \ {0} /\ MaxArrivals \in Nat /\ MaxClicks \in Nat

VARIABLES
    subscribed, \* subscribed[c]: the filters of the rows
    muted,      \* muted[c]: those that are muted
    buffer,     \* messageBuffer: [n, topic, tab]
    messages,   \* messages[c]: [n, topic], the oldest first
    selected,   \* selectedMessage of each tab
    follow,     \* autoFollow of each tab
    filter,     \* topicFilter, of the panel
    inFront,    \* the active tab
    arrived, clicks,
    \* history
    due         \* due[c]: messages that some row let through from their arrival on

messageVars == <<subscribed, muted, buffer, messages, selected, follow, filter, inFront, arrived, clicks, due>>
-----------------------------------------------------------------------------
(* Filters.                                                                *)

HasWildcard(f) == f = Wild
\* topicMatches with the shared prefix taken off
Covers(f, t) == f = t \/ f = Wild \/ (f = Shared /\ t = SharedName)

\* collectFilterTopics
FilterTopics(fs, ms) ==
    fs \cup {m.topic : m \in {m \in Range(ms) : \E f \in fs : HasWildcard(f) /\ Covers(f, m.topic)}}

\* filterMessagesByTopic
Visible(ms, fs, f) ==
    Only(ms, {m \in Range(ms) : f = Nothing \/ m.topic = f \/ (f \in fs /\ Covers(f, m.topic))})

Follow(ms, c, vis) == [selected EXCEPT ![c] = Last(vis)]
Effects(ms, fs, c, fol, f, sel) ==
    LET kept == IF f \in FilterTopics(fs[c], ms[c]) THEN f ELSE Nothing
        vis == Visible(ms[c], fs[c], kept)
    IN  /\ filter' = kept
        /\ selected' = IF fol[c] /\ vis # <<>> THEN Follow(ms[c], c, vis) ELSE sel
-----------------------------------------------------------------------------
(* Messages.                                                               *)

Passes(c, t) == \E f \in subscribed[c] \ muted[c] : Covers(f, t)

\* pushMessage: what is over the limit is thrown away
Arrive(c, t) ==
    LET m == [n |-> arrived + 1, topic |-> t, tab |-> c] IN
    /\ arrived < MaxArrivals
    /\ arrived' = arrived + 1
    /\ IF Len(buffer) < MaxBuffered
       THEN /\ buffer' = Append(buffer, m)
            /\ due' = IF Passes(c, t) THEN [due EXCEPT ![c] = @ \cup {m.n}] ELSE due
       ELSE UNCHANGED <<buffer, due>>
    /\ UNCHANGED <<subscribed, muted, messages, selected, follow, filter, inFront, clicks>>

\* the oldest go
Newest(ms) == IF Len(ms) > MaxMessages THEN SubSeq(ms, Len(ms) - MaxMessages + 1, Len(ms)) ELSE ms
Oldest(ms) == IF Len(ms) > MaxMessages THEN SubSeq(ms, 1, MaxMessages) ELSE ms
Kept(ms) == Newest(ms)

\* flushMessages, for every tab that has messages
Flush ==
    LET batch(c) == Only(buffer, {m \in Range(buffer) : m.tab = c /\ Passes(c, m.topic)})
        next == [c \in OpenTabs |-> IF batch(c) = <<>> THEN messages[c] ELSE Kept(messages[c] \o batch(c))]
    IN  /\ buffer # <<>> /\ buffer' = <<>>
        /\ messages' = next
        /\ IF next[inFront] = messages[inFront] THEN UNCHANGED <<filter, selected>>
           ELSE Effects(next, subscribed, inFront, follow, filter, selected)
        /\ UNCHANGED <<subscribed, muted, follow, inFront, arrived, clicks, due>>
-----------------------------------------------------------------------------
(* The user, and the rows.                                                 *)

MayClick == clicks < MaxClicks /\ clicks' = clicks + 1

\* what is in the buffer has no claim any more if no row lets it through
StillDue(fs, mu) ==
    due' = [c \in OpenTabs |-> {n \in due[c] : \A i \in DOMAIN buffer :
                               buffer[i].n = n => \E f \in fs[c] \ mu[c] : Covers(f, buffer[i].topic)}]

ToggleMute(f) ==
    LET mu == [muted EXCEPT ![inFront] = IF f \in @ THEN @ \ {f} ELSE @ \cup {f}] IN
    /\ MayClick /\ f \in subscribed[inFront]
    /\ muted' = mu
    /\ StillDue(subscribed, mu)
    /\ UNCHANGED <<subscribed, buffer, messages, selected, follow, filter, inFront, arrived>>
RowAdded(c, f) ==
    LET fs == [subscribed EXCEPT ![c] = @ \cup {f}] IN
    /\ MayClick /\ f \notin subscribed[c]
    /\ subscribed' = fs
    /\ IF c = inFront THEN Effects(messages, fs, c, follow, filter, selected) ELSE UNCHANGED <<filter, selected>>
    /\ UNCHANGED <<muted, buffer, messages, follow, inFront, arrived, due>>
\* by the user, or because the backend dropped it
RowRemoved(c, f) ==
    LET fs == [subscribed EXCEPT ![c] = @ \ {f}]
        mu == [muted EXCEPT ![c] = @ \ {f}] IN
    /\ MayClick /\ f \in subscribed[c]
    /\ subscribed' = fs /\ muted' = mu
    /\ StillDue(fs, mu)
    /\ IF c = inFront THEN Effects(messages, fs, c, follow, filter, selected) ELSE UNCHANGED <<filter, selected>>
    /\ UNCHANGED <<buffer, messages, follow, inFront, arrived>>

SetTopicFilter(f) ==
    /\ MayClick /\ f \in FilterTopics(subscribed[inFront], messages[inFront]) \cup {Nothing} /\ f # filter
    /\ Effects(messages, subscribed, inFront, follow, f, selected)
    /\ UNCHANGED <<subscribed, muted, buffer, messages, follow, inFront, arrived, due>>
\* the selection is not watched by the effect
SetSelectedMessage(m) ==
    /\ MayClick /\ m \in Range(Visible(messages[inFront], subscribed[inFront], filter))
    /\ selected' = [selected EXCEPT ![inFront] = m]
    /\ UNCHANGED <<subscribed, muted, buffer, messages, follow, filter, inFront, arrived, due>>
SetAutoFollow ==
    LET fol == [follow EXCEPT ![inFront] = ~@] IN
    /\ MayClick
    /\ follow' = fol
    /\ Effects(messages, subscribed, inFront, fol, filter, selected)
    /\ UNCHANGED <<subscribed, muted, buffer, messages, inFront, arrived, due>>
ClearMessages ==
    LET ms == [messages EXCEPT ![inFront] = <<>>] IN
    /\ MayClick /\ messages[inFront] # <<>>
    /\ messages' = ms
    /\ due' = [due EXCEPT ![inFront] = @ \cap {buffer[i].n : i \in DOMAIN buffer}]
    /\ Effects(ms, subscribed, inFront, follow, filter, [selected EXCEPT ![inFront] = Nothing])
    /\ UNCHANGED <<subscribed, muted, buffer, follow, inFront, arrived>>
SwitchTo(c) ==
    /\ MayClick /\ c # inFront
    /\ inFront' = c
    /\ Effects(messages, subscribed, c, follow, filter, selected)
    /\ UNCHANGED <<subscribed, muted, buffer, messages, follow, arrived, due>>
-----------------------------------------------------------------------------
MessagesInit ==
    /\ subscribed \in [OpenTabs -> {{}, {Wild}}] /\ muted = [c \in OpenTabs |-> {}]
    /\ buffer = <<>> /\ messages = [c \in OpenTabs |-> <<>>]
    /\ selected = [c \in OpenTabs |-> Nothing] /\ follow = [c \in OpenTabs |-> FALSE]
    /\ filter = Nothing /\ inFront \in OpenTabs
    /\ arrived = 0 /\ clicks = 0 /\ due = [c \in OpenTabs |-> {}]

MessagesNext ==
    \/ \E c \in OpenTabs, t \in Names : Arrive(c, t)
    \/ Flush
    \/ SetAutoFollow \/ ClearMessages
    \/ \E f \in Filters : ToggleMute(f) \/ \E c \in OpenTabs : RowAdded(c, f) \/ RowRemoved(c, f)
    \/ \E f \in Filters \cup {Nothing} : SetTopicFilter(f)
    \/ \E m \in Range(messages[inFront]) : SetSelectedMessage(m)
    \/ \E c \in OpenTabs : SwitchTo(c)
-----------------------------------------------------------------------------
(* Properties.                                                             *)

\* A message that some row let through, from its arrival to the frame that
\* shows it, is shown, in the order of arrival, until newer ones fill the list
\* (message-buffer.ts:52-55, 99-106, 122-125).
MessagesKept ==
    \A c \in OpenTabs :
        LET ns == [i \in DOMAIN messages[c] |-> messages[c][i].n]
            waiting == {buffer[i].n : i \in DOMAIN buffer} IN
        /\ \A i \in DOMAIN ns : i > 1 => ns[i - 1] < ns[i]
        /\ \A n \in due[c] \ waiting :
              n \in Range(ns) \/ (Len(ns) = MaxMessages /\ \A i \in DOMAIN ns : n < ns[i])

\* The message that is followed is one that is shown, whatever the filter, the
\* rows and the tab become (messages.ts:89-92).
FollowShown ==
    LET vis == Visible(messages[inFront], subscribed[inFront], filter) IN
    follow[inFront] /\ vis # <<>> => selected[inFront] \in Range(vis)

\* What the panel shows of the messages.
MessagesShown == MessagesKept /\ FollowShown
=============================================================================
