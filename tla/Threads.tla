------------------------------- MODULE Threads -------------------------------
(***************************************************************************)
(* The posts of an exported thread: the JSON files of an entry are a       *)
(* forest of replies with a seed, or, with what the site sends, a graph in *)
(* which posts reply to each other.  The root is looked for upwards from   *)
(* the seed, then the replies are shown downwards, each below its parent.  *)
(* Posts are numbered in the order of their ids.                           *)
(***************************************************************************)
EXTENDS Naturals, Sequences, SequencesExt, Ranking

CONSTANT MaxPost        \* bound: posts whose JSON can be read
ASSUME ThreadsAssumption == MaxPost \in Nat \ {0}

VARIABLES
    replyTo,        \* [Post -> Post \cup {Nobody}]: a post elsewhere is Nobody
    madeAt,         \* [Post -> 0..1]: seconds, 0 when there are none
    seed,           \* the post the entry is about, if it is known and there
    kind,           \* "tweet" or "thread"
    place,          \* "climb", "descend" or "shown"
    root, visited,  \* the climb
    pending,        \* Seq(Post): replies still to show, the next one first
    shown           \* Seq(Post): the conversation, from above

threadData == <<replyTo, madeAt, seed, kind>>
threadVars == <<threadData, place, root, visited, pending, shown>>

Post == 1..MaxPost
Nobody == 0

(* A slip: the last post, whatever the entry is about. *)
LastPost(s) == MaxPost
StartOf(s) == IF s # Nobody THEN s ELSE MaxPost

ThreadsInit ==
    /\ replyTo \in [Post -> Post \cup {Nobody}] /\ madeAt \in [Post -> 0..1]
    /\ seed \in Post \cup {Nobody} /\ kind \in {"tweet", "thread"}
    /\ place = "climb" /\ root = StartOf(seed) /\ visited = {root} /\ pending = <<>> /\ shown = <<>>

(* A tweet is one post; a thread is climbed until there is no parent, or one *)
(* that was passed already.                                                  *)
ShowTweet ==
    /\ place = "climb" /\ kind = "tweet" /\ place' = "shown"
    /\ shown' = <<IF seed # Nobody THEN seed ELSE 1>>
    /\ UNCHANGED <<threadData, root, visited, pending>>
Climb ==
    /\ place = "climb" /\ kind = "thread" /\ UNCHANGED <<threadData, shown>>
    /\ IF replyTo[root] \in Post \ visited
       THEN root' = replyTo[root] /\ visited' = visited \cup {root'} /\ UNCHANGED <<place, pending>>
       ELSE place' = "descend" /\ pending' = <<root>> /\ UNCHANGED <<root, visited>>

Earlier(a, b) == madeAt[a] < madeAt[b] \/ (madeAt[a] = madeAt[b] /\ a < b)
RepliesTo(p) ==
    LET replies == {c \in Post : replyTo[c] = p}
    IN  SortedBy(replies, {x \in replies \X replies : Earlier(x[1], x[2])})

(* dfs: a post that was shown already is passed over. *)
Conversation == ToSet(shown)
Descend ==
    /\ place = "descend" /\ UNCHANGED <<threadData, root, visited>>
    /\ IF pending = <<>>
       THEN place' = "shown" /\ UNCHANGED <<pending, shown>>
       ELSE LET p == Head(pending)
            IN  /\ UNCHANGED place
                /\ IF p \in Conversation
                   THEN pending' = Tail(pending) /\ UNCHANGED shown
                   ELSE /\ shown' = Append(shown, p)
                        /\ pending' = RepliesTo(p) \o Tail(pending)

ThreadsNext == ShowTweet \/ Climb \/ Descend
ThreadsSpec == ThreadsInit /\ [][ThreadsNext]_threadVars

----------------------------------------------------------------------------
ThreadsTypeOK ==
    /\ place \in {"climb", "descend", "shown"} /\ root \in Post /\ visited \subseteq Post
    /\ pending \in Seq(Post) /\ Conversation \subseteq Post

(* A thread shows the post it is about, every post once, with each post all  *)
(* replies to it, every reply below its parent (the first post excepted, if  *)
(* posts reply in a circle), and earlier siblings first (build_thread, dfs). *)
ThreadIsWhole ==
    place = "shown" =>
        /\ (seed # Nobody => seed \in Conversation) /\ shown # <<>> /\ IsInjective(shown)
        /\ kind = "thread" =>
              /\ \A p \in Post : replyTo[p] \in Conversation => p \in Conversation
              /\ \A i \in 2..Len(shown) : replyTo[shown[i]] \in {shown[j] : j \in 1..(i - 1)}
              /\ \A i, j \in 2..Len(shown) :
                    replyTo[shown[i]] = replyTo[shown[j]] /\ Earlier(shown[i], shown[j]) => i < j
=============================================================================
