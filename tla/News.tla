-------------------------------- MODULE News --------------------------------
(***************************************************************************)
(* News: the handlers (kdx-server-core/src/connection.rs), the manager     *)
(* (news.rs) and its tables (kdx-storage/src/news.rs).                     *)
(*                                                                         *)
(* A handler awaits the database several times: it reads the group, and    *)
(* the post where one is to go, decides on what it read, writes in one     *)
(* statement.  Each of these is a step of its own, so those of the members *)
(* interleave.  Lists are only read and are no steps.  A post is its       *)
(* identifier, group, parent and author.  A list is ordered by second and  *)
(* then by identifier, which is random: here by identifier alone, so that  *)
(* every order occurs.  Posts that are refused as too long, blank or too   *)
(* fast (allow_post: see Pacing) are not told apart.                       *)
(***************************************************************************)
EXTENDS Integers, FiniteSets

CONSTANTS
  Members,         \* accounts that are signed in
  NewsClass,       \* per member, the class
  Moderators,      \* members with USER_ADMIN
  Thresholds,      \* the pairs <<min_read_class, min_post_class>> asked for
  MaxNewsgroups,   \* bound on groups ever made
  PostIds,         \* identifiers posts may get
  ThreadReplyMax   \* posts in a thread list (THREAD_REPLY_MAX_POSTS, _BYTES)

VARIABLES
  newsgroups,   \* the newsgroups table: thresholds by identifier
  groupsMade,   \* identifiers of groups used so far: 1..groupsMade
  posts,        \* the news_posts table
  spent,        \* identifiers of posts used so far
  asking        \* per member, the request its connection is in

newsVars == <<newsgroups, groupsMade, posts, spent, asking>>

MAX_CLASS_THRESHOLD == 3
NoPost == 0
Quiet == [stage |-> "quiet"]

NewsInit ==
  /\ newsgroups = <<>> /\ groupsMade = 0
  /\ posts = <<>> /\ spent = {}
  /\ asking = [m \in Members |-> Quiet]

ExistingGroups == DOMAIN newsgroups
ExistingPosts == DOMAIN posts
PostsOf(g) == {p \in ExistingPosts : posts[p].group = g}

\* The replies to p, the replies to those, ...: what ON DELETE CASCADE takes.
Beneath(p) ==
  LET Replied(S) == \A q \in ExistingPosts :
                      posts[q].parent \in S \cup {p} => q \in S
  IN {q \in ExistingPosts :
        \A S \in SUBSET ExistingPosts : Replied(S) => q \in S}

Without(gone) == [p \in ExistingPosts \ gone |-> posts[p]]
Answer(m) == asking' = [asking EXCEPT ![m] = Quiet]

(***************************************************************************)
(* Newsgroups: every write is one statement or one transaction.            *)
(***************************************************************************)
ValidThresholds(t) == \A i \in 1..2 : t[i] <= MAX_CLASS_THRESHOLD

\* reply_newsgroup_list reads only; a refusal changes nothing.
CreateGroup(m) ==
  \E t \in Thresholds :
    /\ m \in Moderators /\ asking[m] = Quiet
    /\ ValidThresholds(t) /\ groupsMade < MaxNewsgroups
    /\ groupsMade' = groupsMade + 1
    /\ newsgroups' = [g \in ExistingGroups \cup {groupsMade'} |->
                        IF g = groupsMade' THEN t ELSE newsgroups[g]]
    /\ UNCHANGED <<posts, spent, asking>>

UpdateGroup(m) ==
  \E g \in ExistingGroups, t \in Thresholds :
    /\ m \in Moderators /\ asking[m] = Quiet
    /\ ValidThresholds(t) /\ newsgroups[g][1] <= NewsClass[m]
    /\ newsgroups' = [newsgroups EXCEPT ![g] = t]
    /\ UNCHANGED <<groupsMade, posts, spent, asking>>

DeleteGroup(m) ==
  \E g \in ExistingGroups :
    /\ m \in Moderators /\ asking[m] = Quiet
    /\ newsgroups[g][1] <= NewsClass[m]
    /\ newsgroups' = [h \in ExistingGroups \ {g} |-> newsgroups[h]]
    /\ posts' = Without(PostsOf(g))
    /\ UNCHANGED <<groupsMade, spent, asking>>

(***************************************************************************)
(* A thread list, as a request for it or an edit is answered with.         *)
(***************************************************************************)
\* recent_posts: the newest of the group that fit.
RecentPosts(g) ==
  {p \in PostsOf(g) :
     Cardinality({q \in PostsOf(g) : q > p}) < ThreadReplyMax}

\* reply_window: a reply whose parent fell outside is shown as a root.
ReplyWindow(g) ==
  {[id |-> p, parent |-> IF posts[p].parent \in RecentPosts(g)
                         THEN posts[p].parent ELSE NoPost] :
     p \in RecentPosts(g)}

(***************************************************************************)
(* Posting.                                                                *)
(***************************************************************************)
\* The client names a post it has seen, there still or not.
PostCreate(m) ==
  \E g \in ExistingGroups, parent \in {NoPost} \cup spent :
    /\ asking[m] = Quiet /\ NewsClass[m] >= newsgroups[g][2]
    /\ asking' = [asking EXCEPT ![m] =
         [stage |-> "post", group |-> g, parent |-> parent]]
    /\ UNCHANGED <<newsgroups, groupsMade, posts, spent>>

\* Mutant: the parent may be in any group.
ParentStands_Anywhere(parent, g) == parent \in ExistingPosts

\* The EXISTS of the insert.
ParentStands(parent, g) == parent \in PostsOf(g)

InsertPost(m) ==
  LET r == asking[m] IN
  \E p \in PostIds \ spent :
    /\ r.stage = "post" /\ r.group \in ExistingGroups
    /\ r.parent # NoPost => ParentStands(r.parent, r.group)
    /\ spent' = spent \cup {p}
    /\ posts' = [q \in ExistingPosts \cup {p} |->
         IF q = p THEN [group |-> r.group, parent |-> r.parent,
                        author |-> m] ELSE posts[q]]
    /\ Answer(m)
    /\ UNCHANGED <<newsgroups, groupsMade>>

\* Too fast, no such parent in the group, the group gone (foreign key).
PostRefused(m) ==
  /\ asking[m].stage = "post" /\ Answer(m)
  /\ UNCHANGED <<newsgroups, groupsMade, posts, spent>>

(***************************************************************************)
(* Deleting a post: the post is read, then its group, then the row goes.   *)
(***************************************************************************)
PostDelete(m) ==
  \E p \in ExistingPosts :
    /\ asking[m] = Quiet
    /\ asking' = [asking EXCEPT ![m] =
         [stage |-> "group", post |-> p, group |-> posts[p].group,
          own |-> posts[p].author = m]]
    /\ UNCHANGED <<newsgroups, groupsMade, posts, spent>>

PostDeleteGroup(m) ==
  LET r == asking[m]
      moderate == m \in Moderators /\ NewsClass[m] >= newsgroups[r.group][1]
  IN /\ r.stage = "group"
     /\ IF r.group \in ExistingGroups /\ (moderate \/ r.own)
        THEN asking' = [asking EXCEPT ![m] =
               [stage |-> "delete", post |-> r.post, moderate |-> moderate]]
        ELSE Answer(m)
     /\ UNCHANGED <<newsgroups, groupsMade, posts, spent>>

\* Mutant: only direct replies are looked at.
OnlyOwnWords_Direct(p, m) ==
  \A q \in ExistingPosts : posts[q].parent = p => posts[q].author = m

\* The NOT EXISTS of delete_own_post.
OnlyOwnWords(p, m) == \A q \in Beneath(p) : posts[q].author = m

DeletePost(m) ==
  LET r == asking[m] IN
  /\ r.stage = "delete"
  /\ IF /\ r.post \in ExistingPosts
        /\ r.moderate \/ (posts[r.post].author = m /\ OnlyOwnWords(r.post, m))
     THEN posts' = Without({r.post} \cup Beneath(r.post))
     ELSE UNCHANGED posts
  /\ Answer(m)
  /\ UNCHANGED <<newsgroups, groupsMade, spent>>

NewsNext ==
  \E m \in Members :
    \/ CreateGroup(m) \/ UpdateGroup(m) \/ DeleteGroup(m)
    \/ PostCreate(m) \/ InsertPost(m) \/ PostRefused(m)
    \/ PostDelete(m) \/ PostDeleteGroup(m) \/ DeletePost(m)

NewsSpec == NewsInit /\ [][NewsNext]_newsVars

(***************************************************************************)
(* Properties.                                                             *)
(***************************************************************************)
\* delete_own_post, news_posts' cascade: a post only ever goes because its
\* author or a moderator deleted it or a post above it, or a moderator its
\* group.  However their steps fall, a member who is no moderator, or one who
\* could not read the group when it was looked up, never takes down the words
\* of another.
OwnWordsOnly ==
  [][\A p \in ExistingPosts \ DOMAIN posts' :
       \/ posts[p].group \notin DOMAIN newsgroups'
       \/ \E m \in Members :
            /\ asking[m].stage = "delete" /\ asking'[m].stage # "delete"
            /\ \/ posts[p].author = m
               \/ m \in Moderators /\ asking[m].moderate
     ]_newsVars

\* A thread hangs together whatever is deleted or posted meanwhile: the
\* group of a post and its parent, in the same group, are there, and a list
\* sent to a client refers to no post that is not in it.
ThreadsWhole ==
  /\ \A p \in ExistingPosts :
       /\ posts[p].group \in ExistingGroups
       /\ posts[p].parent # NoPost =>
            posts[p].parent \in PostsOf(posts[p].group)
  /\ \A g \in ExistingGroups :
       LET list == ReplyWindow(g) IN
       \A e \in list : e.parent = NoPost \/ \E f \in list : f.id = e.parent
=============================================================================
