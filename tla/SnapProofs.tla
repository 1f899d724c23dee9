----------------------------- MODULE SnapProofs -----------------------------
(* The stories of SnapChatClone for any number of phones, users, names and   *)
(* photos: types, whose story a photo is in, when a story may go, that the   *)
(* collection implements StoryBoard, and what holds while uploads do not     *)
(* overlap.  Then the feed's screen: it adds nothing to what the stories do, *)
(* it is current whenever nothing is due, and the time it promises is never  *)
(* more than the snap has left.                                              *)
EXTENDS SnapFeed, WellFoundedInduction, TLAPS

IsAdd(w) == w.owner # Nobody

\* A document is added once, by the upload it is named after, and nobody
\* deletes it before.
Fresh ==
    /\ \A q \in Photos : stage[q] # "sent" =>
          writes[q] = {} /\ ~Story(q) /\ q \notin deleting
    /\ \A q \in Photos : \A w \in writes[q] : IsAdd(w) =>
          /\ w = [id |-> q, owner |-> filed[q], urls |-> {q}] /\ writes[q] = {w}
          /\ ~Story(q) /\ q \notin deleting

\* Whatever has been sent to be deleted is old, and can only grow older.
DeletesAreLate == \A i \in deleting : Story(i) => now >= snaps[i].date + TTL

\* A photo in a story was sent, and filed under the story's owner; the same
\* will hold of the lists that are on their way to a story.
Filing ==
    /\ \A i, p \in Photos : (Story(i) /\ p \in snaps[i].urls) =>
          stage[p] = "sent" /\ snaps[i].owner = filed[p]
    /\ \A q \in Photos : \A w \in writes[q] : ~IsAdd(w) =>
          /\ stage[w.id] = "sent" /\ \A v \in writes[w.id] : ~IsAdd(v)
          /\ \A p \in w.urls :
                stage[p] = "sent" /\ (Story(w.id) => snaps[w.id].owner = filed[p])

\* The singleton holds, and the query of an upload is for, the name of a user
\* whose feed this process has opened; a name once given stays.
NamesKnown ==
    /\ \A u \in Users \ accounts : userInfo[u] = Nobody
    /\ \A d \in Phones : asking[d] \subseteq opened[d] /\ username[d] \in NamesHere(d)
    /\ \A p \in Photos : stage[p] = "query" => filed[p] \in NamesHere(PhoneOf[p])

StoryInv == Fresh /\ DeletesAreLate /\ Filing

IInv == TypeOK /\ StoryInv /\ NamesKnown

-----------------------------------------------------------------------------
\* What StoryInv speaks of; the steps that leave it alone preserve StoryInv.
core == <<now, snaps, deleting, stage, filed, writes>>

LEMMA CoreUnchanged ==
    ASSUME StoryInv, UNCHANGED core
    PROVE  StoryInv'
  BY DEF StoryInv, Fresh, DeletesAreLate, Filing, Story, IsAdd, core

\* An upload that gives up, or moves on before its query is answered, was not
\* sent and is not: no list mentions it.
LEMMA StageMoves ==
    ASSUME TypeOK, StoryInv, stage' \in [Photos -> Stages],
           filed' \in [Photos -> Names],
           \A p \in Photos : stage'[p] = "sent" <=> stage[p] = "sent",
           \A p \in Photos : stage[p] = "sent" => filed'[p] = filed[p],
           UNCHANGED <<now, snaps, deleting, writes>>
    PROVE  StoryInv'
  <1>1. \A q \in Photos : \A w \in writes[q] :
           stage[q] = "sent" /\ w.urls \in SUBSET Photos /\ w.id \in Photos
    BY DEF TypeOK, StoryInv, Fresh, Write
  <1>2. Fresh'
    BY <1>1 DEF StoryInv, Fresh, Story, IsAdd
  <1>3. DeletesAreLate'
    BY DEF StoryInv, DeletesAreLate, Story
  <1>4. Filing'
    <2>1. (\A i, p \in Photos : (Story(i) /\ p \in snaps[i].urls) =>
             stage[p] = "sent" /\ snaps[i].owner = filed[p])'
      BY DEF StoryInv, Filing, Story
    <2>2. ASSUME NEW q \in Photos, NEW w \in writes[q], ~IsAdd(w)
          PROVE  /\ stage'[w.id] = "sent" /\ \A v \in writes[w.id] : ~IsAdd(v)
                 /\ \A p \in w.urls :
                      stage'[p] = "sent" /\ (Story(w.id) => snaps[w.id].owner = filed'[p])
      BY <1>1, <2>2 DEF StoryInv, Filing
    <2> QED  BY <2>1, <2>2 DEF Filing, Story, IsAdd
  <1> QED  BY <1>2, <1>3, <1>4 DEF StoryInv

-----------------------------------------------------------------------------
\* Types.  One step per action.
LEMMA TypeStep == TypeOK /\ [Next]_vars => TypeOK'
  <1> SUFFICES ASSUME TypeOK, [Next]_vars
               PROVE  TypeOK'
    OBVIOUS
  <1> USE StoriesAssumption
  <1> USE DEF StoriesAssumption, TypeOK, server, people, session, upload, Stages
  <1>1. ASSUME NEW d \in Phones, NEW u \in Users, NEW n \in Names, SignUp(d, u, n)
        PROVE  TypeOK'
    BY <1>1 DEF SignUp, OpenFeed, NameAccepted
  <1>2. ASSUME NEW d \in Phones, NEW u \in Users, SignIn(d, u)
        PROVE  TypeOK'
    BY <1>2 DEF SignIn, OpenFeed
  <1>3. ASSUME NEW d \in Phones, Logout(d)
        PROVE  TypeOK'
    BY <1>3 DEF Logout
  <1>4. ASSUME NEW d \in Phones, Die(d)
        PROVE  TypeOK'
    BY <1>4 DEF Die
  <1>5. ASSUME NEW d \in Phones, Launch(d)
        PROVE  TypeOK'
    BY <1>5 DEF Launch, OpenFeed
  <1>6. ASSUME NEW d \in Phones, NEW u \in Users, UserInfoArrives(d, u)
        PROVE  TypeOK'
    BY <1>4, <1>6 DEF UserInfoArrives
  <1>7. ASSUME NEW d \in Phones, NEW u \in Users, UserInfoMissing(d, u)
        PROVE  TypeOK'
    BY <1>7 DEF UserInfoMissing
  <1>8. ASSUME NEW p \in Photos, UploadClicked(p)
        PROVE  TypeOK'
    BY <1>8 DEF UploadClicked, Step
  <1>9. ASSUME NEW p \in Photos, PutDone(p)
        PROVE  TypeOK'
    BY <1>9 DEF PutDone, Step
  <1>10. ASSUME NEW p \in Photos, UrlDone(p)
         PROVE  TypeOK'
    BY <1>10 DEF UrlDone, Step
  <1>11. ASSUME NEW p \in Photos, QueryAnswered(p)
         PROVE  TypeOK'
    <2> DEFINE merges == {[id |-> i, owner |-> Nobody, urls |-> WithPhoto(i, p)] : i \in Found(p)}
               name   == username[PhoneOf[p]]
               adds   == {[id |-> p, owner |-> name, urls |-> {p}]}
    <2>1. \A i \in Photos : WithPhoto(i, p) \in SUBSET Photos
      BY DEF WithPhoto, Doc
    <2>2. name \in Names
      OBVIOUS
    <2>3. merges \in SUBSET Write
      BY <2>1 DEF Found, Write
    <2>4. adds \in SUBSET Write
      BY <2>2 DEF Write
    <2>5. \/ writes' = [writes EXCEPT ![p] = merges] /\ UNCHANGED filed
          \/ writes' = [writes EXCEPT ![p] = adds] /\ filed' = [filed EXCEPT ![p] = name]
      BY <1>11 DEF QueryAnswered
    <2>6. writes' \in [Photos -> SUBSET Write] /\ filed' \in [Photos -> Names]
      <3> HIDE DEF merges, adds, name
      <3> QED  BY <2>2, <2>3, <2>4, <2>5
    <2> QED  BY <1>11, <2>6 DEF QueryAnswered, Step
  <1>12. ASSUME NEW p \in Photos, UploadFails(p)
         PROVE  TypeOK'
    BY <1>12 DEF UploadFails
  <1>13. ASSUME NEW p \in Photos, NEW w \in writes[p], WriteApplied(p, w)
         PROVE  TypeOK'
    <2>1. w \in Write /\ writes' \in [Photos -> SUBSET Write]
      BY <1>13 DEF WriteApplied
    <2>2. snaps' \in [Photos -> Doc] /\ \A i \in Photos : snaps'[i].date <= now
      <3>1. now \in Nat /\ w.id \in Photos /\ w.owner \in Names \cup {Nobody}
            /\ w.urls \in SUBSET Photos
        BY <2>1 DEF Write
      <3>2. CASE w.owner # Nobody
        <4> DEFINE new == [owner |-> w.owner, date |-> now, urls |-> w.urls]
        <4>1. snaps' = [snaps EXCEPT ![w.id] = new]
          BY <1>13, <3>2 DEF WriteApplied, ServerTimestamp
        <4>2. new \in Doc /\ new.date = now
          BY <3>1 DEF Doc
        <4> HIDE DEF new
        <4> QED  BY <3>1, <4>1, <4>2
      <3>3. CASE w.owner = Nobody
        <4> DEFINE new == [snaps[w.id] EXCEPT !.urls = w.urls]
        <4>1. snaps' = [snaps EXCEPT ![w.id] = new]
          BY <1>13, <3>3 DEF WriteApplied
        <4>2. new \in Doc /\ new.date = snaps[w.id].date
          <5>1. snaps[w.id] \in Doc
            BY <3>1
          <5>2. w.urls \in SUBSET Photos
            BY <3>1
          <5> QED  BY ONLY <5>1, <5>2 DEF Doc
        <4> HIDE DEF new
        <4> QED  BY <3>1, <4>1, <4>2
      <3> QED  BY <3>2, <3>3
    <2>3. listen' \in [Phones -> {"off", "idle", "due"}]
      BY <1>13 DEF WriteApplied, Notify
    <2> QED  BY <1>13, <2>1, <2>2, <2>3 DEF WriteApplied
  <1>14. ASSUME NEW p \in Photos, NEW w \in writes[p], WriteFails(p, w)
         PROVE  TypeOK'
    BY <1>14 DEF WriteFails
  <1>15. ASSUME NEW d \in Phones, SnapshotArrives(d)
         PROVE  TypeOK'
    BY <1>15 DEF SnapshotArrives
  <1>16. ASSUME NEW d \in Phones, ListenerFails(d)
         PROVE  TypeOK'
    BY <1>16 DEF ListenerFails
  <1>17. ASSUME NEW i \in Photos, DeleteApplied(i)
         PROVE  TypeOK'
    BY <1>17 DEF DeleteApplied, Notify, NoDoc, Doc
  <1>18. ASSUME NEW i \in Photos, DeleteFails(i)
         PROVE  TypeOK'
    BY <1>18 DEF DeleteFails
  <1>19. CASE Tick
    BY <1>19 DEF Tick, Doc
  <1>20. CASE UNCHANGED vars
    BY <1>20 DEF vars
  <1> QED
    BY <1>1, <1>2, <1>3, <1>4, <1>5, <1>6, <1>7, <1>8, <1>9, <1>10, <1>11, <1>12, <1>13,
       <1>14, <1>15, <1>16, <1>17, <1>18, <1>19, <1>20
       DEF Next, StoryNext, UploadNext, SessionNext, Kill

-----------------------------------------------------------------------------
\* The answer of an upload's query: its photo goes to the stories of the name
\* that was asked for, or to a new one of the name of the moment.
LEMMA QueryStep ==
    ASSUME TypeOK, StoryInv, NEW p \in Photos, QueryAnswered(p)
    PROVE  StoryInv'
  <1> USE DEF StoryInv, server
  <1>1. /\ stage[p] = "query" /\ stage' = [stage EXCEPT ![p] = "sent"]
        /\ writes[p] = {} /\ ~Story(p) /\ p \notin deleting
        /\ UNCHANGED <<now, snaps, deleting>>
    BY DEF QueryAnswered, Step, Fresh
  <1>2. stage' \in [Photos -> Stages] /\ stage'[p] = "sent"
        /\ \A q \in Photos \ {p} : stage'[q] = stage[q]
    BY <1>1 DEF TypeOK, Stages
  <1>3. DeletesAreLate'
    BY <1>1 DEF DeletesAreLate, Story
  <1>4. CASE Found(p) # {}
    <2>1. /\ filed' = filed /\ \A q \in Photos \ {p} : writes'[q] = writes[q]
          /\ writes'[p] = {[id |-> i, owner |-> Nobody, urls |-> WithPhoto(i, p)] : i \in Found(p)}
      BY <1>4 DEF QueryAnswered, TypeOK
    <2>2. ASSUME NEW w \in writes'[p]
          PROVE  /\ ~IsAdd(w) /\ w.id \in Photos /\ Story(w.id)
                 /\ snaps[w.id].owner = filed[p]
                 /\ w.urls = snaps[w.id].urls \cup {p}
      BY <2>1 DEF IsAdd, Found, WithPhoto
    <2>3. Fresh'
      BY <1>1, <1>2, <2>1, <2>2 DEF Fresh, Story, IsAdd
    <2>4. ASSUME NEW i \in Photos, NEW r \in Photos, Story(i), r \in snaps[i].urls
          PROVE  stage'[r] = "sent" /\ snaps[i].owner = filed[r] /\ r # p
      BY <1>1, <1>2, <2>4 DEF Filing
    <2>5. ASSUME NEW q \in Photos, NEW w \in writes'[q], ~IsAdd(w)
          PROVE  /\ stage'[w.id] = "sent" /\ \A v \in writes'[w.id] : ~IsAdd(v)
                 /\ \A r \in w.urls :
                      stage'[r] = "sent" /\ (Story(w.id) => snaps[w.id].owner = filed[r])
      <3>1. CASE q = p
        <4>1. w.id # p /\ stage[w.id] = "sent"
          BY <1>1, <2>2, <3>1 DEF Fresh
        <4>2. \A v \in writes[w.id] : ~IsAdd(v)
          BY <2>2, <3>1 DEF Fresh
        <4>3. \A r \in w.urls : r \in Photos
          BY <2>2, <3>1 DEF TypeOK, Doc
        <4> QED  BY <1>2, <2>1, <2>2, <2>4, <3>1, <4>1, <4>2, <4>3
      <3>2. CASE q # p
        <4>1. w \in writes[q] /\ w.id \in Photos /\ w.urls \in SUBSET Photos
          BY <2>1, <3>2 DEF TypeOK, Write
        <4>2. /\ stage[w.id] = "sent" /\ \A v \in writes[w.id] : ~IsAdd(v)
              /\ \A r \in w.urls :
                   stage[r] = "sent" /\ (Story(w.id) => snaps[w.id].owner = filed[r])
          BY <2>5, <4>1 DEF Filing
        <4> QED  BY <1>1, <1>2, <2>1, <4>1, <4>2
      <3> QED  BY <3>1, <3>2
    <2> QED  BY <1>1, <1>3, <2>1, <2>3, <2>4, <2>5 DEF Filing, Story, IsAdd
  <1>5. CASE Found(p) = {}
    <2> DEFINE name == username[PhoneOf[p]]
    <2>1. /\ name \in Names /\ filed'[p] = name /\ \A q \in Photos \ {p} : filed'[q] = filed[q]
          /\ \A q \in Photos \ {p} : writes'[q] = writes[q]
          /\ writes'[p] = {[id |-> p, owner |-> name, urls |-> {p}]}
      BY <1>5, StoriesAssumption DEF QueryAnswered, TypeOK, StoriesAssumption
    <2>2. \A w \in writes'[p] : IsAdd(w) /\ w = [id |-> p, owner |-> filed'[p], urls |-> {p}]
      BY <2>1, StoriesAssumption DEF IsAdd, StoriesAssumption
    <2>3. Fresh'
      <3>1. \A q \in Photos : stage'[q] # "sent" =>
               writes'[q] = {} /\ ~Story(q) /\ q \notin deleting
        BY <1>2, <2>1 DEF Fresh
      <3>2. ASSUME NEW q \in Photos, NEW w \in writes'[q], IsAdd(w)
            PROVE  /\ w = [id |-> q, owner |-> filed'[q], urls |-> {q}] /\ writes'[q] = {w}
                   /\ ~Story(q) /\ q \notin deleting
        <4> HIDE DEF name
        <4>1. CASE q = p
          BY <1>1, <2>1, <4>1
        <4>2. CASE q # p
          BY <2>1, <3>2, <4>2 DEF Fresh
        <4> QED  BY <4>1, <4>2
      <3> QED  BY <1>1, <3>1, <3>2 DEF Fresh, Story, IsAdd
    <2>4. ASSUME NEW i \in Photos, NEW r \in Photos, Story(i), r \in snaps[i].urls
          PROVE  stage'[r] = "sent" /\ snaps[i].owner = filed'[r]
      BY <1>1, <1>2, <2>1, <2>4 DEF Filing
    <2>5. ASSUME NEW q \in Photos, NEW w \in writes'[q], ~IsAdd(w)
          PROVE  /\ stage'[w.id] = "sent" /\ \A v \in writes'[w.id] : ~IsAdd(v)
                 /\ \A r \in w.urls :
                      stage'[r] = "sent" /\ (Story(w.id) => snaps[w.id].owner = filed'[r])
      <3>1. q # p /\ w \in writes[q] /\ w.id \in Photos /\ w.urls \in SUBSET Photos
        <4>1. q # p
          BY <2>2, <2>5
        <4>2. w \in writes[q]
          BY <2>1, <4>1
        <4> QED  BY <4>1, <4>2 DEF TypeOK, Write
      <3>2. /\ stage[w.id] = "sent" /\ \A v \in writes[w.id] : ~IsAdd(v)
            /\ \A r \in w.urls :
                 stage[r] = "sent" /\ (Story(w.id) => snaps[w.id].owner = filed[r])
        BY <2>5, <3>1 DEF Filing
      <3> QED  BY <1>1, <1>2, <2>1, <3>1, <3>2
    <2> QED  BY <1>1, <1>3, <2>1, <2>3, <2>4, <2>5 DEF Filing, Story, IsAdd
  <1> QED  BY <1>4, <1>5

-----------------------------------------------------------------------------
\* A write takes effect: an add makes its upload's story, whose photo is filed
\* under that owner; a merge brings a story photos that were filed under its.
LEMMA WriteStep ==
    ASSUME TypeOK, StoryInv, NEW p \in Photos, NEW w \in writes[p], WriteApplied(p, w)
    PROVE  StoryInv'
  <1> USE DEF StoryInv
  <1>1. /\ writes' \in [Photos -> SUBSET Write] /\ writes'[p] = writes[p] \ {w}
        /\ \A q \in Photos \ {p} : writes'[q] = writes[q]
        /\ UNCHANGED <<now, deleting, stage, filed>>
    BY DEF WriteApplied, TypeOK
  <1>2. w \in Write /\ w.id \in Photos /\ w.urls \in SUBSET Photos /\ stage[p] = "sent"
    BY DEF TypeOK, Write, Fresh
  <1>3. \A q \in Photos : writes'[q] \subseteq writes[q]
    BY <1>1
  <1>4. CASE IsAdd(w)
    <2>1. /\ w = [id |-> p, owner |-> filed[p], urls |-> {p}] /\ writes[p] = {w}
          /\ ~Story(p) /\ p \notin deleting /\ writes'[p] = {}
      BY <1>1, <1>4 DEF Fresh
    <2>2. snaps' = [snaps EXCEPT ![p] = [owner |-> filed[p], date |-> now, urls |-> {p}]]
      BY <1>4, <2>1 DEF WriteApplied, IsAdd, ServerTimestamp
    <2>3. /\ \A i \in Photos \ {p} : snaps'[i] = snaps[i]
          /\ snaps'[p].owner = filed[p] /\ snaps'[p].urls = {p}
      BY <2>2 DEF TypeOK
    <2>4. Fresh'
      BY <1>1, <1>2, <1>3, <2>1, <2>3 DEF Fresh, Story, IsAdd
    <2>5. DeletesAreLate'
      BY <1>1, <2>1, <2>3 DEF DeletesAreLate, Story, TypeOK
    <2>6. ASSUME NEW q \in Photos, NEW v \in writes[q], ~IsAdd(v)
          PROVE  v.id # p
      BY <1>4, <2>6 DEF Filing
    <2>7. Filing'
      <3>1. ASSUME NEW i \in Photos, NEW r \in Photos, Story(i)', r \in snaps'[i].urls
            PROVE  stage[r] = "sent" /\ snaps'[i].owner = filed[r]
        BY <1>2, <2>3, <3>1 DEF Filing, Story
      <3>2. ASSUME NEW q \in Photos, NEW v \in writes'[q], ~IsAdd(v)
            PROVE  /\ stage[v.id] = "sent" /\ \A x \in writes'[v.id] : ~IsAdd(x)
                   /\ \A r \in v.urls :
                        stage[r] = "sent" /\ (Story(v.id)' => snaps'[v.id].owner = filed[r])
        <4>1. v \in writes[q] /\ v.id \in Photos \ {p}
          BY <1>3, <2>6, <3>2 DEF TypeOK, Write
        <4>2. /\ stage[v.id] = "sent" /\ \A x \in writes[v.id] : ~IsAdd(x)
              /\ \A r \in v.urls :
                   stage[r] = "sent" /\ (Story(v.id) => snaps[v.id].owner = filed[r])
          BY <3>2, <4>1 DEF Filing
        <4> QED  BY <1>3, <2>3, <4>1, <4>2 DEF Story
      <3> QED  BY <1>1, <3>1, <3>2 DEF Filing, Story, IsAdd
    <2> QED  BY <2>4, <2>5, <2>7
  <1>5. CASE ~IsAdd(w)
    <2>1. snaps' = [snaps EXCEPT ![w.id].urls = w.urls]
      BY <1>5 DEF WriteApplied, IsAdd
    <2>2. /\ \A i \in Photos \ {w.id} : snaps'[i] = snaps[i]
          /\ snaps'[w.id].owner = snaps[w.id].owner /\ snaps'[w.id].date = snaps[w.id].date
          /\ snaps'[w.id].urls = w.urls
      BY <1>2, <2>1 DEF TypeOK, Doc
    <2>3. \A i \in Photos : snaps'[i].owner = snaps[i].owner /\ snaps'[i].date = snaps[i].date
      BY <2>2
    <2>4. \A i \in Photos : Story(i)' <=> Story(i)
      BY <2>3 DEF Story
    <2>5. Fresh'
      <3>1. \A q \in Photos : stage[q] # "sent" =>
               writes'[q] = {} /\ ~Story(q) /\ q \notin deleting
        BY <1>3 DEF Fresh
      <3>2. ASSUME NEW q \in Photos, NEW v \in writes'[q], IsAdd(v)
            PROVE  /\ v = [id |-> q, owner |-> filed[q], urls |-> {q}] /\ writes'[q] = {v}
                   /\ ~Story(q) /\ q \notin deleting
        BY <1>3, <3>2 DEF Fresh
      <3> QED  BY <1>1, <2>4, <3>1, <3>2 DEF Fresh, IsAdd
    <2>6. DeletesAreLate'
      BY <1>1, <2>3, <2>4 DEF DeletesAreLate, TypeOK
    <2>7. Filing'
      <3>1. ASSUME NEW i \in Photos, NEW r \in Photos, Story(i), r \in snaps'[i].urls
            PROVE  stage[r] = "sent" /\ snaps[i].owner = filed[r]
        BY <1>5, <2>2, <3>1 DEF Filing
      <3>2. ASSUME NEW q \in Photos, NEW v \in writes'[q], ~IsAdd(v)
            PROVE  /\ stage[v.id] = "sent" /\ \A x \in writes'[v.id] : ~IsAdd(x)
                   /\ \A r \in v.urls :
                        stage[r] = "sent" /\ (Story(v.id) => snaps[v.id].owner = filed[r])
        <4>1. v \in writes[q] /\ v.id \in Photos
          BY <1>3 DEF TypeOK, Write
        <4> QED  BY <1>3, <3>2, <4>1 DEF Filing
      <3>3. \A q \in Photos : \A v \in writes'[q] : v.id \in Photos
        BY <1>1 DEF Write
      <3> QED  BY <1>1, <2>3, <2>4, <3>1, <3>2, <3>3 DEF Filing, IsAdd
    <2> QED  BY <2>5, <2>6, <2>7
  <1> QED  BY <1>4, <1>5

-----------------------------------------------------------------------------
\* The collection's side of the inductive invariant.  One step per action that
\* changes what it speaks of.
LEMMA StoryStep ==
    ASSUME TypeOK, TypeOK', StoryInv, [Next]_vars
    PROVE  StoryInv'
  <1> USE StoriesAssumption
  <1> USE DEF StoriesAssumption, server, people, session, upload
  <1>1. stage' \in [Photos -> Stages] /\ filed' \in [Photos -> Names]
    BY DEF TypeOK
  <1>2. ASSUME NEW d \in Phones, Die(d)
        PROVE  StoryInv'
    <2>1. \A p \in Photos : stage'[p] = "sent" <=> stage[p] = "sent"
      BY <1>2 DEF Die, TypeOK
    <2> QED  BY <1>1, <1>2, <2>1, StageMoves DEF Die
  <1>3. ASSUME NEW p \in Photos, UploadClicked(p) \/ PutDone(p) \/ UrlDone(p) \/ UploadFails(p)
        PROVE  StoryInv'
    <2>1. UNCHANGED <<now, snaps, deleting, writes>>
      BY <1>3 DEF UploadClicked, PutDone, UrlDone, UploadFails
    <2>2. stage[p] # "sent" /\ stage'[p] # "sent" /\ \A q \in Photos \ {p} : stage'[q] = stage[q]
      BY <1>3 DEF UploadClicked, PutDone, UrlDone, UploadFails, Step, TypeOK
    <2>3. \A q \in Photos \ {p} : filed'[q] = filed[q]
      BY <1>3 DEF UploadClicked, PutDone, UrlDone, UploadFails, TypeOK
    <2> QED  BY <1>1, <2>1, <2>2, <2>3, StageMoves
  <1>4. ASSUME NEW p \in Photos, NEW w \in writes[p], WriteFails(p, w)
        PROVE  StoryInv'
    <2>1. /\ \A q \in Photos : writes'[q] \subseteq writes[q]
          /\ UNCHANGED <<now, snaps, deleting, stage, filed>>
      BY <1>4 DEF WriteFails, TypeOK
    <2>2. DeletesAreLate'
      BY <2>1 DEF StoryInv, DeletesAreLate, Story
    <2>3. Fresh'
      <3>1. ASSUME NEW q \in Photos, NEW v \in writes'[q], IsAdd(v)
            PROVE  /\ v = [id |-> q, owner |-> filed[q], urls |-> {q}] /\ writes'[q] = {v}
                   /\ ~Story(q) /\ q \notin deleting
        BY <2>1, <3>1 DEF StoryInv, Fresh
      <3> QED  BY <2>1, <3>1 DEF StoryInv, Fresh, Story, IsAdd
    <2>4. Filing'
      <3>1. ASSUME NEW q \in Photos, NEW v \in writes'[q], ~IsAdd(v)
            PROVE  /\ stage[v.id] = "sent" /\ \A x \in writes'[v.id] : ~IsAdd(x)
                   /\ \A r \in v.urls :
                        stage[r] = "sent" /\ (Story(v.id) => snaps[v.id].owner = filed[r])
        <4>1. v \in writes[q] /\ v.id \in Photos
          BY <2>1 DEF TypeOK, Write
        <4> QED  BY <2>1, <3>1, <4>1 DEF StoryInv, Filing
      <3> QED  BY <2>1, <3>1 DEF StoryInv, Filing, Story, IsAdd
    <2> QED  BY <2>2, <2>3, <2>4 DEF StoryInv
  <1>5. ASSUME NEW d \in Phones, SnapshotArrives(d)
        PROVE  StoryInv'
    <2>1. /\ deleting' = deleting \cup {i \in Photos : Expired(i)}
          /\ UNCHANGED <<now, snaps, stage, filed, writes>>
      BY <1>5 DEF SnapshotArrives
    <2>2. \A i \in Photos : Expired(i) => Story(i) /\ now >= snaps[i].date + TTL
      BY DEF Expired, Difference, TypeOK, Doc
    <2>3. Fresh'
      BY <2>1, <2>2 DEF StoryInv, Fresh, Story, IsAdd
    <2>4. DeletesAreLate'
      BY <2>1, <2>2 DEF StoryInv, DeletesAreLate, Story
    <2>5. Filing'
      BY <2>1 DEF StoryInv, Filing, Story, IsAdd
    <2> QED  BY <2>3, <2>4, <2>5 DEF StoryInv
  <1>6. ASSUME NEW i \in Photos, DeleteApplied(i)
        PROVE  StoryInv'
    <2>1. /\ deleting' = deleting \ {i} /\ UNCHANGED <<now, stage, filed, writes>>
          /\ \A j \in Photos \ {i} : snaps'[j] = snaps[j]
          /\ snaps'[i].owner = Nobody
      BY <1>6 DEF DeleteApplied, NoDoc, TypeOK
    <2>2. \A j \in Photos : Story(j)' => Story(j) /\ snaps'[j] = snaps[j]
      BY <2>1 DEF Story
    <2>3. Fresh'
      BY <2>1, <2>2 DEF StoryInv, Fresh, IsAdd
    <2>4. DeletesAreLate'
      BY <2>1, <2>2 DEF StoryInv, DeletesAreLate, TypeOK
    <2>5. Filing'
      <3>1. \A q \in Photos : \A w \in writes[q] : w.id \in Photos
        BY DEF TypeOK, Write
      <3> QED  BY <2>1, <2>2, <3>1 DEF StoryInv, Filing, IsAdd
    <2> QED  BY <2>3, <2>4, <2>5 DEF StoryInv
  <1>7. ASSUME NEW i \in Photos, DeleteFails(i)
        PROVE  StoryInv'
    BY <1>7 DEF DeleteFails, StoryInv, Fresh, DeletesAreLate, Filing, Story, IsAdd
  <1>8. CASE Tick
    <2>1. now' = now + 1 /\ UNCHANGED <<snaps, deleting, stage, filed, writes>>
      BY <1>8 DEF Tick
    <2>2. DeletesAreLate'
      BY <2>1 DEF StoryInv, DeletesAreLate, Story, TypeOK, Doc
    <2> QED  BY <2>1, <2>2 DEF StoryInv, Fresh, Filing, Story, IsAdd
  <1>9. ASSUME NEW d \in Phones, SessionNext(d)
        PROVE  StoryInv'
    <2>1. CASE UNCHANGED core
      BY <2>1, CoreUnchanged
    <2>2. UNCHANGED core \/ Die(d)
      BY <1>9 DEF SessionNext, SignUp, SignIn, Logout, Kill, Launch, UserInfoArrives,
                  UserInfoMissing, core
    <2> QED  BY <1>2, <2>1, <2>2
  <1>10. ASSUME NEW d \in Phones, ListenerFails(d)
         PROVE  StoryInv'
    BY <1>10, CoreUnchanged DEF ListenerFails, core
  <1>11. CASE UNCHANGED vars
    BY <1>11, CoreUnchanged DEF vars, core
  <1> QED
    BY <1>3, <1>4, <1>5, <1>6, <1>7, <1>8, <1>9, <1>10, <1>11, QueryStep, WriteStep
       DEF Next, StoryNext, UploadNext

-----------------------------------------------------------------------------
\* The phone's side: what is filed comes from the singleton, and the singleton
\* from the answer for a user whose feed was opened.
LEMMA NamesStep ==
    ASSUME TypeOK, NamesKnown, [Next]_vars
    PROVE  NamesKnown'
  <1> USE StoriesAssumption
  <1> USE DEF StoriesAssumption, people, server, session, upload
  <1>0. \A p \in Photos : PhoneOf[p] \in Phones
    OBVIOUS
  <1>1. ASSUME NEW d \in Phones, Die(d)
        PROVE  NamesKnown'
    <2>1. \A e \in Phones \ {d} : /\ opened'[e] = opened[e] /\ asking'[e] = asking[e]
                                  /\ username'[e] = username[e]
      BY <1>1 DEF Die, TypeOK
    <2>2. asking'[d] = {} /\ username'[d] = Blank
      BY <1>1 DEF Die, TypeOK
    <2>3. \A p \in Photos : stage'[p] = "query" => stage[p] = "query" /\ PhoneOf[p] # d
      BY <1>1 DEF Die
    <2>4. UNCHANGED <<accounts, userInfo, filed>>
      BY <1>1 DEF Die
    <2> QED  BY <1>0, <2>1, <2>2, <2>3, <2>4 DEF NamesKnown, NamesHere
  \* A feed is opened: there are more names to choose from.
  <1>2. ASSUME NEW d \in Phones, NEW u \in Users, OpenFeed(d, u),
               UNCHANGED <<username, stage, filed>>,
               accounts \subseteq accounts',
               \A v \in Users : v # u \/ u \in accounts => userInfo'[v] = userInfo[v],
               u \in accounts'
        PROVE  NamesKnown'
    <2>1. /\ opened' = [opened EXCEPT ![d] = @ \cup {u}]
          /\ asking' = [asking EXCEPT ![d] = @ \cup {u}]
      BY <1>2 DEF OpenFeed
    <2>2. \A e \in Phones : opened[e] \subseteq opened'[e] /\ asking'[e] \subseteq opened'[e]
      BY <2>1 DEF TypeOK, NamesKnown
    <2>3. \A v \in Users : userInfo[v] # Nobody => userInfo'[v] = userInfo[v]
      BY <1>2 DEF NamesKnown
    <2>4. ASSUME NEW e \in Phones, NEW n \in Names, n \in NamesHere(e)
          PROVE  n \in NamesHere(e)'
      <3>1. \A v \in opened[e] : v \in Users
        BY DEF TypeOK
      <3> QED  BY <2>2, <2>3, <2>4, <3>1 DEF NamesHere
    <2>5. \A v \in Users \ accounts' : userInfo'[v] = Nobody
      BY <1>2 DEF NamesKnown
    <2>6. \A e \in Phones : username'[e] \in NamesHere(e)'
      BY <1>2, <2>4 DEF NamesKnown, TypeOK
    <2>7. \A p \in Photos : stage'[p] = "query" => filed'[p] \in NamesHere(PhoneOf[p])'
      BY <1>0, <1>2, <2>4 DEF NamesKnown, TypeOK
    <2> QED  BY <2>2, <2>5, <2>6, <2>7 DEF NamesKnown
  <1>3. ASSUME NEW d \in Phones, SessionNext(d)
        PROVE  NamesKnown'
    <2>1. ASSUME NEW u \in Users, NEW n \in Names, SignUp(d, u, n)
          PROVE  NamesKnown'
      <3>1. \A v \in Users : v # u => userInfo'[v] = userInfo[v]
        BY <2>1 DEF SignUp, TypeOK
      <3>2. u \notin accounts /\ accounts' = accounts \cup {u} /\ OpenFeed(d, u)
            /\ UNCHANGED <<username, stage, filed>>
        BY <2>1 DEF SignUp
      <3> QED  BY <1>2, <3>1, <3>2
    <2>2. ASSUME NEW u \in Users, SignIn(d, u)
          PROVE  NamesKnown'
      <3>1. u \in accounts /\ OpenFeed(d, u)
            /\ UNCHANGED <<username, stage, filed, accounts, userInfo>>
        BY <2>2 DEF SignIn
      <3> QED  BY <1>2, <3>1
    <2>3. ASSUME Launch(d)
          PROVE  NamesKnown'
      <3>1. UNCHANGED <<username, stage, filed, accounts, userInfo>>
        BY <2>3 DEF Launch
      <3>2. CASE auth[d] = NoUser
        BY <2>3, <3>1, <3>2 DEF Launch, NamesKnown, NamesHere
      <3>3. CASE auth[d] # NoUser
        <4> DEFINE u == auth[d]
        <4>1. u \in Users /\ OpenFeed(d, u)
          BY <2>3, <3>3 DEF Launch, TypeOK
        <4> HIDE DEF u
        <4>2. opened' = [opened EXCEPT ![d] = @ \cup {u}]
              /\ asking' = [asking EXCEPT ![d] = @ \cup {u}]
          BY <4>1 DEF OpenFeed
        <4>3. \A e \in Phones : opened[e] \subseteq opened'[e] /\ asking'[e] \subseteq opened'[e]
          BY <4>2 DEF TypeOK, NamesKnown
        <4> QED  BY <1>0, <3>1, <4>3 DEF NamesKnown, NamesHere
      <3> QED  BY <3>2, <3>3
    <2>4. ASSUME NEW u \in Users, UserInfoArrives(d, u), auth[d] # NoUser
          PROVE  NamesKnown'
      <3>1. /\ username' = [username EXCEPT ![d] = userInfo[u]]
            /\ asking' = [asking EXCEPT ![d] = @ \ {u}] /\ u \in asking[d]
            /\ UNCHANGED <<accounts, userInfo, opened, stage, filed>>
        BY <2>4 DEF UserInfoArrives
      <3>2. userInfo[u] \in NamesHere(d)
        BY <3>1 DEF NamesKnown, NamesHere
      <3>3. \A e \in Phones : asking'[e] \subseteq opened[e] /\ username'[e] \in NamesHere(e)
        BY <3>1, <3>2 DEF NamesKnown, TypeOK
      <3> QED  BY <3>1, <3>3 DEF NamesKnown, NamesHere
    <2>5. ASSUME NEW u \in Users, UserInfoMissing(d, u)
          PROVE  NamesKnown'
      <3>1. /\ asking' = [asking EXCEPT ![d] = @ \ {u}]
            /\ UNCHANGED <<accounts, userInfo, opened, username, stage, filed>>
        BY <2>5 DEF UserInfoMissing
      <3>2. \A e \in Phones : asking'[e] \subseteq opened[e]
        BY <3>1 DEF NamesKnown, TypeOK
      <3> QED  BY <3>1, <3>2 DEF NamesKnown, NamesHere
    <2>6. CASE Logout(d)
      BY <2>6 DEF Logout, NamesKnown, NamesHere
    <2> QED  BY <1>1, <1>3, <2>1, <2>2, <2>3, <2>4, <2>5, <2>6
             DEF SessionNext, Kill, UserInfoArrives
  <1>4. ASSUME NEW p \in Photos, UploadNext(p)
        PROVE  NamesKnown'
    <2>1. UNCHANGED <<accounts, userInfo, opened, asking, username>>
      BY <1>4 DEF UploadNext, UploadClicked, PutDone, UrlDone, QueryAnswered, UploadFails,
                  WriteApplied, WriteFails
    <2>2. \A q \in Photos : stage'[q] = "query" =>
             \/ stage[q] = "query" /\ filed'[q] = filed[q]
             \/ filed'[q] = username[PhoneOf[q]]
      <3>1. CASE UploadClicked(p) \/ PutDone(p) \/ UploadFails(p)
        BY <3>1 DEF UploadClicked, PutDone, UploadFails, Step, TypeOK
      <3>2. CASE UrlDone(p)
        BY <3>2 DEF UrlDone, Step, TypeOK
      <3>3. CASE QueryAnswered(p)
        BY <3>3 DEF QueryAnswered, Step, TypeOK
      <3>4. CASE \E w \in writes[p] : WriteApplied(p, w) \/ WriteFails(p, w)
        BY <3>4 DEF WriteApplied, WriteFails
      <3> QED  BY <1>4, <3>1, <3>2, <3>3, <3>4 DEF UploadNext
    <2> QED  BY <1>0, <2>1, <2>2 DEF NamesKnown, NamesHere
  <1>5. CASE UNCHANGED <<accounts, userInfo, opened, asking, username, stage, filed>>
    BY <1>5 DEF NamesKnown, NamesHere
  <1>6. \/ UNCHANGED <<accounts, userInfo, opened, asking, username, stage, filed>>
        \/ \E d \in Phones : SessionNext(d)
        \/ \E p \in Photos : UploadNext(p)
    BY DEF Next, StoryNext, SnapshotArrives, ListenerFails, DeleteApplied, DeleteFails, Tick, vars
  <1> QED  BY <1>3, <1>4, <1>5, <1>6

\* Together: what every reachable state satisfies.
LEMMA InitOK == Init => IInv
  <1> SUFFICES ASSUME Init
               PROVE  IInv
    OBVIOUS
  <1> USE StoriesAssumption
  <1> USE DEF StoriesAssumption, Init
  <1>1. TypeOK
    <2>1. NoDoc \in Doc /\ NoDoc.date = 0 /\ 0 \in 0 .. MaxTime
      BY DEF NoDoc, Doc
    <2>2. snaps \in [Photos -> Doc] /\ \A i \in Photos : snaps[i].date <= now
      <3> HIDE DEF NoDoc
      <3> QED  BY <2>1
    <2>3. stage \in [Photos -> Stages] /\ writes \in [Photos -> SUBSET Write]
      BY DEF Stages
    <2> QED  BY <2>1, <2>2, <2>3 DEF TypeOK
  <1>2. StoryInv
    BY DEF StoryInv, Fresh, DeletesAreLate, Filing, Story, NoDoc
  <1>3. NamesKnown
    BY DEF NamesKnown, NamesHere
  <1> QED  BY <1>1, <1>2, <1>3 DEF IInv

LEMMA Invariance == Spec => []IInv
  <1>1. IInv /\ [Next]_vars => IInv'
    BY TypeStep, StoryStep, NamesStep DEF IInv
  <1> QED  BY <1>1, InitOK, PTL DEF Spec

\* What a step can do to the stories: nothing, delete one that is old, or post
\* one that was not there, now.
Same(i) ==
    /\ Story(i)' <=> Story(i)
    /\ Story(i) => snaps'[i].owner = snaps[i].owner /\ snaps'[i].date = snaps[i].date

Gone(i) ==
    /\ Story(i) /\ now >= snaps[i].date + TTL /\ ~Story(i)' /\ now' = now
    /\ \A j \in Photos \ {i} : Same(j)

Posted(i) ==
    /\ ~Story(i) /\ snaps'[i].owner \in Names /\ snaps'[i].date = now /\ now' = now
    /\ \A j \in Photos \ {i} : Same(j)

LEMMA StoryChange ==
    ASSUME IInv, [Next]_vars
    PROVE  \/ (\A i \in Photos : Same(i)) /\ (now' = now \/ now' = now + 1)
           \/ \E i \in Photos : Gone(i) \/ Posted(i)
  <1> USE DEF IInv, server
  <1>1. CASE UNCHANGED snaps /\ (now' = now \/ now' = now + 1)
    BY <1>1 DEF Same, Story
  <1>2. ASSUME NEW p \in Photos, NEW w \in writes[p], WriteApplied(p, w)
        PROVE  ((\A i \in Photos : Same(i)) /\ now' = now) \/ Posted(p)
    <2>1. w \in Write /\ w.id \in Photos /\ now' = now
      BY <1>2 DEF TypeOK, Write, WriteApplied
    <2>2. CASE IsAdd(w)
      <3>1. ~Story(p) /\ w.id = p
        BY <2>2 DEF StoryInv, Fresh
      <3>2. snaps' = [snaps EXCEPT ![p] = [owner |-> w.owner, date |-> now, urls |-> w.urls]]
        BY <1>2, <2>2, <3>1 DEF WriteApplied, IsAdd, ServerTimestamp
      <3>3. w.owner \in Names
        BY <2>1, <2>2 DEF Write, IsAdd
      <3>4. \A j \in Photos \ {p} : snaps'[j] = snaps[j]
        BY <3>2 DEF TypeOK
      <3>5. snaps'[p].owner = w.owner /\ snaps'[p].date = now
        BY <3>2 DEF TypeOK
      <3> QED  BY <2>1, <3>1, <3>3, <3>4, <3>5 DEF Posted, Same, Story
    <2>3. CASE ~IsAdd(w)
      <3>1. snaps' = [snaps EXCEPT ![w.id].urls = w.urls]
        BY <1>2, <2>3 DEF WriteApplied, IsAdd
      <3> QED  BY <2>1, <3>1 DEF TypeOK, Doc, Same, Story
    <2> QED  BY <2>2, <2>3
  <1>3. ASSUME NEW k \in Photos, DeleteApplied(k)
        PROVE  ((\A i \in Photos : Same(i)) /\ now' = now) \/ Gone(k)
    <2>1. /\ now' = now /\ ~Story(k)' /\ k \in deleting
          /\ \A j \in Photos \ {k} : snaps'[j] = snaps[j]
      BY <1>3 DEF DeleteApplied, TypeOK, Story, NoDoc
    <2>2. Story(k) => now >= snaps[k].date + TTL
      BY <2>1 DEF StoryInv, DeletesAreLate
    <2>3. \A j \in Photos \ {k} : Same(j)
      BY <2>1 DEF Same, Story
    <2> QED  BY <2>1, <2>2, <2>3 DEF Gone, Same
  <1>4. \/ UNCHANGED snaps /\ (now' = now \/ now' = now + 1)
        \/ \E p \in Photos : \E w \in writes[p] : WriteApplied(p, w)
        \/ \E k \in Photos : DeleteApplied(k)
    <2>1. ASSUME NEW d \in Phones, SessionNext(d)
          PROVE  UNCHANGED <<snaps, now>>
      BY <2>1 DEF SessionNext, SignUp, SignIn, Logout, Kill, Die, Launch, UserInfoArrives,
                  UserInfoMissing
    <2>2. ASSUME NEW p \in Photos, UploadNext(p)
          PROVE  UNCHANGED <<snaps, now>> \/ \E w \in writes[p] : WriteApplied(p, w)
      BY <2>2 DEF UploadNext, UploadClicked, PutDone, UrlDone, QueryAnswered, UploadFails,
                  WriteFails
    <2>3. ASSUME NEW i \in Photos, DeleteFails(i)
          PROVE  UNCHANGED <<snaps, now>>
      BY <2>3 DEF DeleteFails
    <2>4. ASSUME NEW d \in Phones, SnapshotArrives(d) \/ ListenerFails(d)
          PROVE  UNCHANGED <<snaps, now>>
      BY <2>4 DEF SnapshotArrives, ListenerFails
    <2>5. CASE Tick
      BY <2>5 DEF Tick
    <2>6. CASE UNCHANGED vars
      BY <2>6 DEF vars
    <2> QED  BY <2>1, <2>2, <2>3, <2>4, <2>5, <2>6 DEF Next, StoryNext
  <1> QED  BY <1>1, <1>2, <1>3, <1>4

-----------------------------------------------------------------------------
\* Every variable keeps its type (FeedVC.swift 17-20, UploadVC.swift 66-78).
THEOREM TypeCorrect == Spec => []TypeOK
  <1>1. IInv => TypeOK  BY DEF IInv
  <1> QED  BY <1>1, Invariance, PTL

\* For any number of phones: a photo is in the stories of one owner only,
\* however uploads, sessions and expiry interleave (UploadVC.swift 59-79).
THEOREM OneOwner == Spec => []OnePhotoOneOwner
  <1>1. IInv => OnePhotoOneOwner
    BY DEF IInv, StoryInv, Filing, OnePhotoOneOwner
  <1> QED  BY <1>1, Invariance, PTL

\* For any number of phones and accounts: when the query of an upload is answered,
\* all that it sends is for stories of a user whose feed its process has opened
\* (UploadVC.swift 59-79, FeedVC.swift 73-95).
THEOREM FiledWell == Spec => FiledUnderAUsersName
  <1>1. IInv /\ [Next]_vars =>
           [\A p \in Photos : stage[p] = "query" /\ stage'[p] = "sent" =>
               \A w \in writes'[p] : OwnerFor(w) \in NamesHere(PhoneOf[p])]_vars
    <2> SUFFICES ASSUME IInv, [Next]_vars, NEW p \in Photos,
                        stage[p] = "query", stage'[p] = "sent", NEW w \in writes'[p]
                 PROVE  OwnerFor(w) \in NamesHere(PhoneOf[p])
      OBVIOUS
    <2>1. QueryAnswered(p)
      <3>1. ASSUME NEW q \in Photos, UploadNext(q) PROVE QueryAnswered(p)
        <4>1. QueryAnswered(q) \/ \A r \in Photos : stage'[r] = "sent" => stage[r] = "sent"
          BY <3>1 DEF UploadNext, UploadClicked, PutDone, UrlDone, UploadFails, WriteApplied,
                      WriteFails, Step, IInv, TypeOK
        <4>2. QueryAnswered(q) => q = p
          BY DEF QueryAnswered, Step, IInv, TypeOK
        <4> QED  BY <4>1, <4>2
      <3>2. ASSUME NEW d \in Phones, SessionNext(d) PROVE FALSE
        BY <3>2 DEF SessionNext, SignUp, SignIn, Logout, Kill, Die, Launch, UserInfoArrives,
                    UserInfoMissing, upload
      <3>3. stage' # stage
        OBVIOUS
      <3> QED  BY <3>1, <3>2, <3>3
               DEF Next, StoryNext, SnapshotArrives, ListenerFails, DeleteApplied, DeleteFails,
                   Tick, vars, upload
    <2>2. PhoneOf[p] \in Phones /\ username[PhoneOf[p]] \in Names
      BY StoriesAssumption DEF StoriesAssumption, IInv, TypeOK
    <2>3. CASE Found(p) # {}
      <3>1. PICK i \in Found(p) : w.id = i /\ w.owner = Nobody
        BY <2>1, <2>3 DEF QueryAnswered, IInv, TypeOK
      <3>2. OwnerFor(w) = filed[p]
        BY <3>1 DEF OwnerFor, Found
      <3> QED  BY <3>2 DEF IInv, NamesKnown
    <2>4. CASE Found(p) = {}
      <3>1. w.owner = username[PhoneOf[p]]
        BY <2>1, <2>4 DEF QueryAnswered, IInv, TypeOK
      <3>2. w.owner # Nobody
        BY <2>2, <3>1, StoriesAssumption DEF StoriesAssumption
      <3> QED  BY <2>2, <3>1, <3>2 DEF OwnerFor, IInv, NamesKnown
    <2> QED  BY <2>3, <2>4
  <1> QED  BY <1>1, Invariance, PTL DEF Spec, FiledUnderAUsersName

\* A story leaves only when it is TTL hours old (FeedVC.swift 43-46).
THEOREM OldOnly == Spec => OnlyOldStoriesDeleted
  <1>1. IInv /\ [Next]_vars =>
           [\A i \in Photos : Story(i) /\ ~Story(i)' => now >= snaps[i].date + TTL]_vars
    <2> SUFFICES ASSUME IInv, [Next]_vars, NEW i \in Photos, Story(i), ~Story(i)'
                 PROVE  now >= snaps[i].date + TTL
      OBVIOUS
    <2>1. ~Same(i) /\ ~Posted(i) /\ \A j \in Photos \ {i} : ~Gone(j) /\ ~Posted(j)
      BY DEF Same, Posted, Gone
    <2>2. Gone(i)
      BY <2>1, StoryChange
    <2> QED  BY <2>2 DEF Gone
  <1> QED  BY <1>1, Invariance, PTL DEF Spec, OnlyOldStoriesDeleted

\* The collection implements the abstract StoryBoard: each step of a phone, of
\* Firestore or of the clock posts a story, expires one, moves the clock, or is
\* invisible (UploadVC.swift 66-79, FeedVC.swift 43-50).
THEOREM Refinement == Spec => ImplementsBoard
  <1> DEFINE board == [i \in Photos |-> IF Story(i)
                         THEN [owner |-> snaps[i].owner, date |-> snaps[i].date] ELSE Nobody]
  <1>1. Init => Board!Init
    BY DEF Init, Board!Init, Story, NoDoc
  <1>2. IInv /\ [Next]_vars => [Board!Next]_(Board!vars)
    <2> SUFFICES ASSUME IInv, [Next]_vars
                 PROVE  [Board!Next]_(Board!vars)
      OBVIOUS
    <2>1. ASSUME NEW i \in Photos, Same(i)
          PROVE  board'[i] = board[i]
      BY <2>1 DEF Same, Story
    <2>2. CASE (\A i \in Photos : Same(i)) /\ (now' = now \/ now' = now + 1)
      <3>1. board' = board
        BY <2>1, <2>2
      <3> QED  BY <2>2, <3>1 DEF Board!Next, Board!Tick, Board!vars
    <2>3. ASSUME NEW i \in Photos, Gone(i)
          PROVE  Board!Expire(i)
      <3>1. board[i] = [owner |-> snaps[i].owner, date |-> snaps[i].date] /\ board'[i] = Nobody
        BY <2>3 DEF Gone
      <3>2. board[i].date = snaps[i].date /\ board[i] # Nobody
        BY <2>3, <3>1, StoriesAssumption
           DEF StoriesAssumption, Gone, IInv, TypeOK, Doc, Story
      <3>3. board' = [board EXCEPT ![i] = Nobody]
        BY <2>1, <2>3, <3>1 DEF Gone
      <3> QED  BY <2>3, <3>2, <3>3 DEF Gone, Board!Expire
    <2>4. ASSUME NEW i \in Photos, Posted(i)
          PROVE  \E n \in Names : Board!Post(i, n)
      <3>1. /\ board[i] = Nobody /\ snaps'[i].owner \in Names /\ now' = now
            /\ board'[i] = [owner |-> snaps'[i].owner, date |-> now]
        BY <2>4, StoriesAssumption DEF StoriesAssumption, Posted, Story
      <3>2. board' = [board EXCEPT ![i] = [owner |-> snaps'[i].owner, date |-> now]]
        BY <2>1, <2>4, <3>1 DEF Posted
      <3> QED  BY <3>1, <3>2 DEF Board!Post
    <2> QED  BY <2>2, <2>3, <2>4, StoryChange DEF Board!Next
  <1> QED  BY <1>1, <1>2, Invariance, PTL DEF Spec, ImplementsBoard, Board!Spec

-----------------------------------------------------------------------------
(* Phones that stay signed in: the query before an add asks for the name the *)
(* add is for.  Without overlap its answer is still right when writes land.  *)

\* One write for a document; the name of a query is the phone's.
Asked ==
    /\ \A p \in Photos : \A v, w \in writes[p] : v.id = w.id => v = w
    /\ \A p \in Photos : stage[p] = "query" => filed[p] = username[PhoneOf[p]]

\* One upload at a time; an add is for a name without a story, and a merge
\* brings all photos that the story has.
Alone ==
    /\ \A p, q \in Photos : UnderWay(p) /\ UnderWay(q) => p = q
    /\ \A i, j \in Photos :
          (Story(i) /\ Story(j) /\ snaps[i].owner = snaps[j].owner) => i = j
    /\ \A p \in Photos : \A w \in writes[p] :
          IF IsAdd(w) THEN \A i \in Photos : Story(i) => snaps[i].owner # w.owner
                      ELSE Story(w.id) => snaps[w.id].urls \subseteq w.urls

SInv == IInv /\ Asked /\ (~overlap => Alone)

LEMMA SettledInitOK == SettledInit => SInv
  <1> SUFFICES ASSUME NEW who \in [Phones -> Users], NEW name \in [Users -> Names \ {Blank}],
                      now = 0,
                      snaps = [i \in Photos |-> NoDoc], deleting = {},
                      accounts = Users, userInfo = name,
                      running = [d \in Phones |-> TRUE], auth = who,
                      username = [d \in Phones |-> name[who[d]]],
                      asking = [d \in Phones |-> {}],
                      opened = [d \in Phones |-> {who[d]}],
                      listen = [d \in Phones |-> "due"],
                      stage = [p \in Photos |-> "none"], filed = [p \in Photos |-> Blank],
                      writes = [p \in Photos |-> {}],
                      overlap = FALSE, faulty \in BOOLEAN
               PROVE  SInv
    BY DEF SettledInit
  <1> USE StoriesAssumption
  <1> USE DEF StoriesAssumption
  <1>1. TypeOK
    <2>1. NoDoc \in Doc /\ NoDoc.date = 0 /\ 0 \in 0 .. MaxTime
      BY DEF NoDoc, Doc
    <2>2. snaps \in [Photos -> Doc] /\ \A i \in Photos : snaps[i].date <= now
      <3> HIDE DEF NoDoc
      <3> QED  BY <2>1
    <2>3. stage \in [Photos -> Stages] /\ writes \in [Photos -> SUBSET Write]
      BY DEF Stages
    <2>4. \A d \in Phones : name[who[d]] \in Names
      OBVIOUS
    <2>5. username \in [Phones -> Names] /\ opened \in [Phones -> SUBSET Users]
      BY <2>4
    <2>6. running \in [Phones -> BOOLEAN] /\ overlap \in BOOLEAN
      BY Zenon
    <2> QED  BY <2>1, <2>2, <2>3, <2>5, <2>6 DEF TypeOK
  <1>2. \A i \in Photos : ~Story(i)
    BY DEF Story, NoDoc
  <1>3. StoryInv
    BY <1>2 DEF StoryInv, Fresh, DeletesAreLate, Filing
  <1>4. NamesKnown
    BY DEF NamesKnown, NamesHere
  <1>5. Asked /\ Alone
    BY <1>2 DEF Asked, Alone, UnderWay
  <1> QED  BY <1>1, <1>3, <1>4, <1>5 DEF IInv, SInv

\* Steps that leave the stories, and what is written of them, alone.
LEMMA AloneStays ==
    ASSUME Alone, UNCHANGED snaps,
           \A p \in Photos : writes'[p] \subseteq writes[p],
           \A p \in Photos : UnderWay(p)' => UnderWay(p)
    PROVE  Alone'
  BY DEF Alone, Story, IsAdd

LEMMA UploadAlone ==
    ASSUME SInv, NEW p \in Photos, UploadClicked(p) \/ PutDone(p) \/ UrlDone(p) \/ UploadFails(p)
    PROVE  Asked' /\ (~overlap' => Alone')
  <1> USE DEF SInv, IInv
  <1>1. UNCHANGED <<snaps, writes, username>>
    BY DEF UploadClicked, PutDone, UrlDone, UploadFails, server, session
  <1>2. \A q \in Photos \ {p} : stage'[q] = stage[q] /\ filed'[q] = filed[q]
    BY DEF UploadClicked, PutDone, UrlDone, UploadFails, Step, TypeOK
  <1>3. stage'[p] = "query" => filed'[p] = username[PhoneOf[p]]
    BY DEF UploadClicked, PutDone, UrlDone, UploadFails, Step, TypeOK
  <1>4. Asked'
    BY <1>1, <1>2, <1>3 DEF Asked
  <1>5. ASSUME ~overlap' PROVE Alone'
    <2>1. CASE UploadClicked(p)
      <3>1. ~overlap /\ \A q \in Photos : ~UnderWay(q)
        BY <1>5, <2>1 DEF UploadClicked
      <3>2. \A q \in Photos : UnderWay(q)' => q = p
        BY <1>1, <1>2, <3>1 DEF UnderWay
      <3> QED  BY <1>1, <3>1, <3>2 DEF Alone, Story, IsAdd
    <2>2. CASE ~UploadClicked(p)
      <3>1. ~overlap /\ stage[p] \in {"put", "url", "query"}
        BY <1>5, <2>2 DEF PutDone, UrlDone, UploadFails, Step
      <3>2. \A q \in Photos : UnderWay(q)' => UnderWay(q)
        BY <1>1, <1>2, <3>1 DEF UnderWay
      <3> QED  BY <1>1, <3>1, <3>2, AloneStays
    <2> QED  BY <2>1, <2>2
  <1> QED  BY <1>4, <1>5

LEMMA QueryAlone ==
    ASSUME SInv, NEW p \in Photos, QueryAnswered(p)
    PROVE  Asked' /\ (~overlap' => Alone')
  <1> USE DEF SInv, IInv
  <1>1. /\ stage[p] = "query" /\ stage'[p] = "sent" /\ writes[p] = {}
        /\ \A q \in Photos \ {p} : stage'[q] = stage[q] /\ writes'[q] = writes[q]
                                   /\ filed'[q] = filed[q]
        /\ UNCHANGED <<snaps, username, overlap>>
    BY DEF QueryAnswered, Step, TypeOK, StoryInv, Fresh, server, session
  <1>2. /\ \A v, w \in writes'[p] : v.id = w.id => v = w
        /\ \A w \in writes'[p] :
              IF IsAdd(w) THEN \A i \in Photos : Story(i) => snaps[i].owner # w.owner
                          ELSE Story(w.id) => snaps[w.id].urls \subseteq w.urls
    <2>1. CASE Found(p) # {}
      <3>1. writes'[p] = {[id |-> i, owner |-> Nobody, urls |-> WithPhoto(i, p)] : i \in Found(p)}
        BY <2>1 DEF QueryAnswered, TypeOK
      <3>2. \A w \in writes'[p] :
               ~IsAdd(w) /\ w = [id |-> w.id, owner |-> Nobody, urls |-> WithPhoto(w.id, p)]
        BY <3>1 DEF IsAdd
      <3>3. ASSUME NEW v \in writes'[p], NEW w \in writes'[p], v.id = w.id PROVE v = w
        <4>1. /\ v = [id |-> v.id, owner |-> Nobody, urls |-> WithPhoto(v.id, p)]
              /\ w = [id |-> w.id, owner |-> Nobody, urls |-> WithPhoto(w.id, p)]
          BY <3>2
        <4> QED  BY <3>3, <4>1
      <3>4. ASSUME NEW w \in writes'[p] PROVE snaps[w.id].urls \subseteq w.urls
        <4>1. w.urls = WithPhoto(w.id, p)
          BY <3>2
        <4> QED  BY <4>1 DEF WithPhoto
      <3> QED  BY <3>2, <3>3, <3>4
    <2>2. CASE Found(p) = {}
      <3>1. writes'[p] = {[id |-> p, owner |-> username[PhoneOf[p]], urls |-> {p}]}
        BY <2>2 DEF QueryAnswered, TypeOK
      <3>2. username[PhoneOf[p]] \in Names /\ username[PhoneOf[p]] = filed[p]
        BY <1>1, StoriesAssumption DEF TypeOK, StoriesAssumption, Asked
      <3>3. \A w \in writes'[p] : IsAdd(w) /\ w.owner = filed[p]
        BY <3>1, <3>2, StoriesAssumption DEF IsAdd, StoriesAssumption
      <3>4. \A i \in Photos : Story(i) => snaps[i].owner # filed[p]
        BY <2>2 DEF Found
      <3> QED  BY <3>1, <3>3, <3>4
    <2> QED  BY <2>1, <2>2
  <1>3. Asked'
    BY <1>1, <1>2 DEF Asked
  <1>4. ASSUME ~overlap' PROVE Alone'
    <2>1. Alone
      BY <1>1, <1>4
    <2>2. \A q \in Photos : UnderWay(q)' => UnderWay(q)
      BY <1>1 DEF UnderWay
    <2>3. \A q \in Photos \ {p} : writes'[q] = {}
      BY <1>1, <2>1 DEF Alone, UnderWay
    <2> QED  BY <1>1, <1>2, <2>1, <2>2, <2>3 DEF Alone, Story, IsAdd
  <1> QED  BY <1>3, <1>4

LEMMA WriteAlone ==
    ASSUME SInv, NEW p \in Photos, NEW w \in writes[p], WriteApplied(p, w)
    PROVE  /\ Asked' /\ (~overlap' => Alone')
           /\ ~overlap => \A i \in Photos :
                 (Story(i) /\ Story(i)') => snaps[i].urls \subseteq snaps'[i].urls
  <1> USE DEF SInv, IInv
  <1>1. /\ writes'[p] = writes[p] \ {w} /\ \A q \in Photos \ {p} : writes'[q] = writes[q]
        /\ UNCHANGED <<stage, filed, username, overlap>>
    BY DEF WriteApplied, TypeOK, session
  <1>2. w \in Write /\ w.id \in Photos
    BY DEF TypeOK, Write
  <1>3. Asked'
    BY <1>1 DEF Asked
  <1>4. ASSUME ~overlap
        PROVE  /\ Alone'
               /\ \A i \in Photos :
                     (Story(i) /\ Story(i)') => snaps[i].urls \subseteq snaps'[i].urls
    <2>1. Alone
      BY <1>4
    <2>2. \A q \in Photos : UnderWay(q)' => UnderWay(q)
      BY <1>1 DEF UnderWay
    <2>3. \A q \in Photos \ {p} : writes[q] = {} /\ writes'[q] = {}
      BY <1>1, <2>1 DEF Alone, UnderWay
    <2>4. CASE IsAdd(w)
      <3>1. /\ w = [id |-> p, owner |-> filed[p], urls |-> {p}] /\ writes[p] = {w} /\ ~Story(p)
        BY <2>4 DEF StoryInv, Fresh
      <3>2. \A q \in Photos : writes'[q] = {}
        BY <1>1, <2>3, <3>1
      <3>3. /\ \A i \in Photos \ {p} : snaps'[i] = snaps[i]
            /\ snaps'[p].owner = w.owner
        BY <2>4, <3>1 DEF WriteApplied, IsAdd, TypeOK
      <3>4. \A i \in Photos : Story(i) => snaps[i].owner # w.owner
        BY <2>1, <2>4 DEF Alone
      <3>5. ASSUME NEW i \in Photos, NEW j \in Photos, Story(i)', Story(j)',
                   snaps'[i].owner = snaps'[j].owner
            PROVE  i = j
        BY <2>1, <3>3, <3>4, <3>5 DEF Alone, Story
      <3> QED  BY <2>1, <2>2, <3>1, <3>2, <3>3, <3>5 DEF Alone, Story
    <2>5. CASE ~IsAdd(w)
      <3>1. /\ \A i \in Photos \ {w.id} : snaps'[i] = snaps[i]
            /\ snaps'[w.id].owner = snaps[w.id].owner /\ snaps'[w.id].urls = w.urls
        <4>1. snaps' = [snaps EXCEPT ![w.id].urls = w.urls]
          BY <2>5 DEF WriteApplied, IsAdd
        <4> QED  BY <1>2, <4>1 DEF TypeOK, Doc
      <3>2. \A i \in Photos : snaps'[i].owner = snaps[i].owner
        BY <1>2, <3>1
      <3>3. Story(w.id) => snaps[w.id].urls \subseteq w.urls
        BY <2>1, <2>5 DEF Alone
      <3>4. \A v \in writes'[p] : ~IsAdd(v) /\ v.id \in Photos /\ v.id # w.id
        <4>1. \A v \in writes[p] : v.id \in Photos /\ (v.id = w.id => v = w)
          BY DEF TypeOK, Write, Asked
        <4>2. \A v \in writes[p] : ~IsAdd(v)
          BY <2>5 DEF StoryInv, Fresh
        <4> QED  BY <1>1, <4>1, <4>2
      <3>5. \A v \in writes'[p] : Story(v.id)' => snaps'[v.id].urls \subseteq v.urls
        BY <1>1, <2>1, <3>1, <3>4 DEF Alone, Story
      <3> QED  BY <2>1, <2>2, <2>3, <3>1, <3>2, <3>3, <3>4, <3>5 DEF Alone, Story, IsAdd
    <2> QED  BY <2>4, <2>5
  <1> QED  BY <1>1, <1>3, <1>4

LEMMA StoryAlone ==
    ASSUME SInv, [StoryNext]_vars
    PROVE  /\ Asked' /\ (~overlap' => Alone')
           /\ ~overlap => \A i \in Photos :
                 (Story(i) /\ Story(i)') => snaps[i].urls \subseteq snaps'[i].urls
  <1> USE DEF server, session
  <1>1. ASSUME NEW p \in Photos, UploadClicked(p) \/ PutDone(p) \/ UrlDone(p) \/ UploadFails(p)
               \/ QueryAnswered(p)
        PROVE  /\ Asked' /\ (~overlap' => Alone')
               /\ UNCHANGED snaps
    BY <1>1, UploadAlone, QueryAlone
       DEF UploadClicked, PutDone, UrlDone, UploadFails, QueryAnswered
  <1>2. ASSUME UNCHANGED <<stage, filed, username, overlap>>,
               \A p \in Photos : writes'[p] \subseteq writes[p],
               UNCHANGED snaps \/ \E i \in Photos : snaps' = [snaps EXCEPT ![i] = NoDoc]
        PROVE  /\ Asked' /\ (~overlap' => Alone')
               /\ \A i \in Photos : (Story(i) /\ Story(i)') => snaps'[i] = snaps[i]
    <2>1. \A i \in Photos : Story(i)' => Story(i) /\ snaps'[i] = snaps[i]
      BY <1>2 DEF Story, NoDoc, SInv, IInv, TypeOK
    <2>2. \A p \in Photos : UnderWay(p)' => UnderWay(p)
      BY <1>2 DEF UnderWay
    <2>3. \A p \in Photos : \A w \in writes[p] : w.id \in Photos
      BY DEF SInv, IInv, TypeOK, Write
    <2>4. Asked'
      BY <1>2 DEF SInv, Asked
    <2>5. ASSUME Alone PROVE Alone'
      BY <1>2, <2>1, <2>2, <2>3, <2>5 DEF Alone, IsAdd
    <2> QED  BY <1>2, <2>1, <2>4, <2>5 DEF SInv
  <1>3. ASSUME NEW p \in Photos, NEW w \in writes[p], WriteFails(p, w)
        PROVE  /\ UNCHANGED <<stage, filed, username, overlap, snaps>>
               /\ \A q \in Photos : writes'[q] \subseteq writes[q]
    BY <1>3 DEF WriteFails, SInv, IInv, TypeOK
  <1>4. ASSUME NEW i \in Photos, DeleteApplied(i) \/ DeleteFails(i)
        PROVE  /\ UNCHANGED <<stage, filed, username, overlap, writes>>
               /\ UNCHANGED snaps \/ snaps' = [snaps EXCEPT ![i] = NoDoc]
    BY <1>4 DEF DeleteApplied, DeleteFails, upload
  <1>5. ASSUME NEW d \in Phones, SnapshotArrives(d) \/ ListenerFails(d)
        PROVE  UNCHANGED <<stage, filed, username, overlap, writes, snaps>>
    BY <1>5 DEF SnapshotArrives, ListenerFails, upload
  <1>6. Tick \/ UNCHANGED vars => UNCHANGED <<stage, filed, username, overlap, writes, snaps>>
    BY DEF Tick, vars, upload
  <1>7. CASE UNCHANGED <<stage, filed, username, overlap, writes, snaps>>
    BY <1>2, <1>7
  <1>8. ASSUME NEW p \in Photos, UploadNext(p)
        PROVE  /\ Asked' /\ (~overlap' => Alone')
               /\ ~overlap => \A i \in Photos :
                     (Story(i) /\ Story(i)') => snaps[i].urls \subseteq snaps'[i].urls
    BY <1>1, <1>2, <1>3, <1>8, WriteAlone DEF UploadNext
  <1> QED  BY <1>2, <1>4, <1>5, <1>6, <1>7, <1>8 DEF StoryNext

LEMMA SettledInvariance == SettledSpec => []SInv
  <1>1. SInv /\ [StoryNext]_vars => SInv'
    <2> SUFFICES ASSUME SInv, [StoryNext]_vars PROVE SInv'
      OBVIOUS
    <2>1. [Next]_vars
      BY DEF Next
    <2>2. IInv'
      BY <2>1, TypeStep, StoryStep, NamesStep DEF SInv, IInv
    <2> QED  BY <2>2, StoryAlone DEF SInv
  <1> QED  BY <1>1, SettledInitOK, PTL DEF SettledSpec

\* For any number of phones that stay signed in: while uploads do not overlap no
\* name has two stories, whatever fails and expires (UploadVC.swift 59-79).
THEOREM OneStoryEach == SettledSpec => []OneStoryPerOwner
  <1>1. SInv => OneStoryPerOwner
    BY DEF SInv, Alone, OneStoryPerOwner
  <1> QED  BY <1>1, SettledInvariance, PTL

\* And a story keeps every photo it has (UploadVC.swift 66-70).
THEOREM NoPhotoLost == SettledSpec => StoriesOnlyGrow
  <1>1. SInv /\ [StoryNext]_vars =>
          [~overlap => \A i \in Photos :
              (Story(i) /\ Story(i)') => snaps[i].urls \subseteq snaps'[i].urls]_vars
    BY StoryAlone
  <1> QED  BY <1>1, SettledInvariance, PTL DEF SettledSpec, StoriesOnlyGrow

-----------------------------------------------------------------------------
(* The feed's screen                                                         *)

\* A listener lives in a running process.
Listening == \A d \in Phones : ~running[d] => listen[d] = "off"

FInv == FeedTypeOK /\ Listening /\ FeedIsCurrent /\ TimeNeverOverstated

-----------------------------------------------------------------------------
\* The screen takes steps of SnapStories only.
LEMMA StepIsAStoryStep == [FeedNext]_feedVars => [Next]_vars
  BY DEF FeedNext, feedVars, Entered, ShowSnapshot, Elsewhere, Next, StoryNext, SessionNext

LEMMA FeedIsStories == FeedSpec => Spec
  BY StepIsAStoryStep, PTL DEF FeedSpec, FeedInit, Spec

-----------------------------------------------------------------------------
\* The loop over the documents ends with one: the dates are natural numbers.
LEMMA LastIsOldest ==
    ASSUME TypeOK, NEW seen \in SUBSET Photos, seen # {}
    PROVE  LastOf(seen) \in seen /\ \A j \in seen : snaps[LastOf(seen)].date <= snaps[j].date
  <1> DEFINE dates == {snaps[i].date : i \in seen}
  <1>1. \A i \in seen : snaps[i].date \in Nat
    BY DEF TypeOK, Doc
  <1>2. dates \subseteq Nat /\ dates # {}
    BY <1>1
  <1>3. PICK least \in dates : \A m \in dates : <<m, least>> \notin OpToRel(<, Nat)
    <2> HIDE DEF dates
    <2> QED  BY <1>2, NatLessThanWellFounded, WFMin
  <1>4. \A m \in dates : least <= m
    <2> HIDE DEF dates
    <2>1. \A m \in dates : ~(m < least)
      BY <1>2, <1>3, Zenon DEF OpToRel
    <2> QED  BY <1>2, <2>1
  <1>5. PICK i \in seen : least = snaps[i].date
    BY <1>3
  <1>6. \E k \in seen : \A j \in seen : snaps[k].date <= snaps[j].date
    BY <1>4, <1>5
  <1> QED  BY <1>6 DEF LastOf

-----------------------------------------------------------------------------
\* What a snapshot puts on the screen.
LEMMA Shown ==
    ASSUME FInv, TypeOK', NEW d \in Phones, ShowSnapshot(d)
    PROVE  FInv'
  <1> DEFINE seen == {i \in Photos : Story(i)}
  <1>1. TypeOK /\ snaps' = snaps /\ now' = now /\ running' = running
    BY DEF FInv, FeedTypeOK, ShowSnapshot, SnapshotArrives, session
  <1>2. listen \in [Phones -> {"off", "idle", "due"}]
        /\ listen[d] = "due" /\ listen' = [listen EXCEPT ![d] = "idle"]
    BY <1>1 DEF ShowSnapshot, SnapshotArrives, TypeOK
  <1>3. Listening'
    BY <1>1, <1>2 DEF FInv, Listening
  <1>4. {i \in Photos : Story(i)'} = seen
    BY <1>1 DEF Story
  <1>5. CASE seen = {}
    <2>1. UNCHANGED screen
      BY <1>5 DEF ShowSnapshot
    <2>2. FeedTypeOK' /\ TimeNeverOverstated'
      BY <2>1 DEF FInv, FeedTypeOK, TimeNeverOverstated, LabelFor, screen
    <2>3. FeedIsCurrent'
      BY <1>4, <1>5 DEF FeedIsCurrent
    <2> QED  BY <1>3, <2>2, <2>3 DEF FInv
  <1>6. CASE seen # {}
    <2>1. /\ rows' = [rows EXCEPT ![d] = Reloaded(d, seen)]
          /\ timeLeft' = [timeLeft EXCEPT ![d] = TTL - Difference(LastOf(seen))]
      BY <1>6 DEF ShowSnapshot
    <2>2. LastOf(seen) \in seen /\ \A j \in seen : snaps[LastOf(seen)].date <= snaps[j].date
      <3> HIDE DEF seen
      <3>1. seen \in SUBSET Photos
        BY DEF seen
      <3> QED  BY <1>1, <1>6, <3>1, LastIsOldest
    <2>3. \A i \in seen : Difference(i) \in Nat /\ snaps[i].date \in Nat
      BY <1>1 DEF TypeOK, Doc, Difference
    <2>4. TTL \in Nat /\ now \in Nat
      BY <1>1, StoriesAssumption DEF TypeOK
    <2>5. /\ TTL - Difference(LastOf(seen)) \in Int
          /\ TTL - Difference(LastOf(seen)) <= TTL
          /\ \A i \in seen : TTL - Difference(LastOf(seen)) <= TTL - Difference(i)
      <3> HIDE DEF seen
      <3>1. Difference(LastOf(seen)) = now - snaps[LastOf(seen)].date
            /\ \A i \in seen : Difference(i) = now - snaps[i].date
        BY DEF Difference
      <3>2. LastOf(seen) \in seen
        BY <2>2
      <3> HIDE DEF LastOf, Difference
      <3> QED  BY <2>2, <2>3, <2>4, <3>1, <3>2
    <2>6. Reloaded(d, seen) \subseteq Rows
      BY <2>3, <2>4 DEF Reloaded, Row, Rows
    <2>7. \A r, s \in Reloaded(d, seen) : r.id = s.id => r = s
      BY DEF Reloaded, Row
    <2>8. {r.id : r \in Reloaded(d, seen)} = seen
      <3> HIDE DEF seen
      <3>1. \A i \in seen : Row(i) \in Reloaded(d, seen) /\ Row(i).id = i
        BY DEF Reloaded, Row
      <3>2. \A r \in Reloaded(d, seen) : r.id \in seen
        BY DEF Reloaded, Row
      <3> QED  BY <3>1, <3>2
    <2>9. \A r \in Reloaded(d, seen) : TTL - Difference(LastOf(seen)) <= r.left
      BY <2>5 DEF Reloaded, Row
    <2> HIDE DEF seen
    <2>10. FeedTypeOK'
      BY <2>1, <2>5, <2>6, <2>7 DEF FInv, FeedTypeOK
    <2>11. TimeNeverOverstated'
      BY <2>1, <2>9 DEF FInv, FeedTypeOK, TimeNeverOverstated, LabelFor
    <2>12. FeedIsCurrent'
      <3> SUFFICES ASSUME NEW e \in Phones, listen'[e] = "idle",
                          (\E i \in Photos : Story(i)')
                   PROVE  {r.id : r \in rows'[e]} = {i \in Photos : Story(i)'}
        BY DEF FeedIsCurrent
      <3>1. CASE e = d
        BY <1>4, <2>1, <2>8, <3>1 DEF FInv, FeedTypeOK
      <3>2. CASE e # d
        <4>1. listen[e] = "idle" /\ rows'[e] = rows[e]
          BY <1>2, <2>1, <3>2 DEF FInv, FeedTypeOK
        <4>2. \E i \in Photos : Story(i)
          BY <1>1 DEF Story
        <4> QED  BY <1>4, <4>1, <4>2 DEF FInv, FeedIsCurrent, seen
      <3> QED  BY <3>1, <3>2
    <2> QED  BY <1>3, <2>10, <2>11, <2>12 DEF FInv
  <1> QED  BY <1>5, <1>6

-----------------------------------------------------------------------------
\* A step that is not a snapshot's: a listener that is idle afterwards was idle
\* before, and the collection has the same stories.
LEMMA IdleMeansSame ==
    ASSUME TypeOK, Listening, (\E d \in Phones : Entered(d)) \/ Elsewhere,
           NEW e \in Phones, listen'[e] = "idle"
    PROVE  listen[e] = "idle" /\ \A i \in Photos : Story(i)' = Story(i)
  <1> USE DEF TypeOK
  <1>1. ASSUME NEW d \in Phones, Entered(d)
        PROVE  listen[e] = "idle" /\ snaps' = snaps
    BY <1>1 DEF Entered, SignIn, SignUp, Launch, OpenFeed, server
  <1>2. ASSUME NEW p \in Photos, UploadNext(p), ~\E w \in writes[p] : WriteApplied(p, w)
        PROVE  listen[e] = "idle" /\ snaps' = snaps
    BY <1>2 DEF UploadNext, UploadClicked, PutDone, UrlDone, QueryAnswered, UploadFails,
                WriteFails, server
  <1>3. ASSUME NEW p \in Photos, NEW w \in writes[p], WriteApplied(p, w)
        PROVE  listen[e] = "idle" /\ \A i \in Photos : Story(i)' = Story(i)
    <2>1. w.id \in Photos
      BY DEF Write
    <2>2. snaps'[w.id].owner = Nobody /\ UNCHANGED listen
      BY <1>3 DEF WriteApplied, Notify
    <2>3. w.owner = Nobody /\ snaps' = [snaps EXCEPT ![w.id].urls = w.urls]
      BY <1>3, <2>1, <2>2 DEF WriteApplied
    <2>4. \A i \in Photos : snaps'[i].owner = snaps[i].owner
      BY <2>1, <2>3 DEF Doc
    <2> QED  BY <2>2, <2>4 DEF Story
  <1>4. ASSUME NEW i \in Photos, DeleteApplied(i)
        PROVE  listen[e] = "idle" /\ \A j \in Photos : Story(j)' = Story(j)
    <2>1. ~Story(i) /\ UNCHANGED listen
      BY <1>4 DEF DeleteApplied, Notify
    <2>2. snaps' = [snaps EXCEPT ![i] = NoDoc]
      BY <1>4 DEF DeleteApplied
    <2> QED  BY <2>1, <2>2 DEF Story, NoDoc
  <1>5. ASSUME NEW i \in Photos, DeleteFails(i)
        PROVE  listen[e] = "idle" /\ snaps' = snaps
    BY <1>5 DEF DeleteFails
  <1>6. ASSUME NEW d \in Phones, ListenerFails(d) \/ Logout(d) \/ Kill(d)
        PROVE  listen[e] = "idle" /\ snaps' = snaps
    BY <1>6 DEF ListenerFails, Logout, Kill, Die, server
  <1>7. ASSUME NEW d \in Phones, NEW u \in Users, UserInfoArrives(d, u) \/ UserInfoMissing(d, u)
        PROVE  listen[e] = "idle" /\ snaps' = snaps
    BY <1>7 DEF UserInfoArrives, UserInfoMissing, Die, server
  <1>8. ASSUME Tick
        PROVE  listen[e] = "idle" /\ snaps' = snaps
    BY <1>8 DEF Tick, server
  <1> QED
    BY <1>1, <1>2, <1>3, <1>4, <1>5, <1>6, <1>7, <1>8 DEF Elsewhere, UploadNext, Story

\* No step starts a listener in a process that is not running.
LEMMA ListeningStep == TypeOK /\ Listening /\ [FeedNext]_feedVars => Listening'
  <1> SUFFICES ASSUME TypeOK, Listening, [FeedNext]_feedVars PROVE Listening'
    OBVIOUS
  <1> USE DEF TypeOK, Listening
  <1>1. ASSUME NEW d \in Phones, Entered(d)  PROVE Listening'
    BY <1>1 DEF Entered, SignIn, SignUp, Launch, OpenFeed
  <1>2. ASSUME NEW d \in Phones, ShowSnapshot(d)  PROVE Listening'
    BY <1>2 DEF ShowSnapshot, SnapshotArrives, session
  <1>3. ASSUME NEW p \in Photos, UploadNext(p)  PROVE Listening'
    <2>1. UNCHANGED running /\ (UNCHANGED listen \/ Notify)
      BY <1>3 DEF UploadNext, UploadClicked, PutDone, UrlDone, QueryAnswered, UploadFails,
                  WriteApplied, WriteFails, session
    <2> QED  BY <2>1 DEF Notify
  <1>4. ASSUME NEW i \in Photos, DeleteApplied(i) \/ DeleteFails(i)  PROVE Listening'
    BY <1>4 DEF DeleteApplied, DeleteFails, Notify, session
  <1>5. ASSUME NEW d \in Phones, ListenerFails(d) \/ Logout(d) \/ Kill(d)  PROVE Listening'
    BY <1>5 DEF ListenerFails, Logout, Kill, Die, session
  <1>6. ASSUME NEW d \in Phones, NEW u \in Users, UserInfoArrives(d, u) \/ UserInfoMissing(d, u)
        PROVE  Listening'
    BY <1>6 DEF UserInfoArrives, UserInfoMissing, Die
  <1>7. CASE Tick
    BY <1>7 DEF Tick, session
  <1>8. CASE UNCHANGED feedVars
    BY <1>8 DEF feedVars, vars, session
  <1> QED  BY <1>1, <1>2, <1>3, <1>4, <1>5, <1>6, <1>7, <1>8 DEF FeedNext, Elsewhere

-----------------------------------------------------------------------------
LEMMA FeedInvariance == FeedSpec => []FInv
  <1>1. FeedInit => FInv
    <2> SUFFICES ASSUME FeedInit PROVE FInv
      OBVIOUS
    <2>1. TypeOK
      BY InitOK DEF FeedInit, IInv
    <2>2. \A d \in Phones : rows[d] = {} /\ timeLeft[d] = 0 /\ listen[d] = "off"
      BY DEF FeedInit, Init
    <2>3. FeedTypeOK
      BY <2>1, <2>2, StoriesAssumption DEF FeedInit, FeedTypeOK
    <2> QED  BY <2>2, <2>3 DEF FInv, Listening, FeedIsCurrent, TimeNeverOverstated
  <1>2. FInv /\ [FeedNext]_feedVars => FInv'
    <2> SUFFICES ASSUME FInv, [FeedNext]_feedVars PROVE FInv'
      OBVIOUS
    <2>1. TypeOK'
      BY StepIsAStoryStep, TypeStep DEF FInv, FeedTypeOK
    <2>2. Listening'
      BY ListeningStep DEF FInv, FeedTypeOK
    <2>3. ASSUME NEW d \in Phones, ShowSnapshot(d)  PROVE FInv'
      BY <2>1, <2>3, Shown
    <2>4. ASSUME NEW d \in Phones, Entered(d)  PROVE FInv'
      <3>1. /\ rows' = [rows EXCEPT ![d] = {}]
            /\ timeLeft' = [timeLeft EXCEPT ![d] = 0]
        BY <2>4 DEF Entered, NewFeed
      <3>2. FeedTypeOK'
        BY <2>1, <3>1, StoriesAssumption DEF FInv, FeedTypeOK
      <3>3. TimeNeverOverstated'
        BY <3>1 DEF FInv, FeedTypeOK, TimeNeverOverstated, LabelFor
      <3>4. listen'[d] # "idle"
        BY <2>4 DEF Entered, SignIn, SignUp, Launch, OpenFeed, FInv, Listening, FeedTypeOK, TypeOK
      <3>5. FeedIsCurrent'
        <4> SUFFICES ASSUME NEW e \in Phones, listen'[e] = "idle", \E i \in Photos : Story(i)'
                     PROVE  {r.id : r \in rows'[e]} = {i \in Photos : Story(i)'}
          BY DEF FeedIsCurrent
        <4>1. e # d /\ rows'[e] = rows[e]
          BY <3>1, <3>4 DEF FInv, FeedTypeOK
        <4>2. listen[e] = "idle" /\ \A i \in Photos : Story(i)' = Story(i)
          BY <2>4, IdleMeansSame DEF FInv, FeedTypeOK
        <4> QED  BY <4>1, <4>2 DEF FInv, FeedIsCurrent
      <3> QED  BY <2>2, <3>2, <3>3, <3>5 DEF FInv
    <2>5. ASSUME UNCHANGED screen, Elsewhere \/ UNCHANGED feedVars  PROVE FInv'
      <3>1. rows' = rows /\ timeLeft' = timeLeft
        BY <2>5 DEF screen
      <3>2. FeedTypeOK' /\ TimeNeverOverstated'
        BY <2>1, <3>1 DEF FInv, FeedTypeOK, TimeNeverOverstated, LabelFor
      <3>3. FeedIsCurrent'
        <4> SUFFICES ASSUME NEW e \in Phones, listen'[e] = "idle", \E i \in Photos : Story(i)'
                     PROVE  {r.id : r \in rows'[e]} = {i \in Photos : Story(i)'}
          BY DEF FeedIsCurrent
        <4>1. listen[e] = "idle" /\ \A i \in Photos : Story(i)' = Story(i)
          <5>1. CASE Elsewhere
            BY <5>1, IdleMeansSame DEF FInv, FeedTypeOK
          <5>2. CASE UNCHANGED feedVars
            BY <5>2 DEF feedVars, vars, server, Story
          <5> QED  BY <2>5, <5>1, <5>2
        <4> QED  BY <3>1, <4>1 DEF FInv, FeedIsCurrent
      <3> QED  BY <2>2, <3>2, <3>3 DEF FInv
    <2> QED  BY <2>3, <2>4, <2>5 DEF FeedNext, Elsewhere, feedVars
  <1> QED  BY <1>1, <1>2, PTL DEF FeedSpec

-----------------------------------------------------------------------------
\* The feed keeps its types: among them, one row for one story and never more
\* than the TTL on the label.
THEOREM FeedTypeCorrect == FeedSpec => []FeedTypeOK
  BY FeedInvariance, PTL DEF FInv

\* A listener that has handled its last event leaves the whole collection on
\* the screen, if there is one (FeedVC.swift 32-52).
THEOREM CurrentAtRest == FeedSpec => []FeedIsCurrent
  BY FeedInvariance, PTL DEF FInv

\* Whichever row is tapped, SnapVC promises no more time than the snap had when
\* the feed was read (FeedVC.swift 32, 53, 103-107).
THEOREM NeverOverstated == FeedSpec => []TimeNeverOverstated
  BY FeedInvariance, PTL DEF FInv

\* What SnapStories promises of the photos holds with the screen on top of it
\* (UploadVC.swift 59-79).
THEOREM FeedKeepsOwners == FeedSpec => []OnePhotoOneOwner
  BY FeedIsStories, OneOwner, PTL

\* And of the names they are filed under (UploadVC.swift 59-79, FeedVC.swift 73-95).
THEOREM FeedKeepsNames == FeedSpec => FiledUnderAUsersName
  BY FeedIsStories, FiledWell, PTL

-----------------------------------------------------------------------------
(* A story comes once; no upload is dropped on its way; what is over goes: the *)
(* safety half of UploadCompletes and OldStoriesGo.                          *)

\* A photo whose own document was added, or will never be.
Closed(i) == stage[i] = "sent" /\ \A w \in writes[i] : ~IsAdd(w)

\* A story that is gone never comes back, though merges for it may still be on
\* their way to its document (UploadVC.swift 59-79, FeedVC.swift 43-46).
StoriesComeOnce == [][\A i \in Photos : Closed(i) => Closed(i)' /\ (Story(i)' => Story(i))]_vars

\* Where no request fails an upload goes on to the next step until its process
\* ends; its photo is on its way as soon as the query is answered, and is in a
\* document when it arrives there (UploadVC.swift 44-87).
Following == [put |-> "url", url |-> "query", query |-> "sent"]
NoUploadIsDropped == [][~faulty => \A p \in Photos :
    /\ stage[p] \in {"put", "url", "query"} =>
          \/ stage'[p] \in {stage[p], Following[stage[p]]}
          \/ stage'[p] = "failed" /\ ~running'[PhoneOf[p]]
    /\ stage[p] # "sent" /\ stage'[p] = "sent" => writes'[p] # {}
    /\ \A w \in writes[p] : w \in writes'[p] \/ p \in snaps'[w.id].urls]_vars

\* What is on its way brings the photo of its upload.
Bringing == \A p \in Photos : \A w \in writes[p] : p \in w.urls

LEMMA StoriesAreClosed == ASSUME StoryInv, NEW i \in Photos, Story(i) PROVE Closed(i)
  BY DEF StoryInv, Fresh, Closed

LEMMA ClosedStep ==
    ASSUME IInv, [Next]_vars, NEW i \in Photos, Closed(i)
    PROVE  Closed(i)' /\ (Story(i)' => Story(i))
  <1> USE DEF IInv, TypeOK, server, upload
  <1>1. ASSUME stage'[i] = stage[i], writes'[i] \subseteq writes[i], snaps'[i].owner \in {snaps[i].owner, Nobody}
        PROVE  Closed(i)' /\ (Story(i)' => Story(i))
    BY <1>1 DEF Closed, IsAdd, Story
  <1>2. ASSUME NEW p \in Photos,
               UploadClicked(p) \/ PutDone(p) \/ UrlDone(p) \/ UploadFails(p)
        PROVE  Closed(i)' /\ (Story(i)' => Story(i))
    <2>1. p # i /\ UNCHANGED <<snaps, writes>>
      BY <1>2 DEF UploadClicked, PutDone, UrlDone, UploadFails, Step, Closed
    <2>2. stage'[i] = stage[i]
      BY <1>2, <2>1 DEF UploadClicked, PutDone, UrlDone, UploadFails, Step
    <2> QED  BY <1>1, <2>1, <2>2
  <1>3. ASSUME NEW p \in Photos, QueryAnswered(p)
        PROVE  Closed(i)' /\ (Story(i)' => Story(i))
    <2>1. p # i /\ UNCHANGED snaps
      BY <1>3 DEF QueryAnswered, Step, Closed
    <2>2. stage'[i] = stage[i]
      BY <1>3, <2>1 DEF QueryAnswered, Step
    <2>3. writes'[i] = writes[i]
      BY <1>3, <2>1 DEF QueryAnswered
    <2> QED  BY <1>1, <2>1, <2>2, <2>3
  <1>4. ASSUME NEW p \in Photos, NEW w \in writes[p], WriteApplied(p, w)
        PROVE  Closed(i)' /\ (Story(i)' => Story(i))
    <2>1. stage' = stage /\ writes'[i] \subseteq writes[i] /\ w.id \in Photos
      BY <1>4 DEF WriteApplied, Write
    <2>2. CASE IsAdd(w)
      <3>1. w.id = p /\ p # i
        BY <2>2 DEF StoryInv, Fresh, Closed
      <3>2. snaps'[i] = snaps[i]
        BY <1>4, <2>2, <3>1 DEF WriteApplied, IsAdd
      <3> QED  BY <1>1, <2>1, <3>2
    <2>3. CASE ~IsAdd(w)
      <3>1. snaps'[i].owner = snaps[i].owner
        BY <1>4, <2>1, <2>3 DEF WriteApplied, IsAdd, Doc
      <3> QED  BY <1>1, <2>1, <3>1
    <2> QED  BY <2>2, <2>3
  <1>5. ASSUME NEW p \in Photos, NEW w \in writes[p], WriteFails(p, w)
        PROVE  Closed(i)' /\ (Story(i)' => Story(i))
    BY <1>1, <1>5 DEF WriteFails
  <1>6. ASSUME NEW j \in Photos, DeleteApplied(j)
        PROVE  Closed(i)' /\ (Story(i)' => Story(i))
    <2>1. UNCHANGED <<stage, writes>> /\ snaps' = [snaps EXCEPT ![j] = NoDoc]
      BY <1>6 DEF DeleteApplied
    <2>2. snaps'[i] = snaps[i] \/ snaps'[i] = NoDoc
      BY <2>1
    <2> QED  BY <1>1, <2>1, <2>2 DEF NoDoc
  <1>7. ASSUME NEW d \in Phones, Die(d)
        PROVE  Closed(i)' /\ (Story(i)' => Story(i))
    <2>1. stage'[i] = "sent" /\ UNCHANGED <<writes, snaps>>
      BY <1>7 DEF Die, Closed
    <2> QED  BY <1>1, <2>1 DEF Closed
  <1>8. CASE UNCHANGED <<stage, writes, snaps>>
    BY <1>1, <1>8
  <1>9. \/ UNCHANGED <<stage, writes, snaps>>
        \/ \E d \in Phones : Die(d)
        \/ \E p \in Photos : UploadNext(p) \/ DeleteApplied(p)
    <2>1. ASSUME NEW d \in Phones, SessionNext(d)
          PROVE  UNCHANGED <<stage, writes, snaps>> \/ Die(d)
      BY <2>1 DEF SessionNext, SignUp, SignIn, Logout, Kill, Launch, UserInfoArrives, UserInfoMissing
    <2>2. ASSUME NEW d \in Phones, SnapshotArrives(d) \/ ListenerFails(d)
          PROVE  UNCHANGED <<stage, writes, snaps>>
      BY <2>2 DEF SnapshotArrives, ListenerFails
    <2>3. ASSUME NEW j \in Photos, DeleteFails(j)
          PROVE  UNCHANGED <<stage, writes, snaps>>
      BY <2>3 DEF DeleteFails
    <2>4. CASE Tick
      BY <2>4 DEF Tick
    <2>5. CASE UNCHANGED vars
      BY <2>5 DEF vars
    <2> QED  BY <2>1, <2>2, <2>3, <2>4, <2>5 DEF Next, StoryNext
  <1> QED  BY <1>2, <1>3, <1>4, <1>5, <1>6, <1>7, <1>8, <1>9 DEF UploadNext

\* No story is posted a second time, not even when it is gone, for any number of
\* phones, uploads and late merges (UploadVC.swift 59-79, FeedVC.swift 43-46).
THEOREM OncePosted == Spec => StoriesComeOnce /\ [](\A i \in Photos : Story(i) => Closed(i))
  <1>1. IInv /\ [Next]_vars =>
           [\A i \in Photos : Closed(i) => Closed(i)' /\ (Story(i)' => Story(i))]_vars
    BY ClosedStep
  <1>2. IInv => \A i \in Photos : Story(i) => Closed(i)
    BY StoriesAreClosed DEF IInv
  <1> QED  BY <1>1, <1>2, Invariance, PTL DEF Spec, StoriesComeOnce

LEMMA BringingStep == IInv /\ Bringing /\ [Next]_vars => Bringing'
  <1> SUFFICES ASSUME IInv, Bringing, [Next]_vars, NEW p \in Photos, NEW w \in writes'[p]
               PROVE  p \in w.urls
    BY DEF Bringing
  <1> USE DEF IInv, TypeOK, Bringing, upload
  <1>1. CASE w \in writes[p]
    BY <1>1
  <1>2. ASSUME NEW q \in Photos, QueryAnswered(q), w \notin writes[p] PROVE p \in w.urls
    <2>1. q = p
      BY <1>2 DEF QueryAnswered
    <2>2. \/ \E i \in Found(p) : w = [id |-> i, owner |-> Nobody, urls |-> WithPhoto(i, p)]
          \/ w = [id |-> p, owner |-> username[PhoneOf[p]], urls |-> {p}]
      BY <1>2, <2>1 DEF QueryAnswered
    <2> QED  BY <2>2 DEF WithPhoto
  <1>3. ASSUME NEW q \in Photos, UploadNext(q), ~QueryAnswered(q) PROVE w \in writes[p]
    BY <1>3 DEF UploadNext, UploadClicked, PutDone, UrlDone, UploadFails, WriteApplied, WriteFails
  <1>4. ASSUME NEW d \in Phones, SessionNext(d) PROVE w \in writes[p]
    BY <1>4 DEF SessionNext, SignUp, SignIn, Logout, Kill, Die, Launch, UserInfoArrives, UserInfoMissing
  <1>5. ASSUME NEW d \in Phones, SnapshotArrives(d) \/ ListenerFails(d) PROVE w \in writes[p]
    BY <1>5 DEF SnapshotArrives, ListenerFails
  <1>6. ASSUME NEW i \in Photos, DeleteApplied(i) \/ DeleteFails(i) PROVE w \in writes[p]
    BY <1>6 DEF DeleteApplied, DeleteFails
  <1>7. Tick \/ UNCHANGED vars => w \in writes[p]
    BY DEF Tick, vars
  <1> QED  BY <1>1, <1>2, <1>3, <1>4, <1>5, <1>6, <1>7 DEF Next, StoryNext

LEMMA BringingAlways == Spec => []Bringing
  <1>1. Init => Bringing
    BY DEF Init, Bringing
  <1> QED  BY <1>1, BringingStep, Invariance, PTL DEF Spec

\* An upload's own steps.
LEMMA UploadGoesOn ==
    ASSUME IInv, Bringing, ~faulty, NEW q \in Photos, UploadNext(q), NEW p \in Photos
    PROVE  /\ stage[p] \in {"put", "url", "query"} => stage'[p] \in {stage[p], Following[stage[p]]}
           /\ stage[p] # "sent" /\ stage'[p] = "sent" => writes'[p] # {}
           /\ \A w \in writes[p] : w \in writes'[p] \/ p \in snaps'[w.id].urls
  <1> USE DEF IInv, TypeOK, Following, upload, server
  <1>1. CASE UploadClicked(q)
    <2>1. UNCHANGED writes /\ stage[q] = "none" /\ stage' = [stage EXCEPT ![q] = "put"]
      BY <1>1 DEF UploadClicked, Step
    <2> QED  BY <2>1
  <1>2. CASE PutDone(q) \/ UrlDone(q)
    <2>1. UNCHANGED writes /\ \/ stage[q] = "put" /\ stage' = [stage EXCEPT ![q] = "url"]
                              \/ stage[q] = "url" /\ stage' = [stage EXCEPT ![q] = "query"]
      BY <1>2 DEF PutDone, UrlDone, Step
    <2> QED  BY <2>1
  <1>3. CASE QueryAnswered(q)
    <2>1. stage[q] = "query" /\ stage' = [stage EXCEPT ![q] = "sent"] /\ writes[q] = {}
      BY <1>3 DEF QueryAnswered, Step, StoryInv, Fresh
    <2>2. \A r \in Photos \ {q} : writes'[r] = writes[r]
      BY <1>3 DEF QueryAnswered
    <2>3. writes'[q] # {}
      <3> DEFINE merges == {[id |-> j, owner |-> Nobody, urls |-> WithPhoto(j, q)] : j \in Found(q)}
                 adds == {[id |-> q, owner |-> username[PhoneOf[q]], urls |-> {q}]}
      <3>1. adds # {} /\ (Found(q) # {} => merges # {})
        OBVIOUS
      <3>2. \/ Found(q) # {} /\ writes' = [writes EXCEPT ![q] = merges]
            \/ writes' = [writes EXCEPT ![q] = adds]
        BY <1>3 DEF QueryAnswered
      <3> HIDE DEF merges, adds
      <3> QED  BY <3>1, <3>2
    <2> QED  BY <2>1, <2>2, <2>3
  <1>4. ASSUME NEW w \in writes[q], WriteApplied(q, w)
        PROVE  /\ UNCHANGED stage
               /\ \A v \in writes[p] : v \in writes'[p] \/ p \in snaps'[v.id].urls
    <2>1. /\ UNCHANGED stage /\ w.id \in Photos /\ q \in w.urls
          /\ \A v \in writes[p] : v \in writes'[p] \/ (p = q /\ v = w)
      BY <1>4 DEF WriteApplied, Write, Bringing
    <2>2. snaps'[w.id].urls = w.urls
      BY <1>4, <2>1 DEF WriteApplied, Doc
    <2> QED  BY <2>1, <2>2
  <1>5. ~UploadFails(q) /\ \A w \in writes[q] : ~WriteFails(q, w)
    BY DEF UploadFails, WriteFails
  <1> QED  BY <1>1, <1>2, <1>3, <1>4, <1>5 DEF UploadNext

\* For any number of phones and overlapping uploads no photo is dropped before it
\* is in a document, but by the end of its process
\* (UploadVC.swift 44-87).
THEOREM UploadsAreNotDropped == Spec => NoUploadIsDropped
  <1>1. ASSUME IInv, Bringing, [Next]_vars, ~faulty, NEW p \in Photos
        PROVE  /\ stage[p] \in {"put", "url", "query"} =>
                    \/ stage'[p] \in {stage[p], Following[stage[p]]}
                    \/ stage'[p] = "failed" /\ ~running'[PhoneOf[p]]
               /\ stage[p] # "sent" /\ stage'[p] = "sent" => writes'[p] # {}
               /\ \A w \in writes[p] : w \in writes'[p] \/ p \in snaps'[w.id].urls
    <2> USE DEF upload, server
    <2>1. CASE UNCHANGED <<stage, writes>>
      BY <2>1
    <2>2. ASSUME NEW d \in Phones, Die(d)
          PROVE  /\ UNCHANGED writes
                 /\ stage'[p] = stage[p] \/ (stage'[p] = "failed" /\ ~running'[PhoneOf[p]])
      <3>1. running' = [running EXCEPT ![d] = FALSE] /\ UNCHANGED writes
            /\ stage'[p] = IF PhoneOf[p] = d /\ stage[p] \in {"put", "url", "query"}
                             THEN "failed" ELSE stage[p]
        BY <2>2 DEF Die
      <3>2. running \in [Phones -> BOOLEAN]
        BY <1>1 DEF IInv, TypeOK
      <3> QED  BY <3>1, <3>2
    <2>3. \/ UNCHANGED <<stage, writes>>
          \/ \E d \in Phones : Die(d)
          \/ \E q \in Photos : UploadNext(q)
      <3>1. ASSUME NEW d \in Phones, SessionNext(d)
            PROVE  UNCHANGED <<stage, writes>> \/ Die(d)
        BY <3>1 DEF SessionNext, SignUp, SignIn, Logout, Kill, Launch, UserInfoArrives, UserInfoMissing
      <3>2. ASSUME NEW d \in Phones, SnapshotArrives(d) \/ ListenerFails(d)
            PROVE  UNCHANGED <<stage, writes>>
        BY <3>2 DEF SnapshotArrives, ListenerFails
      <3>3. ASSUME NEW j \in Photos, DeleteFails(j) \/ DeleteApplied(j)
            PROVE  UNCHANGED <<stage, writes>>
        BY <3>3 DEF DeleteFails, DeleteApplied
      <3>4. CASE Tick
        BY <3>4 DEF Tick
      <3>5. CASE UNCHANGED vars
        BY <3>5 DEF vars
      <3> QED  BY <1>1, <3>1, <3>2, <3>3, <3>4, <3>5 DEF Next, StoryNext
    <2> QED  BY <1>1, <2>1, <2>2, <2>3, UploadGoesOn
  <1>2. IInv /\ Bringing /\ [Next]_vars => [~faulty => \A p \in Photos :
           /\ stage[p] \in {"put", "url", "query"} =>
                 \/ stage'[p] \in {stage[p], Following[stage[p]]}
                 \/ stage'[p] = "failed" /\ ~running'[PhoneOf[p]]
           /\ stage[p] # "sent" /\ stage'[p] = "sent" => writes'[p] # {}
           /\ \A w \in writes[p] : w \in writes'[p] \/ p \in snaps'[w.id].urls]_vars
    BY <1>1
  <1> QED  BY <1>2, BringingAlways, Invariance, PTL DEF Spec, NoUploadIsDropped

\* Whoever looks at a feed whose row has no time left, and whose story is still
\* there, looks at a story that is on its way out: a snapshot that shows it has
\* asked for its delete, and nothing but that delete takes effect on it, where no
\* request fails (FeedVC.swift 36-53).
OverMeansGoing == ~faulty =>
    \A d \in Phones : \A r \in rows[d] : r.left <= 0 /\ Story(r.id) => r.id \in deleting

\* Rows are of stories that were there, and do not come back.
Going == OverMeansGoing /\ \A d \in Phones : \A r \in rows[d] : Closed(r.id)

\* Only the delete that takes effect removes a story from those to be deleted.
LEMMA DeletesStay ==
    ASSUME [Next]_vars, ~faulty', NEW i \in deleting, i \in Photos, IInv
    PROVE  i \in deleting' \/ ~Story(i)'
  <1> USE DEF server
  <1>1. ASSUME NEW j \in Photos, DeleteApplied(j) PROVE i \in deleting' \/ ~Story(i)'
    BY <1>1 DEF DeleteApplied, Story, NoDoc, IInv, TypeOK
  <1>2. ASSUME NEW j \in Photos, DeleteFails(j) PROVE FALSE
    BY <1>2 DEF DeleteFails
  <1>3. ASSUME NEW p \in Photos, UploadNext(p) PROVE UNCHANGED deleting
    BY <1>3 DEF UploadNext, UploadClicked, PutDone, UrlDone, QueryAnswered, UploadFails,
                WriteApplied, WriteFails
  <1>4. ASSUME NEW d \in Phones, SessionNext(d) PROVE UNCHANGED deleting
    BY <1>4 DEF SessionNext, SignUp, SignIn, Logout, Kill, Die, Launch, UserInfoArrives, UserInfoMissing
  <1>5. ASSUME NEW d \in Phones, SnapshotArrives(d) \/ ListenerFails(d) PROVE deleting \subseteq deleting'
    BY <1>5 DEF SnapshotArrives, ListenerFails
  <1>6. Tick \/ UNCHANGED vars => UNCHANGED deleting
    BY DEF Tick, vars
  <1> QED  BY <1>1, <1>2, <1>3, <1>4, <1>5, <1>6 DEF Next, StoryNext

\* A row that is kept keeps what is said of it.
LEMMA RowStays ==
    ASSUME IInv, Going, [Next]_vars, NEW d \in Phones, NEW r \in rows[d], r.id \in Photos
    PROVE  Closed(r.id)' /\ (~faulty' /\ r.left <= 0 /\ Story(r.id)' => r.id \in deleting')
  <1>1. Closed(r.id)' /\ (Story(r.id)' => Story(r.id))
    BY ClosedStep DEF Going
  <1>2. ASSUME ~faulty', r.left <= 0, Story(r.id)' PROVE r.id \in deleting'
    <2>1. ~faulty
      BY <1>2 DEF Next, StoryNext, UploadNext, SessionNext, vars, SignUp, SignIn, Logout, Kill, Die, Launch,
                  UserInfoArrives, UserInfoMissing, UploadClicked, PutDone, UrlDone, QueryAnswered,
                  UploadFails, WriteApplied, WriteFails, SnapshotArrives, ListenerFails,
                  DeleteApplied, DeleteFails, Tick
    <2>2. r.id \in deleting
      BY <1>1, <1>2, <2>1 DEF Going, OverMeansGoing
    <2> QED  BY <1>2, <2>2, DeletesStay
  <1> QED  BY <1>1, <1>2

LEMMA GoingStep == IInv /\ FeedTypeOK /\ Going /\ [FeedNext]_feedVars => Going'
  <1> SUFFICES ASSUME IInv, FeedTypeOK, Going, [FeedNext]_feedVars, NEW d \in Phones, NEW r \in rows'[d]
               PROVE  Closed(r.id)' /\ (~faulty' /\ r.left <= 0 /\ Story(r.id)' => r.id \in deleting')
    BY DEF Going, OverMeansGoing
  <1>1. [Next]_vars
    BY StepIsAStoryStep
  <1>2. rows \in [Phones -> SUBSET Rows] /\ \A q \in Rows : q.id \in Photos
    BY DEF FeedTypeOK, Rows
  <1>3. CASE r \in rows[d]
    BY <1>1, <1>2, <1>3, RowStays
  <1>4. ASSUME r \notin rows[d], NEW e \in Phones, ShowSnapshot(e)
        PROVE  Closed(r.id)' /\ (~faulty' /\ r.left <= 0 /\ Story(r.id)' => r.id \in deleting')
    <2> DEFINE seen == {i \in Photos : Story(i)}
    <2>1. r \in Reloaded(e, seen)
      BY <1>2, <1>4 DEF ShowSnapshot, screen
    <2>2. PICK i \in seen : r = Row(i)
      BY <2>1 DEF Reloaded
    <2>3. r.id = i /\ r.left = TTL - Difference(i) /\ Story(i) /\ i \in Photos
      BY <2>2 DEF Row
    <2>4. Closed(i)'
      BY <1>1, <2>3, ClosedStep, StoriesAreClosed DEF IInv
    <2>5. Difference(i) \in Int /\ TTL \in Int
      BY <2>3, StoriesAssumption DEF Difference, IInv, TypeOK, Doc, StoriesAssumption
    <2>6. r.left <= 0 => Expired(i)
      BY <2>3, <2>5 DEF Expired
    <2>7. Expired(i) => i \in deleting'
      BY <1>4, <2>3 DEF ShowSnapshot, SnapshotArrives
    <2> QED  BY <2>3, <2>4, <2>6, <2>7
  <1>5. ASSUME r \notin rows[d] PROVE \E e \in Phones : ShowSnapshot(e)
    <2>1. ASSUME NEW e \in Phones, Entered(e) PROVE r \in rows[d]
      BY <1>2, <2>1 DEF Entered, NewFeed
    <2>2. UNCHANGED screen => r \in rows[d]
      BY DEF screen
    <2> QED  BY <1>5, <2>1, <2>2 DEF FeedNext, Elsewhere, feedVars
  <1> QED  BY <1>3, <1>4, <1>5

\* What is over on the screen is going, for any number of phones and stories
\* (FeedVC.swift 36-53).
THEOREM NothingOverStays == FeedSpec => []OverMeansGoing
  <1>1. FeedInit => Going
    BY DEF FeedInit, Going, OverMeansGoing
  <1>2. FeedSpec => []IInv
    BY FeedIsStories, Invariance, PTL
  <1>3. Going => OverMeansGoing
    BY DEF Going
  <1> QED  BY <1>1, <1>2, <1>3, GoingStep, FeedTypeCorrect, PTL DEF FeedSpec

\* With the screen on top the collection still is a StoryBoard, its stories come
\* once and its uploads are not dropped (UploadVC.swift 44-87, FeedVC.swift 36-53).
THEOREM FeedKeepsTheBoard == FeedSpec => ImplementsBoard /\ StoriesComeOnce /\ NoUploadIsDropped
  BY FeedIsStories, Refinement, OncePosted, UploadsAreNotDropped, PTL
=============================================================================
