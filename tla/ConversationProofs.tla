-------------------------- MODULE ConversationProofs --------------------------
(***************************************************************************)
(* What holds of Conversation, for any articles, comments and calls: what  *)
(* Content promises holds with the comments beside it, and a section shows *)
(* what was confirmed, each comment once.                                  *)
(***************************************************************************)
EXTENDS Conversation, ContentProofs, SequenceTheorems

-----------------------------------------------------------------------------
(* Lists of comments *)

\* A list of comments, each once, of which the calls among them have been served.
Listed(s, served) ==
    /\ s \in Seq(Comments) /\ IsInjective(s)
    /\ \A c \in Calls : Contains(s, c) => c \in served

LEMMA ToSetContains ==
    ASSUME NEW S, NEW s \in Seq(S), NEW x
    PROVE  x \in ToSet(s) <=> Contains(s, x)
BY DEF ToSet, Contains

LEMMA ListedLater ==
    ASSUME NEW s, NEW served, NEW later, Listed(s, served), served \subseteq later
    PROVE  Listed(s, later)
BY DEF Listed

LEMMA AppendListed ==
    ASSUME NEW s, NEW served, NEW later, Listed(s, served), served \subseteq later,
           NEW c \in Calls, c \notin served, c \in later
    PROVE  Listed(Append(s, c), later)
<1>1. s \in Seq(Comments) /\ c \in Comments
  BY DEF Listed, Comments
<1>2. PICK t : t = Append(s, c)
  OBVIOUS
<1>3. /\ t \in Seq(Comments) /\ Len(t) = Len(s) + 1 /\ DOMAIN t = 1..Len(t) /\ DOMAIN s = 1..Len(s)
      /\ \A i \in 1..Len(s) : t[i] = s[i]
      /\ t[Len(s) + 1] = c /\ Len(s) \in Nat
  BY <1>1, <1>2, AppendProperties, LenProperties
<1>4. \A i \in 1..Len(s) : s[i] # c
  BY DEF Listed, Contains
<1>5. \A i, j \in 1..Len(s) : s[i] = s[j] => i = j
  BY <1>3 DEF Listed, IsInjective
<1>6. IsInjective(t)
  <2>1. SUFFICES ASSUME NEW i \in 1..(Len(s) + 1), NEW j \in 1..(Len(s) + 1), t[i] = t[j] PROVE i = j
    BY <1>3 DEF IsInjective
  <2>2. QED
    BY <1>3, <1>4, <1>5, <2>1
<1>7. ASSUME NEW d \in Calls, Contains(t, d) PROVE d \in later
  <2>1. PICK i \in 1..(Len(s) + 1) : t[i] = d
    BY <1>3, <1>7 DEF Contains
  <2>2. CASE i \in 1..Len(s)
    BY <1>3, <2>1, <2>2 DEF Listed, Contains
  <2>3. CASE i = Len(s) + 1
    BY <1>3, <2>1, <2>3
  <2>4. QED
    BY <1>3, <2>2, <2>3
<1>8. QED
  BY <1>2, <1>3, <1>6, <1>7 DEF Listed

LEMMA ConsFacts ==
    ASSUME NEW s \in Seq(Comments), NEW c \in Comments, NEW t, t = <<c>> \o s
    PROVE  /\ t \in Seq(Comments) /\ Len(t) = Len(s) + 1
           /\ t[1] = c /\ \A i \in 1..Len(s) : t[i + 1] = s[i]
           /\ \A x : Contains(t, x) <=> x = c \/ Contains(s, x)
<1>1. <<c>> \in Seq(Comments) /\ Len(<<c>>) = 1 /\ <<c>>[1] = c
  OBVIOUS
<1>2. /\ t \in Seq(Comments) /\ Len(t) = 1 + Len(s)
      /\ \A i \in 1..(1 + Len(s)) : t[i] = IF i <= 1 THEN <<c>>[i] ELSE s[i - 1]
  BY <1>1, ConcatProperties
<1>3. Len(s) \in Nat
  BY LenProperties
<1>4. t[1] = c /\ \A i \in 1..Len(s) : t[i + 1] = s[i]
  BY <1>1, <1>2, <1>3
<1>5. ASSUME NEW x PROVE Contains(t, x) <=> x = c \/ Contains(s, x)
  <2>1. ASSUME Contains(t, x) PROVE x = c \/ Contains(s, x)
    <3>1. PICK i \in 1..(Len(s) + 1) : t[i] = x
      BY <1>2, <1>3, <2>1 DEF Contains
    <3>2. CASE i = 1
      BY <1>4, <3>1, <3>2
    <3>3. CASE i # 1
      <4>1. i - 1 \in 1..Len(s) /\ s[i - 1] = x
        BY <1>2, <1>3, <3>1, <3>3
      <4>2. QED
        BY <4>1 DEF Contains
    <3>4. QED
      BY <3>2, <3>3
  <2>2. ASSUME x = c PROVE Contains(t, x)
    BY <1>2, <1>3, <1>4, <2>2 DEF Contains
  <2>3. ASSUME Contains(s, x) PROVE Contains(t, x)
    <3>1. PICK i \in 1..Len(s) : s[i] = x
      BY <2>3 DEF Contains
    <3>2. i + 1 \in 1..Len(t) /\ t[i + 1] = x
      BY <1>2, <1>3, <1>4, <3>1
    <3>3. QED
      BY <3>2 DEF Contains
  <2>4. QED
    BY <2>1, <2>2, <2>3
<1>6. QED
  BY <1>2, <1>3, <1>4, <1>5

LEMMA ConsListed ==
    ASSUME NEW s, NEW served, Listed(s, served), NEW c \in Calls, ~Contains(s, c), c \in served
    PROVE  Listed(<<c>> \o s, served)
<1>1. s \in Seq(Comments) /\ c \in Comments
  BY DEF Listed, Comments
<1>2. PICK t : t = <<c>> \o s
  OBVIOUS
<1>3. /\ t \in Seq(Comments) /\ Len(t) = Len(s) + 1 /\ Len(s) \in Nat
      /\ t[1] = c /\ \A i \in 1..Len(s) : t[i + 1] = s[i]
      /\ DOMAIN t = 1..Len(t) /\ DOMAIN s = 1..Len(s)
  BY <1>1, <1>2, ConsFacts, LenProperties
<1>4. \A i, j \in 1..Len(s) : s[i] = s[j] => i = j
  BY <1>3 DEF Listed, IsInjective
<1>5. \A i \in 1..Len(s) : s[i] # c
  BY DEF Contains
<1>6. IsInjective(t)
  <2>1. SUFFICES ASSUME NEW i \in 1..(Len(s) + 1), NEW j \in 1..(Len(s) + 1), t[i] = t[j] PROVE i = j
    BY <1>3 DEF IsInjective
  <2>2. \A k \in 1..(Len(s) + 1) : k # 1 => k - 1 \in 1..Len(s) /\ t[k] = s[k - 1]
    <3>1. ASSUME NEW k \in 1..(Len(s) + 1), k # 1 PROVE k - 1 \in 1..Len(s) /\ t[k] = s[k - 1]
      <4>1. k - 1 \in 1..Len(s) /\ (k - 1) + 1 = k
        BY <1>3, <3>1
      <4>2. QED
        BY <1>3, <4>1
    <3>2. QED
      BY <3>1
  <2>3. CASE i = 1
    BY <1>3, <1>5, <2>1, <2>2, <2>3
  <2>4. CASE j = 1
    BY <1>3, <1>5, <2>1, <2>2, <2>4
  <2>5. CASE i # 1 /\ j # 1
    <3>1. i - 1 = j - 1
      BY <1>4, <2>1, <2>2, <2>5
    <3>2. QED
      BY <1>3, <3>1
  <2>6. QED
    BY <2>3, <2>4, <2>5
<1>7. \A d \in Calls : Contains(t, d) => d \in served
  BY <1>1, <1>2, ConsFacts DEF Listed
<1>8. QED
  BY <1>2, <1>3, <1>6, <1>7 DEF Listed

\* The others stay, in a list that had each once.
LEMMA WithoutFacts ==
    ASSUME NEW s \in Seq(Comments), IsInjective(s), NEW e
    PROVE  /\ Without(s, e) \in Seq(Comments) /\ IsInjective(Without(s, e))
           /\ \A x : Contains(Without(s, e), x) => Contains(s, x)
           /\ \A x : Contains(s, x) /\ x # e => Contains(Without(s, e), x)
<1>1. CASE ~Contains(s, e)
  BY <1>1 DEF Without
<1>2. CASE Contains(s, e)
  <2>1. Len(s) \in Nat /\ DOMAIN s = 1..Len(s)
    BY LenProperties
  <2>2. PICK i \in 1..Len(s) : i = (CHOOSE j \in DOMAIN s : s[j] = e) /\ s[i] = e
    BY <1>2, <2>1 DEF Contains
  <2>3. PICK t : t = SubSeq(s, 1, i - 1) \o SubSeq(s, i + 1, Len(s))
    OBVIOUS
  <2>4. Without(s, e) = t
    BY <1>2, <2>2, <2>3 DEF Without, RemoveAt
  <2>5. PICK front, back : front = SubSeq(s, 1, i - 1) /\ back = SubSeq(s, i + 1, Len(s))
    OBVIOUS
  <2>6. /\ front \in Seq(Comments) /\ Len(front) = i - 1
        /\ \A j \in 1..(i - 1) : front[j] = s[j]
    <3>1. \A j \in 1..(i - 1) : s[j] \in Comments
      BY <2>1, <2>2
    <3>2. QED
      BY <2>1, <2>2, <2>5, <3>1, SubSeqProperties
  <2>7. /\ back \in Seq(Comments) /\ Len(back) = Len(s) - i
        /\ \A j \in 1..(Len(s) - i) : back[j] = s[i + j]
    <3>1. PICK m \in Int, n \in Int : m = i + 1 /\ n = Len(s) /\ n - m + 1 = Len(s) - i
      <4>1. i + 1 \in Int /\ Len(s) \in Int /\ Len(s) - (i + 1) + 1 = Len(s) - i
        BY <2>1, <2>2
      <4>2. QED
        BY <4>1
    <3>2. back = SubSeq(s, m, n)
      BY <2>5, <3>1
    <3>3. \A j \in m..n : s[j] \in Comments
      BY <2>1, <2>2, <3>1
    <3>4. /\ back \in Seq(Comments)
          /\ Len(back) = IF m <= n THEN n - m + 1 ELSE 0
          /\ \A j \in 1..(n - m + 1) : back[j] = s[m + j - 1]
      BY <3>2, <3>3, SubSeqProperties
    <3>5. ASSUME NEW j \in 1..(Len(s) - i) PROVE back[j] = s[i + j]
      <4>1. m + j - 1 = i + j
        BY <2>1, <2>2, <3>1
      <4>2. QED
        BY <3>1, <3>4, <4>1
    <3>6. Len(back) = Len(s) - i
      BY <2>1, <2>2, <3>1, <3>4
    <3>7. QED
      BY <3>4, <3>5, <3>6
  <2>8. /\ t \in Seq(Comments) /\ Len(t) = Len(s) - 1
        /\ \A j \in 1..(Len(s) - 1) : t[j] = IF j < i THEN s[j] ELSE s[j + 1]
    <3>1. t = front \o back
      BY <2>3, <2>5
    <3>2. /\ t \in Seq(Comments) /\ Len(t) = Len(front) + Len(back)
          /\ \A j \in 1..(Len(front) + Len(back)) :
               t[j] = IF j <= Len(front) THEN front[j] ELSE back[j - Len(front)]
      BY <2>6, <2>7, <3>1, ConcatProperties
    <3>3. Len(t) = Len(s) - 1 /\ Len(front) + Len(back) = Len(s) - 1
      BY <2>1, <2>2, <2>6, <2>7, <3>2
    <3>4. ASSUME NEW j \in 1..(Len(s) - 1) PROVE t[j] = IF j < i THEN s[j] ELSE s[j + 1]
      <4>1. CASE j < i
        BY <2>1, <2>2, <2>6, <3>2, <3>3, <4>1
      <4>2. CASE ~(j < i)
        <5>1. j - (i - 1) \in 1..(Len(s) - i) /\ i + (j - (i - 1)) = j + 1
          BY <2>1, <2>2, <4>2
        <5>2. t[j] = back[j - (i - 1)]
          BY <2>1, <2>2, <2>6, <3>2, <3>3, <4>2
        <5>3. QED
          BY <2>7, <4>2, <5>1, <5>2
      <4>3. QED
        BY <4>1, <4>2
    <3>5. QED
      BY <3>2, <3>3, <3>4
  <2>9. DOMAIN t = 1..(Len(s) - 1)
    BY <2>8, LenProperties
  <2>10. IsInjective(t)
    <3>1. \A j, k \in 1..Len(s) : s[j] = s[k] => j = k
      BY <2>1 DEF IsInjective
    <3>2. ASSUME NEW j \in 1..(Len(s) - 1), NEW k \in 1..(Len(s) - 1), t[j] = t[k] PROVE j = k
      <4>1. PICK a \in 1..Len(s) : t[j] = s[a] /\ a = (IF j < i THEN j ELSE j + 1)
        BY <2>1, <2>8
      <4>2. PICK b \in 1..Len(s) : t[k] = s[b] /\ b = (IF k < i THEN k ELSE k + 1)
        BY <2>1, <2>8
      <4>3. a = b
        BY <3>1, <3>2, <4>1, <4>2
      <4>4. QED
        BY <2>1, <2>2, <4>1, <4>2, <4>3
    <3>3. QED
      BY <2>9, <3>2 DEF IsInjective
  <2>11. ASSUME NEW x, Contains(t, x) PROVE Contains(s, x)
    <3>1. PICK j \in 1..(Len(s) - 1) : t[j] = x
      BY <2>8, <2>11 DEF Contains
    <3>2. QED
      BY <2>1, <2>8, <3>1 DEF Contains
  <2>12. ASSUME NEW x, Contains(s, x), x # e PROVE Contains(t, x)
    <3>1. PICK j \in 1..Len(s) : s[j] = x /\ j # i
      BY <2>2, <2>12 DEF Contains
    <3>2. CASE j < i
      <4>1. j \in 1..(Len(s) - 1) /\ t[j] = x
        BY <2>1, <2>2, <2>8, <3>1, <3>2
      <4>2. QED
        BY <2>8, <4>1 DEF Contains
    <3>3. CASE ~(j < i)
      <4>1. j - 1 \in 1..(Len(s) - 1) /\ ~(j - 1 < i) /\ (j - 1) + 1 = j
        BY <2>1, <2>2, <3>1, <3>3
      <4>2. t[j - 1] = s[(j - 1) + 1]
        BY <2>8, <4>1
      <4>3. t[j - 1] = x
        BY <3>1, <4>1, <4>2
      <4>4. QED
        BY <2>8, <4>1, <4>3 DEF Contains
    <3>4. QED
      BY <3>2, <3>3
  <2>13. QED
    BY <2>4, <2>8, <2>10, <2>11, <2>12
<1>3. QED
  BY <1>1, <1>2

-----------------------------------------------------------------------------
(* Every step of Conversation is one of Content, or of calls of comments *)

LEMMA CommentButtonsApart ==
    /\ {"post", "remove"} = CommentButtons
    /\ \A b \in CommentButtons : b \notin Buttons /\ b \notin OfArticle /\ b \notin FavoriteButtons
                                 /\ b \notin FollowButtons /\ b \notin {"publish", "save", "delete"}
BY ButtonsApart DEF CommentButtons

LEMMA PressChat ==
    ASSUME Base, NEW c \in Calls, NEW b \in CommentButtons, NEW comment, Press(c, b, comment)
    PROVE  /\ Chat
           /\ \A d \in Calls \ {c} : calls'[d] = calls[d]
           /\ calls'[c].stage = "sent" /\ calls'[c].button = b /\ calls'[c].live = TRUE
           /\ calls[c].stage = "idle"
<1>1. PICK r : r = [IdleCall EXCEPT !.stage = "sent", !.button = b, !.live = TRUE,
                                    !.from = section.slug, !.wish = comment]
  OBVIOUS
<1>2. /\ r = [f \in Fields |-> r[f]] /\ r.stage = "sent" /\ r.button = b /\ r.live = TRUE /\ r.answer = None
  BY <1>1 DEF IdleCall, Fields
<1>3. CallOK(r)
  BY <1>2, CommentButtonsApart DEF CallOK, Stages
<1>4. /\ calls' = [d \in Calls |-> calls'[d]]
      /\ \A d \in Calls \ {c} : calls'[d] = calls[d]
      /\ calls'[c] = r /\ calls[c].stage = "idle"
  BY <1>1 DEF Press, Base
<1>5. calls[c].button = None
  BY <1>4 DEF Base, CallOK
<1>6. UNCHANGED <<use, world, cache, page, overrides, alone>>
  BY DEF Press
<1>7. QED
  BY <1>2, <1>3, <1>4, <1>5, <1>6 DEF Chat

LEMMA ServedChat ==
    ASSUME Base, NEW c \in Calls, calls[c].stage = "sent", calls[c].button \in CommentButtons,
           calls' = [calls EXCEPT ![c].stage = "served"],
           UNCHANGED <<use, world, cache, page, overrides, alone>>
    PROVE  /\ Chat
           /\ \A d \in Calls \ {c} : calls'[d] = calls[d]
           /\ calls'[c].stage = "served" /\ calls'[c].button = calls[c].button
           /\ calls'[c].live = calls[c].live
<1>1. PICK r : r = calls[c] /\ CallOK(r) /\ r.stage = "sent" /\ r.button \in CommentButtons
  BY DEF Base
<1>2. PICK s : s = [r EXCEPT !.stage = "served"]
  OBVIOUS
<1>3. DOMAIN r = Fields
  BY <1>1 DEF CallOK
<1>4. /\ s = [f \in Fields |-> s[f]] /\ s.stage = "served" /\ s.button = r.button /\ s.live = r.live
      /\ s.answer = r.answer
  BY <1>2, <1>3 DEF Fields
<1>5. CallOK(s)
  BY <1>1, <1>4, CommentButtonsApart DEF CallOK, Stages
<1>6. /\ calls' = [d \in Calls |-> calls'[d]]
      /\ \A d \in Calls \ {c} : calls'[d] = calls[d]
      /\ calls'[c] = s
  BY <1>1, <1>2 DEF Base
<1>7. QED
  BY <1>1, <1>4, <1>5, <1>6 DEF Chat

LEMMA AnswerChat ==
    ASSUME Base, NEW c \in Calls, NEW b \in CommentButtons, NEW copy, Answer(c, b, copy)
    PROVE  /\ Chat /\ Held({c}, {})
           /\ \A d \in Calls \ {c} : calls'[d] = calls[d]
           /\ calls[c].stage = "served" /\ calls[c].button = b
           /\ calls'[c].stage = "over" /\ calls'[c].live = FALSE
<1>1. calls[c].stage = "served" /\ calls[c].button = b /\ calls' = Over(c)
      /\ UNCHANGED <<use, world, cache, page, overrides, alone>>
  BY DEF Answer, Answered
<1>2. Held({c}, {})
  BY <1>1, OverHolds
<1>3. \A d \in Calls \ {c} : calls'[d] = calls[d]
  BY <1>2 DEF Held
<1>4. QED
  BY <1>1, <1>2, <1>3 DEF Chat, Held

LEMMA FailThreadChat ==
    ASSUME Base, NEW k \in Slugs, FailThread(k)
    PROVE  /\ Chat
           /\ \A c \in Calls :
                /\ calls'[c].stage = calls[c].stage /\ calls'[c].button = calls[c].button
                /\ calls'[c].live => calls[c].live
                /\ section.slug = k /\ calls[c].button \in CommentButtons => calls'[c].live = FALSE
<1>1. /\ calls' = [c \in Calls |-> calls'[c]]
      /\ \A c \in Calls : calls'[c] = IF section.slug = k /\ calls[c].button \in CommentButtons
                                        THEN [calls[c] EXCEPT !.live = FALSE] ELSE calls[c]
      /\ UNCHANGED <<use, world, cache, page, overrides, alone>>
  BY DEF FailThread
<1>2. ASSUME NEW c \in Calls, section.slug = k, calls[c].button \in CommentButtons
      PROVE  /\ CallOK(calls'[c]) /\ calls'[c].button \in CommentButtons
             /\ calls'[c].stage = calls[c].stage /\ calls'[c].button = calls[c].button
             /\ calls'[c].live = FALSE
  <2>1. CallOK(calls[c]) /\ calls'[c] = [calls[c] EXCEPT !.live = FALSE]
    BY <1>1, <1>2 DEF Base
  <2>2. QED
    BY <1>2, <2>1, CallLeft
<1>3. QED
  BY <1>1, <1>2 DEF Chat

\* What Content says of a step holds of the steps of Conversation.
LEMMA ConversationSteps ==
    ASSUME Base, ConversationNext
    PROVE  Step
<1>1. ASSUME Next \/ UNCHANGED vars \/ Chat PROVE Step
  BY <1>1 DEF Step
<1>2. ASSUME NEW p \in Pages, Turn(Open(p), threads) PROVE Step
  BY <1>1, <1>2 DEF Turn, Next
<1>3. CASE Reconnected
  BY <1>1, <1>3 DEF Reconnected, Next
<1>4. ASSUME NEW k \in Keys, \/ Beside(Expire(k)) \/ Beside(ServeRead(k))
                             \/ Beside(ReceiveRead(k)) \/ Beside(FailRead(k))
      PROVE  Step
  BY <1>1, <1>4 DEF Beside, Next
<1>5. ASSUME NEW c \in Calls, NEW b \in Buttons, Beside(Click(c, b)) PROVE Step
  BY <1>1, <1>5 DEF Beside, Next
<1>6. ASSUME NEW c \in Calls, \/ Beside(Serve(c)) \/ Beside(Lose(c)) \/ Beside(AnswerFavorite(c))
                              \/ Beside(AnswerPreview(c)) \/ Beside(AnswerFollow(c))
      PROVE  Step
  BY <1>1, <1>6 DEF Beside, Next
<1>7. ASSUME NEW c \in Calls, \/ Turn(AnswerPublish(c), threads) \/ Turn(AnswerSave(c), InvalidateThreads)
                              \/ Turn(AnswerDelete(c), threads)
      PROVE  Step
  BY <1>1, <1>7 DEF Turn, Next
<1>8. ASSUME NEW f \in {"favorited", "following"}, Beside(Elsewhere(f)) PROVE Step
  BY <1>1, <1>8 DEF Beside, Next
<1>9. ASSUME NEW k \in Slugs, ExpireThread(k) \/ ServeThread(k) \/ ReceiveThread(k) PROVE Step
  BY <1>1, <1>9 DEF ExpireThread, ServeThread, ReceiveThread
<1>10. ASSUME NEW k \in Slugs, FailThread(k) PROVE Step
  BY <1>1, <1>10, FailThreadChat
<1>11. ASSUME NEW c \in Calls, Post(c) \/ Withdraw(c) PROVE Step
  BY <1>1, <1>11, PressChat, CommentButtonsApart DEF Post, Withdraw
<1>12. ASSUME NEW c \in Calls, ServePost(c) \/ ServeRemove(c) PROVE Step
  BY <1>1, <1>12, ServedChat, CommentButtonsApart DEF ServePost, ServeRemove
<1>13. ASSUME NEW c \in Calls, AnswerPost(c) \/ AnswerRemove(c) PROVE Step
  BY <1>1, <1>13, AnswerChat, CommentButtonsApart DEF AnswerPost, AnswerRemove
<1>14. CASE WithdrawElsewhere
  BY <1>1, <1>14 DEF WithdrawElsewhere
<1>15. QED
  BY <1>2, <1>3, <1>4, <1>5, <1>6, <1>7, <1>8, <1>9, <1>10, <1>11, <1>12, <1>13, <1>14
     DEF ConversationNext

\* The invariant of the pages holds with the comments beside them.
THEOREM ContentInvariance == ConversationSpec => []ContentInv
<1>1. ConversationInit => ContentInv
  BY InitHolds DEF ConversationInit
<1>2. ContentInv /\ [ConversationNext]_conversationVars => ContentInv'
  <2>1. SUFFICES ASSUME ContentInv, [ConversationNext]_conversationVars PROVE ContentInv'
    OBVIOUS
  <2>2. Step
    BY <2>1, ConversationSteps DEF ContentInv, conversationVars, Step
  <2>3. QED
    BY <2>1, <2>2, StepHolds
<1>3. QED
  BY <1>1, <1>2, PTL DEF ConversationSpec

\* A renaming that was answered leaves no article under the slug of before
\* (cacheSavedArticle, content-query.ts), comments or not.
THEOREM ConversationNoGhost == ConversationSpec => []NoGhost
<1>1. ContentInv => NoGhost
  BY GhostAtNoGhost DEF ContentInv
<1>2. QED
  BY <1>1, ContentInvariance, PTL

\* An article page at rest shows the article as the API has it, when nothing has
\* crossed, comments or not.
THEOREM ConversationInSync == ConversationSpec => []InSync
<1>1. ContentInv => InSync
  BY SyncAtInSync DEF ContentInv
<1>2. QED
  BY <1>1, ContentInvariance, PTL

\* A page that waits for an article has asked for it, comments or not.
THEOREM ConversationNeverBlank == ConversationSpec => []NeverBlank
<1>1. ContentInv => NeverBlank
  BY DEF ContentInv
<1>2. QED
  BY <1>1, ContentInvariance, PTL

\* A read that brings another value of following settles both follow buttons,
\* comments or not.
THEOREM ConversationFreshPropWins == ConversationSpec => FreshPropWins
<1>1. ContentInv /\ [ConversationNext]_conversationVars =>
        [/\ page' = page /\ ShowsArticle(page) /\ ShowsArticle(page)'
         /\ Shown'.following # Shown.following
         => \A b \in FollowButtons : FollowingOn(b)' = Shown'.following]_vars
  BY ConversationSteps, FreshPropWinsAt DEF ContentInv, conversationVars
<1>2. QED
  BY <1>1, ContentInvariance, PTL DEF ConversationSpec, FreshPropWins

-----------------------------------------------------------------------------
(* The invariant of the comments *)

\* Calls that have left the tab for good, the comments that were posted among
\* them.
Served == {c \in Calls : calls[c].stage \in {"served", "over", "lost"}}

ThreadEntries ==
    [state: {"missing", "loaded", "failed"}, data: {None} \union Seq(Comments), stale: BOOLEAN,
     reading: {"no", "asked", "answered"}, found: {None} \union Seq(Comments)]

\* What may be shown is a list, and so is what a read has found.
ThreadOK(e, served) ==
    /\ e \in ThreadEntries
    /\ e.state = "loaded" => Listed(e.data, served)
    /\ e.found # None => Listed(e.found, served)

ThreadsAt(store, served) ==
    /\ store = [k \in Slugs |-> store[k]]
    /\ \A k \in Slugs : ThreadOK(store[k], served)

\* Where a section may stand.
OnScreen(k) ==
    /\ Watched /\ page.name = "article" /\ page.slug = k
    /\ cache[k].state = "loaded" /\ threads[k].state = "loaded"

SectionAt ==
    /\ section \in [slug: Slugs \union {None}, shown: Seq(Comments)]
    /\ Listed(section.shown, Served)
    /\ section.slug # None => OnScreen(section.slug)

\* The calls of a section go with it, and what one of them has posted enters
\* it with their answer.
AwaitedAt ==
    \A c \in Calls : calls[c].live /\ calls[c].button \in CommentButtons =>
      /\ section.slug # None
      /\ calls[c].button = "post" /\ calls[c].stage = "served" => ~Contains(section.shown, c)

Talk == Listed(thread, Served) /\ ThreadsAt(threads, Served) /\ SectionAt /\ AwaitedAt

-----------------------------------------------------------------------------
(* What the steps of the pages mean to the calls of a section *)

\* No button of the article ends a call of the section, and one that stays live
\* stays as it was.
Spared ==
    /\ Served \subseteq Served'
    /\ \A c \in Calls :
         /\ calls'[c].live /\ calls'[c].button \in CommentButtons => calls'[c] = calls[c]
         /\ calls[c].stage = "served" /\ calls[c].button \in CommentButtons => calls'[c].stage # "over"

LEMMA CallsSpared ==
    ASSUME UNCHANGED calls
    PROVE  Spared
BY DEF Spared, Served

LEMMA HeldSpared ==
    ASSUME NEW over, NEW left, Held(over, left),
           \A c \in over : calls[c].stage = "served" /\ calls[c].button \notin CommentButtons
    PROVE  Spared
<1>1. Served \subseteq Served'
  BY DEF Held, Served
<1>2. ASSUME NEW c \in Calls, calls'[c].live PROVE calls'[c] = calls[c]
  BY <1>2 DEF Held
<1>3. ASSUME NEW c \in Calls, calls[c].stage = "served", calls[c].button \in CommentButtons
      PROVE  calls'[c].stage # "over"
  BY <1>3 DEF Held
<1>4. QED
  BY <1>1, <1>2, <1>3 DEF Spared

LEMMA SparedStep ==
    ASSUME Base, Next
    PROVE  Spared
<1>1. ASSUME NEW p \in Pages, Open(p) PROVE Spared
  BY <1>1, LeaveHolds, HeldSpared DEF Open
<1>2. CASE Reconnect
  BY <1>2, CallsSpared DEF Reconnect
<1>3. ASSUME NEW k \in Keys, Expire(k) \/ ServeRead(k) \/ ReceiveRead(k) PROVE Spared
  BY <1>3, CallsSpared DEF Expire, ServeRead, ReceiveRead
<1>4. ASSUME NEW k \in Keys, FailRead(k) PROVE Spared
  BY <1>4, CallsSpared, LeaveHolds, HeldSpared DEF FailRead
<1>5. ASSUME NEW c \in Calls, NEW b \in Buttons, Click(c, b) PROVE Spared
  <2>1. /\ \A d \in Calls \ {c} : calls'[d] = calls[d]
        /\ calls'[c].stage = "sent" /\ calls'[c].button = b
    BY <1>5, ClickFacts
  <2>2. calls[c].stage = "idle" /\ b \notin CommentButtons
    BY <1>5, ButtonsApart DEF Click
  <2>3. QED
    BY <2>1, <2>2 DEF Spared, Served
<1>6. ASSUME NEW c \in Calls, Serve(c) PROVE Spared
  <2>1. /\ \A d \in Calls \ {c} : calls'[d] = calls[d]
        /\ calls'[c].stage = "served" /\ calls'[c].button = calls[c].button
    BY <1>6, ServeFacts
  <2>2. calls[c].button \notin CommentButtons
    BY <1>6, ButtonsApart DEF Serve
  <2>3. QED
    BY <2>1, <2>2 DEF Spared, Served
<1>7. ASSUME NEW c \in Calls, Lose(c) PROVE Spared
  <2>1. /\ \A d \in Calls \ {c} : calls'[d] = calls[d]
        /\ calls'[c].stage = "lost" /\ calls'[c].live = FALSE
    BY <1>7, LoseFacts
  <2>2. QED
    BY <2>1 DEF Spared, Served
<1>8. ASSUME NEW c \in Calls, Held({c}, {}) \/ Held({c}, Calls), calls[c].stage = "served",
             calls[c].button \in Buttons
      PROVE  Spared
  BY <1>8, HeldSpared, ButtonsApart
<1>9. ASSUME NEW c \in Calls, AnswerFavorite(c) PROVE Spared
  BY <1>8, <1>9, AnswerFavoriteBase, ButtonsApart DEF AnswerFavorite, Answered
<1>10. ASSUME NEW c \in Calls, AnswerPreview(c) PROVE Spared
  BY <1>8, <1>10, AnswerPreviewBase, ButtonsApart DEF AnswerPreview, Answered
<1>11. ASSUME NEW c \in Calls, AnswerFollow(c) PROVE Spared
  BY <1>8, <1>11, AnswerFollowBase, ButtonsApart DEF AnswerFollow, Answered
<1>12. ASSUME NEW c \in Calls, AnswerPublish(c) PROVE Spared
  BY <1>8, <1>12, AnswerPublishEffect, ButtonsApart DEF Pushed
<1>13. ASSUME NEW c \in Calls, AnswerSave(c) PROVE Spared
  BY <1>8, <1>13, AnswerSaveEffect, ButtonsApart DEF Pushed
<1>14. ASSUME NEW c \in Calls, AnswerDelete(c) PROVE Spared
  BY <1>8, <1>14, AnswerDeleteEffect, ButtonsApart DEF Pushed
<1>15. ASSUME NEW f \in {"favorited", "following"}, Elsewhere(f) PROVE Spared
  BY <1>15, CallsSpared DEF Elsewhere
<1>16. QED
  BY <1>1, <1>2, <1>3, <1>4, <1>5, <1>6, <1>7, <1>9, <1>10, <1>11, <1>12, <1>13, <1>14, <1>15 DEF Next

\* While a call of a section stays live, so does the page under it.
Stands == page' = page /\ cache'[page.slug].state = "loaded"

LEMMA StandsStep ==
    ASSUME Base, Next, ShowsArticle(page), NEW c \in Calls,
           calls'[c].live, calls'[c].button \in CommentButtons
    PROVE  Stands
<1>1. PICK k \in Slugs : /\ k = page.slug /\ k \in Keys /\ Mounted(page) = {k} /\ page.name = "article"
                         /\ cache[k].state = "loaded"
  BY ShowsArticleFacts
<1>2. cache \in [Keys -> Entries] /\ page \in Pages
  BY DEF Base
<1>3. ASSUME NEW p \in Pages, Open(p) PROVE FALSE
  BY <1>3, LeaveHolds DEF Open, Held
<1>4. CASE Reconnect
  <2>1. cache' = MountOn(cache, page) /\ page' = page
    BY <1>4 DEF Reconnect
  <2>2. cache'[k].state = "loaded"
    BY <1>1, <1>2, <2>1, MountOnFacts
  <2>3. QED
    BY <1>1, <2>1, <2>2 DEF Stands
<1>5. ASSUME NEW j \in Keys, Expire(j) PROVE Stands
  <2>1. cache' = [cache EXCEPT ![j].stale = TRUE] /\ page' = page
    BY <1>5 DEF Expire
  <2>2. cache'[k].state = "loaded"
    BY <1>1, <1>2, <2>1 DEF Entries
  <2>3. QED
    BY <1>1, <2>1, <2>2 DEF Stands
<1>6. ASSUME NEW j \in Keys, ServeRead(j) PROVE Stands
  <2>1. PICK found : /\ cache' = [cache EXCEPT ![j].reading = "answered", ![j].found = found]
                     /\ page' = page
    BY <1>6 DEF ServeRead
  <2>2. cache'[k].state = "loaded"
    <3>1. CASE j = k
      <4>1. PICK e \in Entries : e = cache[k]
        BY <1>1, <1>2
      <4>2. cache'[k] = [e EXCEPT !.reading = "answered", !.found = found]
        BY <1>1, <1>2, <2>1, <3>1, <4>1
      <4>3. QED
        BY <1>1, <4>1, <4>2 DEF Entries
    <3>2. CASE j # k
      BY <1>1, <1>2, <2>1, <3>2
    <3>3. QED
      BY <3>1, <3>2
  <2>3. QED
    BY <1>1, <2>1, <2>2 DEF Stands
<1>7. ASSUME NEW j \in Keys, ReceiveRead(j) PROVE Stands
  <2>1. page' = page
    BY <1>7 DEF ReceiveRead
  <2>2. cache'[j].state = "loaded" /\ \A i \in Keys \ {j} : cache'[i] = cache[i]
    BY <1>7, ReceiveReadEntry
  <2>3. QED
    BY <1>1, <2>1, <2>2 DEF Stands
<1>8. ASSUME NEW j \in Keys, FailRead(j) PROVE Stands
  <2>1. j \notin Mounted(page)
    BY <1>8, LeaveHolds DEF FailRead, Held
  <2>2. cache'[k] = cache[k] /\ page' = page
    BY <1>1, <1>2, <1>8, <2>1 DEF FailRead
  <2>3. QED
    BY <1>1, <2>2 DEF Stands
<1>9. ASSUME NEW d \in Calls, NEW b \in Buttons, Click(d, b) PROVE Stands
  BY <1>1, <1>9 DEF Click, Stands
<1>10. ASSUME NEW d \in Calls, Serve(d) \/ Lose(d) PROVE Stands
  BY <1>1, <1>10 DEF Serve, Lose, Stands
<1>11. ASSUME NEW d \in Calls, AnswerFavorite(d) PROVE Stands
  <2>1. page' = page
    BY <1>11 DEF AnswerFavorite
  <2>2. PICK j \in Slugs : j \in Keys /\ cache'[j].state = "loaded"
                           /\ \A i \in Keys : i # j => cache'[i] = cache[i]
    BY <1>11, AnswerFavoriteFacts
  <2>3. QED
    BY <1>1, <2>1, <2>2 DEF Stands
<1>12. ASSUME NEW d \in Calls, AnswerPreview(d) \/ AnswerFollow(d) PROVE Stands
  BY <1>1, <1>12 DEF AnswerPreview, AnswerFollow, Stands
<1>13. ASSUME NEW d \in Calls, Pushed(d) PROVE page' = page
  BY <1>13 DEF Pushed, Held
<1>14. ASSUME NEW d \in Calls, AnswerPublish(d) PROVE Stands
  <2>1. PICK j \in Slugs : page' = [name |-> "article", slug |-> j] /\ cache'[j].state = "loaded"
    BY <1>14, AnswerPublishEffect
  <2>2. page' = page
    BY <1>13, <1>14, AnswerPublishEffect
  <2>3. QED
    BY <1>1, <2>1, <2>2 DEF Stands
<1>15. ASSUME NEW d \in Calls, AnswerSave(d) PROVE FALSE
  BY <1>1, <1>13, <1>15, AnswerSaveEffect
<1>16. ASSUME NEW d \in Calls, AnswerDelete(d) PROVE FALSE
  BY <1>1, <1>13, <1>16, AnswerDeleteEffect
<1>17. ASSUME NEW f \in {"favorited", "following"}, Elsewhere(f) PROVE Stands
  BY <1>1, <1>17 DEF Elsewhere, Stands
<1>18. QED
  BY <1>3, <1>4, <1>5, <1>6, <1>7, <1>8, <1>9, <1>10, <1>11, <1>12, <1>14, <1>15, <1>16, <1>17 DEF Next

-----------------------------------------------------------------------------
(* What becomes of the entries of the comments and of the section *)

LEMMA WithoutListed ==
    ASSUME NEW s, NEW served, NEW e, Listed(s, served)
    PROVE  Listed(Without(s, e), served)
BY WithoutFacts DEF Listed

LEMMA EmptyListed ==
    ASSUME NEW served
    PROVE  Listed(<<>>, served)
BY DEF Listed, IsInjective, Contains

LEMMA ThreadsLater ==
    ASSUME NEW store, NEW served, NEW later, ThreadsAt(store, served), served \subseteq later
    PROVE  ThreadsAt(store, later)
BY ListedLater DEF ThreadsAt, ThreadOK

LEMMA AskThread ==
    ASSUME NEW e, NEW served, ThreadOK(e, served)
    PROVE  ThreadOK(Ask(e), served) /\ Ask(e).state = e.state
<1>1. /\ Ask(e) \in ThreadEntries /\ Ask(e).state = e.state /\ Ask(e).data = e.data
      /\ Ask(e).found = None
  BY DEF ThreadOK, ThreadEntries, Ask
<1>2. QED
  BY <1>1 DEF ThreadOK

LEMMA StaleThread ==
    ASSUME NEW e, NEW served, ThreadOK(e, served)
    PROVE  ThreadOK([e EXCEPT !.stale = TRUE], served) /\ [e EXCEPT !.stale = TRUE].state = e.state
<1>1. PICK f : f = [e EXCEPT !.stale = TRUE]
  OBVIOUS
<1>2. f \in ThreadEntries /\ f.state = e.state /\ f.data = e.data /\ f.found = e.found
  BY <1>1 DEF ThreadOK, ThreadEntries
<1>3. ThreadOK(f, served)
  BY <1>2 DEF ThreadOK
<1>4. QED
  BY <1>1, <1>2, <1>3

\* Entries that are loaded stay so.
Loaded(before, after) == \A k \in Slugs : before[k].state = "loaded" => after[k].state = "loaded"

LEMMA MountThreadFacts ==
    ASSUME NEW store, NEW served, ThreadsAt(store, served), NEW p \in Pages
    PROVE  ThreadsAt(MountThread(store, p), served) /\ Loaded(store, MountThread(store, p))
<1>1. CASE MountThread(store, p) = store
  BY <1>1 DEF Loaded
<1>2. CASE MountThread(store, p) # store
  <2>1. PICK k \in Slugs : k = p.slug /\ MountThread(store, p) = [store EXCEPT ![k] = Ask(@)]
    BY <1>2, MountedFacts DEF MountThread, Refresh
  <2>2. PICK e : e = Ask(store[k])
    OBVIOUS
  <2>3. ThreadOK(e, served) /\ e.state = store[k].state
    BY <2>2, AskThread DEF ThreadsAt
  <2>4. MountThread(store, p) = [store EXCEPT ![k] = e]
    BY <2>1, <2>2
  <2>5. PICK after : after = MountThread(store, p)
    OBVIOUS
  <2>6. ThreadsAt(after, served) /\ after[k] = e /\ \A j \in Slugs \ {k} : after[j] = store[j]
    <3>1. after = [store EXCEPT ![k] = e]
      BY <2>4, <2>5
    <3>2. QED
      BY <2>3, <3>1 DEF ThreadsAt
  <2>7. Loaded(store, after)
    BY <2>3, <2>6 DEF Loaded
  <2>8. QED
    BY <2>5, <2>6, <2>7
<1>3. QED
  BY <1>1, <1>2

LEMMA InvalidateThreadsFacts ==
    ASSUME NEW served, ThreadsAt(threads, served)
    PROVE  ThreadsAt(InvalidateThreads, served) /\ Loaded(threads, InvalidateThreads)
<1>1. ASSUME NEW k \in Slugs
      PROVE  ThreadOK(InvalidateThreads[k], served) /\ InvalidateThreads[k].state = threads[k].state
  <2>1. PICK e, f : e = threads[k] /\ f = [threads[k] EXCEPT !.stale = TRUE]
    OBVIOUS
  <2>2. ThreadOK(e, served) /\ ThreadOK(f, served) /\ f.state = e.state
    BY <2>1, StaleThread DEF ThreadsAt
  <2>3. ThreadOK(Ask(f), served) /\ Ask(f).state = e.state
    BY <2>2, AskThread
  <2>4. InvalidateThreads[k] = e \/ InvalidateThreads[k] = f \/ InvalidateThreads[k] = Ask(f)
    BY <2>1 DEF InvalidateThreads
  <2>5. QED
    BY <2>1, <2>2, <2>3, <2>4
<1>2. InvalidateThreads = [k \in Slugs |-> InvalidateThreads[k]]
  BY DEF InvalidateThreads
<1>3. QED
  BY <1>1, <1>2 DEF ThreadsAt, Loaded

LEMMA ReceiveThreadFacts ==
    ASSUME NEW served, ThreadsAt(threads, served), NEW k \in Slugs, ReceiveThread(k)
    PROVE  ThreadsAt(threads', served) /\ Loaded(threads, threads')
<1>1. PICK e : e = threads[k] /\ ThreadOK(e, served) /\ e.found # None
  BY DEF ThreadsAt, ReceiveThread
<1>2. PICK f : f = [state |-> "loaded", data |-> e.found, stale |-> FALSE, reading |-> "no", found |-> None]
  OBVIOUS
<1>3. ThreadOK(f, served)
  <2>1. Listed(e.found, served) /\ e.found \in Seq(Comments)
    BY <1>1 DEF ThreadOK, Listed
  <2>2. /\ f.state = "loaded" /\ f.data = e.found /\ f.found = None
        /\ f \in ThreadEntries
    BY <1>2, <2>1 DEF ThreadEntries
  <2>3. QED
    BY <2>1, <2>2 DEF ThreadOK
<1>4. threads' = [threads EXCEPT ![k] = f]
  <2>1. threads' = [SetData(threads, k, e.found) EXCEPT ![k].reading = "no", ![k].found = None]
    BY <1>1 DEF ReceiveThread
  <2>2. SetData(threads, k, e.found) =
          [threads EXCEPT ![k] = [[[e EXCEPT !.state = "loaded"] EXCEPT !.data = e.found] EXCEPT !.stale = FALSE]]
    BY <1>1 DEF SetData, ThreadsAt
  <2>3. threads' = [threads EXCEPT ![k] =
          [[[[[e EXCEPT !.state = "loaded"] EXCEPT !.data = e.found] EXCEPT !.stale = FALSE]
             EXCEPT !.reading = "no"] EXCEPT !.found = None]]
    BY <1>1, <2>1, <2>2 DEF ThreadsAt
  <2>4. f = [[[[[e EXCEPT !.state = "loaded"] EXCEPT !.data = e.found] EXCEPT !.stale = FALSE]
               EXCEPT !.reading = "no"] EXCEPT !.found = None]
    <3>1. PICK g : g = [[[[[e EXCEPT !.state = "loaded"] EXCEPT !.data = e.found] EXCEPT !.stale = FALSE]
                         EXCEPT !.reading = "no"] EXCEPT !.found = None]
      OBVIOUS
    <3>2. e = [x \in {"state", "data", "stale", "reading", "found"} |-> e[x]]
      BY <1>1 DEF ThreadOK, ThreadEntries
    <3>3. /\ g = [x \in {"state", "data", "stale", "reading", "found"} |-> g[x]]
          /\ g.state = "loaded" /\ g.data = e.found /\ g.stale = FALSE /\ g.reading = "no" /\ g.found = None
      BY <3>1, <3>2
    <3>4. /\ f = [x \in {"state", "data", "stale", "reading", "found"} |-> f[x]]
          /\ f.state = "loaded" /\ f.data = e.found /\ f.stale = FALSE /\ f.reading = "no" /\ f.found = None
      BY <1>2
    <3>5. f = g
      BY <3>3, <3>4
    <3>6. QED
      BY <3>1, <3>5
  <2>5. QED
    BY <2>3, <2>4
<1>5. ThreadsAt(threads', served) /\ threads'[k] = f /\ \A j \in Slugs \ {k} : threads'[j] = threads[j]
  BY <1>3, <1>4 DEF ThreadsAt
<1>6. QED
  BY <1>2, <1>5 DEF Loaded

\* A render, after a step that keeps the page under the calls that stay live.
LEMMA RenderHolds ==
    ASSUME page' \in Pages, use' = use, SectionAt, NEW copy, Listed(copy, Served'), ThreadsAt(threads', Served'), Render(copy),
           \A c \in Calls : calls'[c].live /\ calls'[c].button \in CommentButtons =>
             /\ HasSection /\ section.slug = page'.slug
             /\ calls'[c].button = "post" /\ calls'[c].stage = "served" => ~Contains(copy, c)
    PROVE  SectionAt' /\ AwaitedAt'
<1>1. section = [slug |-> section.slug, shown |-> section.shown]
  BY DEF SectionAt
<1>2. copy \in Seq(Comments)
  BY DEF Listed
<1>3. CASE ~HasSection
  <2>1. section' = NoSection
    BY <1>3 DEF Render
  <2>2. section'.slug = None /\ section'.shown = <<>> /\ section' \in [slug: Slugs \union {None}, shown: Seq(Comments)]
    BY <2>1 DEF NoSection
  <2>3. SectionAt'
    BY <2>2, EmptyListed DEF SectionAt
  <2>4. AwaitedAt'
    BY <1>3 DEF AwaitedAt
  <2>5. QED
    BY <2>3, <2>4
<1>4. CASE HasSection
  <2>1. PICK k \in Slugs : k = page'.slug /\ k # None
    BY <1>4, MountedFacts, NoneAssumption DEF HasSection, Keys
  <2>2. OnScreen(k)'
    BY <1>4, <2>1 DEF HasSection, OnScreen, Watched
  <2>3. CASE section.slug = page'.slug
    <3>1. section' = [slug |-> k, shown |-> copy]
      BY <1>1, <1>4, <2>1, <2>3 DEF Render
    <3>2. section'.slug = k /\ section'.shown = copy
          /\ section' \in [slug: Slugs \union {None}, shown: Seq(Comments)]
      BY <1>2, <3>1
    <3>3. QED
      BY <2>1, <2>2, <3>2 DEF SectionAt, AwaitedAt
  <2>4. CASE section.slug # page'.slug
    <3>1. PICK s : s = threads'[k].data /\ Listed(s, Served')
      BY <2>1, <2>2 DEF ThreadsAt, ThreadOK, OnScreen
    <3>2. section' = [slug |-> k, shown |-> s]
      BY <1>4, <2>1, <2>4, <3>1 DEF Render
    <3>3. section'.slug = k /\ section'.shown = s
          /\ section' \in [slug: Slugs \union {None}, shown: Seq(Comments)]
      BY <3>1, <3>2 DEF Listed
    <3>4. SectionAt'
      BY <2>2, <3>1, <3>3 DEF SectionAt
    <3>5. AwaitedAt'
      BY <2>4 DEF AwaitedAt
    <3>6. QED
      BY <3>4, <3>5
  <2>5. QED
    BY <2>3, <2>4
<1>5. QED
  BY <1>3, <1>4

-----------------------------------------------------------------------------
(* Talk is an invariant *)

\* A step that neither posts nor removes.
LEMMA QuietHolds ==
    ASSUME Base', Talk, Spared, use' = use, UNCHANGED thread,
           ThreadsAt(threads', Served), Loaded(threads, threads'), Render(section.shown),
           \A c \in Calls : calls'[c].live /\ calls'[c].button \in CommentButtons /\ ShowsArticle(page)
             => Stands
    PROVE  Talk'
<1>1. Served \subseteq Served'
  BY DEF Spared
<1>2. Listed(thread', Served') /\ ThreadsAt(threads', Served') /\ Listed(section.shown, Served')
  BY <1>1, ListedLater, ThreadsLater DEF Talk, SectionAt
<1>3. page' \in Pages
  BY DEF Base
<1>4. ASSUME NEW c \in Calls, calls'[c].live, calls'[c].button \in CommentButtons
      PROVE  /\ HasSection /\ section.slug = page'.slug
             /\ calls'[c].button = "post" /\ calls'[c].stage = "served" => ~Contains(section.shown, c)
  <2>1. calls'[c] = calls[c]
    BY <1>4 DEF Spared
  <2>2. /\ section.slug # None
        /\ calls'[c].button = "post" /\ calls'[c].stage = "served" => ~Contains(section.shown, c)
    BY <1>4, <2>1 DEF Talk, AwaitedAt
  <2>3. PICK k \in Slugs : k = section.slug /\ OnScreen(k)
    BY <2>2 DEF Talk, SectionAt
  <2>4. Stands
    BY <1>4, <2>3 DEF OnScreen, ShowsArticle
  <2>5. HasSection /\ section.slug = page'.slug
    BY <2>3, <2>4 DEF HasSection, OnScreen, Stands, Loaded
  <2>6. QED
    BY <2>2, <2>5
<1>5. SectionAt' /\ AwaitedAt'
  BY <1>2, <1>3, <1>4, RenderHolds DEF Talk
<1>6. QED
  BY <1>2, <1>5 DEF Talk

LEMMA BesideTalk ==
    ASSUME Base, Talk, Next, UNCHANGED thread,
           ThreadsAt(threads', Served), Loaded(threads, threads'), Render(section.shown)
    PROVE  Talk'
<1>1. Base' /\ use' = use
  BY BaseStep, KeptStep DEF Step, Kept
<1>2. QED
  BY <1>1, SparedStep, StandsStep, QuietHolds

LEMMA ReadTalk ==
    ASSUME Base, Talk, UNCHANGED <<vars, thread>>,
           ThreadsAt(threads', Served), Loaded(threads, threads'), Render(section.shown)
    PROVE  Talk'
<1>1. Base' /\ use' = use /\ Spared
  BY BaseStep, CallsSpared DEF Step, vars
<1>2. ShowsArticle(page) => Stands
  BY DEF ShowsArticle, Stands, vars
<1>3. QED
  BY <1>1, <1>2, QuietHolds

\* Steps that leave the section as it is.
LEMMA StillTalk ==
    ASSUME Base, Talk, UNCHANGED <<use, cache, page, section>>, Served \subseteq Served',
           Listed(thread', Served'), ThreadsAt(threads', Served'), Loaded(threads, threads'),
           \A c \in Calls : calls'[c].live /\ calls'[c].button \in CommentButtons =>
             /\ section.slug # None
             /\ calls'[c].button = "post" /\ calls'[c].stage = "served" => ~Contains(section.shown, c)
    PROVE  Talk'
<1>1. SectionAt'
  <2>1. Listed(section'.shown, Served')
    BY ListedLater DEF Talk, SectionAt
  <2>2. ASSUME section'.slug # None PROVE OnScreen(section.slug)'
    <3>1. PICK k \in Slugs : k = section.slug /\ OnScreen(k)
      BY <2>2 DEF Talk, SectionAt
    <3>2. OnScreen(k)'
      BY <3>1 DEF OnScreen, Loaded, Watched
    <3>3. QED
      BY <3>1, <3>2
  <2>3. section' \in [slug: Slugs \union {None}, shown: Seq(Comments)]
    BY DEF Talk, SectionAt
  <2>4. QED
    BY <2>1, <2>2, <2>3 DEF SectionAt
<1>2. AwaitedAt'
  BY DEF AwaitedAt
<1>3. QED
  BY <1>1, <1>2 DEF Talk

LEMMA ThreadsStill ==
    ASSUME Talk, UNCHANGED threads
    PROVE  ThreadsAt(threads', Served) /\ Loaded(threads, threads')
BY DEF Talk, Loaded

LEMMA PressTalk ==
    ASSUME Base, Talk, NEW c \in Calls, NEW b \in CommentButtons, NEW comment, Press(c, b, comment)
    PROVE  Talk'
<1>1. /\ \A d \in Calls \ {c} : calls'[d] = calls[d]
      /\ calls'[c].stage = "sent" /\ calls[c].stage = "idle"
  BY PressChat
<1>2. UNCHANGED <<use, cache, page, thread, threads, section>> /\ section.slug # None
  BY DEF Press
<1>3. Served' = Served
  BY <1>1 DEF Served
<1>4. Listed(thread', Served') /\ ThreadsAt(threads', Served') /\ Loaded(threads, threads')
  BY <1>2, <1>3 DEF Talk, Loaded
<1>5. ASSUME NEW d \in Calls, calls'[d].live, calls'[d].button \in CommentButtons
      PROVE  /\ section.slug # None
             /\ calls'[d].button = "post" /\ calls'[d].stage = "served" => ~Contains(section.shown, d)
  BY <1>1, <1>2, <1>5 DEF Talk, AwaitedAt
<1>6. QED
  BY <1>2, <1>3, <1>4, <1>5, StillTalk

LEMMA ServedTalk ==
    ASSUME Base, Talk, NEW c \in Calls, calls[c].stage = "sent", calls[c].button \in CommentButtons,
           calls' = [calls EXCEPT ![c].stage = "served"],
           UNCHANGED <<use, world, cache, page, overrides, alone, threads, section>>,
           Listed(thread', Served \union {c})
    PROVE  Talk'
<1>1. /\ \A d \in Calls \ {c} : calls'[d] = calls[d]
      /\ calls'[c].stage = "served" /\ calls'[c].button = calls[c].button /\ calls'[c].live = calls[c].live
  BY ServedChat
<1>2. Served' = Served \union {c}
  BY <1>1 DEF Served
<1>3. ThreadsAt(threads', Served') /\ Loaded(threads, threads')
  BY <1>2, ThreadsStill, ThreadsLater
<1>4. ~Contains(section.shown, c)
  BY DEF Talk, SectionAt, Listed, Served
<1>5. ASSUME NEW d \in Calls, calls'[d].live, calls'[d].button \in CommentButtons
      PROVE  /\ section.slug # None
             /\ calls'[d].button = "post" /\ calls'[d].stage = "served" => ~Contains(section.shown, d)
  <2>1. CASE d = c
    BY <1>1, <1>4, <1>5, <2>1 DEF Talk, AwaitedAt
  <2>2. CASE d # c
    BY <1>1, <1>5, <2>2 DEF Talk, AwaitedAt
  <2>3. QED
    BY <2>1, <2>2
<1>6. QED
  BY <1>2, <1>3, <1>5, StillTalk

LEMMA FailThreadTalk ==
    ASSUME Base, Talk, NEW k \in Slugs, FailThread(k)
    PROVE  Talk'
<1>1. /\ UNCHANGED <<use, world, cache, page, overrides, alone, thread>> /\ Render(section.shown)
      /\ threads' = [threads EXCEPT ![k].state = "failed", ![k].stale = TRUE,
                                    ![k].reading = "no", ![k].found = None]
  BY DEF FailThread
<1>2. \A c \in Calls :
        /\ calls'[c].stage = calls[c].stage /\ calls'[c].button = calls[c].button
        /\ calls'[c].live => calls[c].live
        /\ section.slug = k /\ calls[c].button \in CommentButtons => calls'[c].live = FALSE
  BY FailThreadChat
<1>3. Served' = Served
  BY <1>2 DEF Served
<1>4. threads' = [j \in Slugs |-> threads'[j]] /\ \A j \in Slugs \ {k} : threads'[j] = threads[j]
  BY <1>1 DEF Talk, ThreadsAt
<1>5. ThreadOK(threads'[k], Served)
  <2>1. PICK e : e = threads[k] /\ ThreadOK(e, Served)
    BY DEF Talk, ThreadsAt
  <2>2. PICK f : f = [e EXCEPT !.state = "failed", !.stale = TRUE, !.reading = "no", !.found = None]
    OBVIOUS
  <2>3. f \in ThreadEntries /\ f.state = "failed" /\ f.found = None
    BY <2>1, <2>2 DEF ThreadOK, ThreadEntries
  <2>4. ThreadOK(f, Served)
    BY <2>3 DEF ThreadOK
  <2>5. threads'[k] = f
    BY <1>1, <2>1, <2>2 DEF Talk, ThreadsAt
  <2>6. QED
    BY <2>4, <2>5
<1>6. ThreadsAt(threads', Served')
  BY <1>3, <1>4, <1>5 DEF Talk, ThreadsAt
<1>7. Base' /\ page' \in Pages
  BY FailThreadChat, ChatBase DEF Base
<1>8. ASSUME NEW c \in Calls, calls'[c].live, calls'[c].button \in CommentButtons
      PROVE  /\ HasSection /\ section.slug = page'.slug
             /\ calls'[c].button = "post" /\ calls'[c].stage = "served" => ~Contains(section.shown, c)
  <2>1. /\ section.slug # None /\ section.slug # k
        /\ calls'[c].button = "post" /\ calls'[c].stage = "served" => ~Contains(section.shown, c)
    BY <1>2, <1>8 DEF Talk, AwaitedAt
  <2>2. PICK j \in Slugs : j = section.slug /\ OnScreen(j)
    BY <2>1 DEF Talk, SectionAt
  <2>3. HasSection /\ section.slug = page'.slug
    BY <1>1, <1>4, <2>1, <2>2 DEF HasSection, OnScreen
  <2>4. QED
    BY <2>1, <2>3
<1>9. Listed(section.shown, Served')
  BY <1>3 DEF Talk, SectionAt
<1>10. SectionAt' /\ AwaitedAt'
  BY <1>1, <1>6, <1>7, <1>8, <1>9, RenderHolds DEF Talk
<1>11. QED
  BY <1>1, <1>3, <1>6, <1>10 DEF Talk

\* An answer writes the copy of the section it was asked from, if it is there.
LEMMA AnswerTalk ==
    ASSUME Base, Talk, NEW c \in Calls, NEW b \in CommentButtons, NEW copy, Answer(c, b, copy),
           calls[c].live => /\ Listed(copy, Served)
                            /\ \A x : Contains(copy, x) /\ x # c => Contains(section.shown, x)
    PROVE  Talk'
<1>1. /\ \A d \in Calls \ {c} : calls'[d] = calls[d]
      /\ calls[c].stage = "served" /\ calls'[c].stage = "over" /\ calls'[c].live = FALSE
      /\ Chat
  BY AnswerChat
<1>2. PICK shown : shown = IF calls[c].live THEN copy ELSE section.shown
  OBVIOUS
<1>3. Render(shown) /\ UNCHANGED <<use, world, cache, page, overrides, alone, thread, threads>>
  BY <1>2 DEF Answer
<1>4. Served' = Served
  BY <1>1 DEF Served
<1>5. Listed(shown, Served') /\ \A x : Contains(shown, x) /\ x # c => Contains(section.shown, x)
  BY <1>2, <1>4 DEF Talk, SectionAt
<1>6. ThreadsAt(threads', Served')
  BY <1>3, <1>4 DEF Talk
<1>7. page' \in Pages
  BY <1>3 DEF Base
<1>8. ASSUME NEW d \in Calls, calls'[d].live, calls'[d].button \in CommentButtons
      PROVE  /\ HasSection /\ section.slug = page'.slug
             /\ calls'[d].button = "post" /\ calls'[d].stage = "served" => ~Contains(shown, d)
  <2>1. d # c /\ calls'[d] = calls[d]
    BY <1>1, <1>8
  <2>2. /\ section.slug # None
        /\ calls'[d].button = "post" /\ calls'[d].stage = "served" => ~Contains(section.shown, d)
    BY <1>8, <2>1 DEF Talk, AwaitedAt
  <2>3. PICK k \in Slugs : k = section.slug /\ OnScreen(k)
    BY <2>2 DEF Talk, SectionAt
  <2>4. HasSection /\ section.slug = page'.slug
    BY <1>3, <2>3 DEF HasSection, OnScreen
  <2>5. QED
    BY <1>5, <2>1, <2>2, <2>4
<1>9. SectionAt' /\ AwaitedAt'
  BY <1>3, <1>5, <1>6, <1>7, <1>8, RenderHolds DEF Talk
<1>10. QED
  BY <1>3, <1>4, <1>6, <1>9 DEF Talk

LEMMA TalkStep ==
    ASSUME Base, Talk, [ConversationNext]_conversationVars
    PROVE  Talk'
<1>1. /\ Listed(thread, Served) /\ ThreadsAt(threads, Served) /\ page \in Pages
      /\ Loaded(threads, threads)
  BY DEF Talk, Base, Loaded
<1>2. ASSUME NEW action, action => Next, Beside(action) PROVE Talk'
  <2>1. Next /\ UNCHANGED <<thread, threads>> /\ Render(section.shown)
    BY <1>2 DEF Beside
  <2>2. QED
    BY <1>1, <2>1, BesideTalk
<1>3. ASSUME NEW action, action => Next, NEW store, Turn(action, store),
             ThreadsAt(store, Served), Loaded(threads, store)
      PROVE  Talk'
  <2>1. Next /\ UNCHANGED thread /\ Render(section.shown)
        /\ threads' = IF page' = page THEN store ELSE MountThread(store, page')
    BY <1>3 DEF Turn
  <2>2. page' \in Pages
    BY <2>1, BaseStep DEF Base, Step
  <2>3. ThreadsAt(MountThread(store, page'), Served) /\ Loaded(store, MountThread(store, page'))
    BY <1>3, <2>2, MountThreadFacts
  <2>4. ThreadsAt(threads', Served) /\ Loaded(threads, threads')
    BY <1>3, <2>1, <2>3 DEF Loaded
  <2>5. QED
    BY <2>1, <2>4, BesideTalk
<1>4. ASSUME NEW p \in Pages, Turn(Open(p), threads) PROVE Talk'
  BY <1>1, <1>3, <1>4 DEF Next
<1>5. CASE Reconnected
  <2>1. /\ threads' = MountThread(threads, page) /\ UNCHANGED thread /\ Render(section.shown)
        /\ Next \/ UNCHANGED vars
    BY <1>5 DEF Reconnected, Next
  <2>2. ThreadsAt(threads', Served) /\ Loaded(threads, threads')
    BY <1>1, <2>1, MountThreadFacts
  <2>3. QED
    BY <2>1, <2>2, BesideTalk, ReadTalk
<1>6. ASSUME NEW k \in Keys, \/ Beside(Expire(k)) \/ Beside(ServeRead(k))
                             \/ Beside(ReceiveRead(k)) \/ Beside(FailRead(k))
      PROVE  Talk'
  BY <1>2, <1>6 DEF Next
<1>7. ASSUME NEW c \in Calls, NEW b \in Buttons, Beside(Click(c, b)) PROVE Talk'
  BY <1>2, <1>7 DEF Next
<1>8. ASSUME NEW c \in Calls, \/ Beside(Serve(c)) \/ Beside(Lose(c)) \/ Beside(AnswerFavorite(c))
                              \/ Beside(AnswerPreview(c)) \/ Beside(AnswerFollow(c))
      PROVE  Talk'
  BY <1>2, <1>8 DEF Next
<1>9. ASSUME NEW c \in Calls, Turn(AnswerPublish(c), threads) \/ Turn(AnswerDelete(c), threads)
      PROVE  Talk'
  BY <1>1, <1>3, <1>9 DEF Next
<1>10. ASSUME NEW c \in Calls, Turn(AnswerSave(c), InvalidateThreads) PROVE Talk'
  BY <1>1, <1>3, <1>10, InvalidateThreadsFacts DEF Next
<1>11. ASSUME NEW f \in {"favorited", "following"}, Beside(Elsewhere(f)) PROVE Talk'
  BY <1>2, <1>11 DEF Next
<1>12. ASSUME UNCHANGED <<vars, section>>, Listed(thread', Served), ThreadsAt(threads', Served),
              Loaded(threads, threads')
       PROVE  Talk'
  <2>1. Served' = Served /\ UNCHANGED <<use, cache, page, section>>
    BY <1>12 DEF Served, vars
  <2>2. ASSUME NEW c \in Calls, calls'[c].live, calls'[c].button \in CommentButtons
        PROVE  /\ section.slug # None
               /\ calls'[c].button = "post" /\ calls'[c].stage = "served" => ~Contains(section.shown, c)
    BY <1>12, <2>2 DEF Talk, AwaitedAt, vars
  <2>3. QED
    BY <1>12, <2>1, <2>2, StillTalk
<1>13. ASSUME NEW k \in Slugs, ExpireThread(k) PROVE Talk'
  <2>1. PICK e : e = [threads[k] EXCEPT !.stale = TRUE]
    OBVIOUS
  <2>2. ThreadOK(e, Served) /\ e.state = threads[k].state
    BY <1>1, <2>1, StaleThread DEF ThreadsAt
  <2>3. threads' = [threads EXCEPT ![k] = e]
    BY <1>13, <2>1 DEF ExpireThread
  <2>4. ThreadsAt(threads', Served) /\ Loaded(threads, threads')
    BY <1>1, <2>2, <2>3 DEF ThreadsAt, Loaded
  <2>5. QED
    BY <1>1, <1>12, <1>13, <2>4 DEF ExpireThread
<1>14. ASSUME NEW k \in Slugs, ServeThread(k) PROVE Talk'
  <2>1. PICK e : e = threads[k] /\ ThreadOK(e, Served)
    BY <1>1 DEF ThreadsAt
  <2>2. PICK found : found = IF k = world.slug THEN thread ELSE None
    OBVIOUS
  <2>3. found \in {None} \union Seq(Comments) /\ (found # None => Listed(found, Served))
    BY <1>1, <2>2 DEF Listed
  <2>4. PICK f : f = [e EXCEPT !.reading = "answered", !.found = found]
    OBVIOUS
  <2>5. f \in ThreadEntries /\ f.state = e.state /\ f.data = e.data /\ f.found = found
    BY <2>1, <2>3, <2>4 DEF ThreadOK, ThreadEntries
  <2>6. ThreadOK(f, Served)
    BY <2>1, <2>3, <2>5 DEF ThreadOK
  <2>7. threads' = [threads EXCEPT ![k] = f]
    BY <1>1, <1>14, <2>1, <2>2, <2>4 DEF ServeThread, ThreadsAt
  <2>8. ThreadsAt(threads', Served) /\ Loaded(threads, threads')
    BY <1>1, <2>1, <2>5, <2>6, <2>7 DEF ThreadsAt, Loaded
  <2>9. QED
    BY <1>1, <1>12, <1>14, <2>8 DEF ServeThread
<1>15. ASSUME NEW k \in Slugs, ReceiveThread(k) PROVE Talk'
  <2>1. UNCHANGED <<vars, thread>> /\ Render(section.shown)
    BY <1>15 DEF ReceiveThread
  <2>2. QED
    BY <1>1, <1>15, <2>1, ReceiveThreadFacts, ReadTalk
<1>16. ASSUME NEW k \in Slugs, FailThread(k) PROVE Talk'
  BY <1>16, FailThreadTalk
<1>17. ASSUME NEW c \in Calls, Post(c) \/ Withdraw(c) PROVE Talk'
  BY <1>17, PressTalk, CommentButtonsApart DEF Post, Withdraw
<1>18. ASSUME NEW c \in Calls, ServePost(c) PROVE Talk'
  <2>1. calls[c].stage = "sent" /\ thread' = Append(thread, c)
    BY <1>18 DEF ServePost
  <2>2. Listed(thread', Served \union {c})
    <3>1. PICK later : later = Served \union {c}
      OBVIOUS
    <3>2. Served \subseteq later /\ c \in later /\ c \notin Served
      BY <2>1, <3>1 DEF Served
    <3>3. Listed(Append(thread, c), later)
      BY <1>1, <3>2, AppendListed
    <3>4. QED
      BY <2>1, <3>1, <3>3
  <2>3. QED
    BY <1>18, <2>2, ServedTalk, CommentButtonsApart DEF ServePost
<1>19. ASSUME NEW c \in Calls, ServeRemove(c) PROVE Talk'
  <2>1. Listed(thread', Served)
    BY <1>1, <1>19, WithoutListed DEF ServeRemove
  <2>2. Listed(thread', Served \union {c})
    BY <2>1, ListedLater
  <2>3. QED
    BY <1>19, <2>2, ServedTalk, CommentButtonsApart DEF ServeRemove
<1>20. ASSUME NEW c \in Calls, AnswerPost(c) PROVE Talk'
  <2>1. Answer(c, "post", <<c>> \o section.shown) /\ calls[c].stage = "served" /\ calls[c].button = "post"
        /\ "post" \in CommentButtons
    BY <1>20, CommentButtonsApart DEF AnswerPost, Answer, Answered
  <2>2. PICK copy : copy = <<c>> \o section.shown
    OBVIOUS
  <2>3. ASSUME calls[c].live
        PROVE  /\ Listed(copy, Served)
               /\ \A x : Contains(copy, x) /\ x # c => Contains(section.shown, x)
    <3>1. ~Contains(section.shown, c) /\ Listed(section.shown, Served) /\ c \in Served
      BY <2>1, <2>3 DEF Talk, AwaitedAt, SectionAt, Served
    <3>2. Listed(copy, Served)
      BY <2>2, <3>1, ConsListed
    <3>3. \A x : Contains(copy, x) <=> x = c \/ Contains(section.shown, x)
      <4>1. PICK s \in Seq(Comments) : s = section.shown
        BY <3>1 DEF Listed
      <4>2. c \in Comments /\ copy = <<c>> \o s
        BY <2>2, <4>1 DEF Comments
      <4>3. \A x : Contains(copy, x) <=> x = c \/ Contains(s, x)
        BY <4>2, ConsFacts
      <4>4. QED
        BY <4>1, <4>3
    <3>4. QED
      BY <3>2, <3>3
  <2>4. QED
    BY <2>1, <2>2, <2>3, AnswerTalk
<1>21. ASSUME NEW c \in Calls, AnswerRemove(c) PROVE Talk'
  <2>1. PICK copy : copy = Without(section.shown, calls[c].wish)
    OBVIOUS
  <2>2. Answer(c, "remove", copy) /\ "remove" \in CommentButtons
    BY <1>21, <2>1, CommentButtonsApart DEF AnswerRemove
  <2>3. Listed(section.shown, Served)
    BY DEF Talk, SectionAt
  <2>4. Listed(copy, Served) /\ \A x : Contains(copy, x) => Contains(section.shown, x)
    BY <2>1, <2>3, WithoutListed, WithoutFacts DEF Listed
  <2>5. QED
    BY <2>2, <2>4, AnswerTalk
<1>22. CASE WithdrawElsewhere
  <2>1. Listed(thread', Served)
    BY <1>1, <1>22, WithoutListed DEF WithdrawElsewhere
  <2>2. QED
    BY <1>1, <1>12, <1>22, <2>1 DEF WithdrawElsewhere
<1>23. CASE UNCHANGED conversationVars
  BY <1>1, <1>12, <1>23 DEF conversationVars
<1>24. QED
  BY <1>4, <1>5, <1>6, <1>7, <1>8, <1>9, <1>10, <1>11, <1>13, <1>14, <1>15, <1>16, <1>17, <1>18, <1>19,
     <1>20, <1>21, <1>22, <1>23 DEF ConversationNext

LEMMA TalkInit ==
    ASSUME ConversationInit
    PROVE  Talk
<1>1. calls = [c \in Calls |-> IdleCall] /\ threads = [k \in Slugs |-> Missing] /\ section = NoSection
  BY DEF ConversationInit, Init
<1>2. Listed(thread, Served)
  <2>1. CASE thread = <<>>
    BY <2>1, EmptyListed
  <2>2. CASE thread \in Threads
    <3>1. thread \in Seq(Earlier) /\ IsInjective(thread)
      BY <2>2, CommentAssumption
    <3>2. Len(thread) \in Nat /\ DOMAIN thread = 1..Len(thread)
          /\ \A i \in 1..Len(thread) : thread[i] \in Earlier
      BY <3>1, LenProperties, ElementOfSeq
    <3>3. thread \in Seq(Comments)
      BY <3>1 DEF Comments
    <3>4. \A c \in Calls : ~Contains(thread, c)
      BY <3>2, CommentAssumption DEF Contains
    <3>5. QED
      BY <3>1, <3>3, <3>4 DEF Listed
  <2>3. QED
    BY <2>1, <2>2 DEF ConversationInit
<1>3. ThreadOK(Missing, Served)
  BY DEF Missing, ThreadOK, ThreadEntries
<1>4. ThreadsAt(threads, Served)
  BY <1>1, <1>3 DEF ThreadsAt
<1>5. section.slug = None /\ section.shown = <<>> /\ section \in [slug: Slugs \union {None}, shown: Seq(Comments)]
  BY <1>1 DEF NoSection
<1>6. SectionAt
  BY <1>5, EmptyListed DEF SectionAt
<1>7. AwaitedAt
  BY <1>1 DEF AwaitedAt, IdleCall
<1>8. QED
  BY <1>2, <1>4, <1>6, <1>7 DEF Talk

\* The invariant of the comments: their lists have each comment once, a section
\* stands where both entries are shown, and its calls with it.
THEOREM ConversationInvariance == ConversationSpec => []Talk
<1>1. ConversationInit => Talk
  BY TalkInit
<1>2. ContentInv /\ Talk /\ [ConversationNext]_conversationVars => Talk'
  BY TalkStep DEF ContentInv
<1>3. QED
  BY <1>1, <1>2, ContentInvariance, PTL DEF ConversationSpec

\* Values have their types, and no list has a comment twice, which React would
\* refuse as two children of one key (CommentSection.tsx).
THEOREM ConversationTypeCorrectness == ConversationSpec => []ConversationTypeOK
<1>1. ContentInv /\ Talk => ConversationTypeOK
  <2>1. SUFFICES ASSUME ContentInv, Talk PROVE ConversationTypeOK
    OBVIOUS
  <2>2. TypeOK
    BY <2>1, BaseTypes DEF ContentInv
  <2>3. /\ thread \in Seq(Comments) /\ IsInjective(thread)
        /\ section.slug \in Slugs \union {None}
        /\ section.shown \in Seq(Comments) /\ IsInjective(section.shown)
    BY <2>1 DEF Talk, SectionAt, Listed
  <2>4. \A k \in Slugs : threads[k].state = "loaded" => threads[k].data \in Seq(Comments)
    BY <2>1 DEF Talk, ThreadsAt, ThreadOK, Listed
  <2>5. QED
    BY <2>2, <2>3, <2>4 DEF ConversationTypeOK
<1>2. QED
  BY <1>1, ContentInvariance, ConversationInvariance, PTL

-----------------------------------------------------------------------------
(* What a section shows was confirmed *)

Confirmed ==
    section.slug # None /\ section'.slug = section.slug =>
      /\ \A c \in ToSet(section'.shown) \ ToSet(section.shown) :
           c \in Calls /\ Answered(c, {"post"}) /\ calls'[c].stage = "over"
      /\ \A c \in ToSet(section.shown) \ ToSet(section'.shown) :
           \E d \in Calls : /\ Answered(d, {"remove"}) /\ calls'[d].stage = "over"
                            /\ calls[d].wish = c
      /\ \A d \in Calls : Answered(d, {"post"}) /\ calls[d].live /\ calls'[d].stage = "over" =>
           Contains(section'.shown, d)

\* A section that stays has what it is given.
LEMMA RenderKeeps ==
    ASSUME SectionAt, NEW copy, Render(copy), section.slug # None, section'.slug = section.slug
    PROVE  section'.shown = copy
<1>1. HasSection
  BY DEF Render, NoSection
<1>2. CASE section.slug = page'.slug
  <2>1. section' = [section EXCEPT !.shown = copy]
    BY <1>1, <1>2 DEF Render
  <2>2. QED
    BY <2>1 DEF SectionAt
<1>3. CASE section.slug # page'.slug
  BY <1>1, <1>3 DEF Render
<1>4. QED
  BY <1>2, <1>3

\* Steps that end no post leave the section what it had.
LEMMA QuietConfirmed ==
    ASSUME SectionAt, Render(section.shown) \/ UNCHANGED section,
           \A c \in Calls : calls[c].stage = "served" /\ calls[c].button = "post" => calls'[c].stage # "over"
    PROVE  Confirmed
<1>1. SUFFICES ASSUME section.slug # None, section'.slug = section.slug
               PROVE  section'.shown = section.shown
  BY DEF Confirmed, Answered
<1>2. QED
  BY <1>1, RenderKeeps

LEMMA SparedConfirmed ==
    ASSUME SectionAt, Render(section.shown) \/ UNCHANGED section, Spared
    PROVE  Confirmed
BY QuietConfirmed, CommentButtonsApart DEF Spared

LEMMA AnswerPostConfirmed ==
    ASSUME Base, Talk, NEW c \in Calls, AnswerPost(c)
    PROVE  Confirmed
<1>1. /\ Answer(c, "post", <<c>> \o section.shown)
      /\ \A d \in Calls \ {c} : calls'[d] = calls[d]
      /\ Answered(c, {"post"}) /\ calls'[c].stage = "over"
  BY AnswerChat, CommentButtonsApart DEF AnswerPost, Answered
<1>2. SUFFICES ASSUME section.slug # None, section'.slug = section.slug
               PROVE  /\ \A x \in ToSet(section'.shown) \ ToSet(section.shown) : x = c
                      /\ \A x \in ToSet(section.shown) : x \in ToSet(section'.shown)
                      /\ calls[c].live => Contains(section'.shown, c)
  BY <1>1 DEF Confirmed, Answered
<1>3. CASE ~calls[c].live
  <2>1. section'.shown = section.shown
    BY <1>1, <1>2, <1>3, RenderKeeps DEF Answer, Talk
  <2>2. QED
    BY <1>3, <2>1
<1>4. CASE calls[c].live
  <2>1. PICK s \in Seq(Comments) : s = section.shown
    BY DEF Talk, SectionAt
  <2>2. PICK t : t = <<c>> \o s
    OBVIOUS
  <2>3. section'.shown = t
    BY <1>1, <1>2, <1>4, <2>1, <2>2, RenderKeeps DEF Answer, Talk
  <2>4. c \in Comments
    BY DEF Comments
  <2>5. t \in Seq(Comments) /\ \A x : Contains(t, x) <=> x = c \/ Contains(s, x)
    BY <2>2, <2>4, ConsFacts
  <2>6. ASSUME NEW x PROVE (x \in ToSet(s) <=> Contains(s, x)) /\ (x \in ToSet(t) <=> Contains(t, x))
    BY <2>5, ToSetContains
  <2>7. QED
    BY <2>1, <2>3, <2>5, <2>6
<1>5. QED
  BY <1>3, <1>4

LEMMA AnswerRemoveConfirmed ==
    ASSUME Base, Talk, NEW c \in Calls, AnswerRemove(c)
    PROVE  Confirmed
<1>1. /\ Answer(c, "remove", Without(section.shown, calls[c].wish))
      /\ \A d \in Calls \ {c} : calls'[d] = calls[d]
      /\ Answered(c, {"remove"}) /\ calls'[c].stage = "over"
  BY AnswerChat, CommentButtonsApart DEF AnswerRemove, Answered
<1>2. ASSUME NEW d \in Calls, Answered(d, {"post"}) PROVE calls'[d].stage # "over"
  <2>1. d # c
    BY <1>1, <1>2 DEF Answered
  <2>2. QED
    BY <1>1, <1>2, <2>1 DEF Answered
<1>3. SUFFICES ASSUME section.slug # None, section'.slug = section.slug
               PROVE  /\ \A x \in ToSet(section'.shown) : x \in ToSet(section.shown)
                      /\ \A x \in ToSet(section.shown) \ ToSet(section'.shown) : x = calls[c].wish
  BY <1>1, <1>2 DEF Confirmed
<1>4. CASE ~calls[c].live
  <2>1. section'.shown = section.shown
    BY <1>1, <1>3, <1>4, RenderKeeps DEF Answer, Talk
  <2>2. QED
    BY <2>1
<1>5. CASE calls[c].live
  <2>1. PICK s \in Seq(Comments) : s = section.shown /\ IsInjective(s)
    BY DEF Talk, SectionAt, Listed
  <2>2. PICK t, e : e = calls[c].wish /\ t = Without(s, e)
    OBVIOUS
  <2>3. section'.shown = t
    BY <1>1, <1>3, <1>5, <2>1, <2>2, RenderKeeps DEF Answer, Talk
  <2>4. /\ t \in Seq(Comments) /\ \A x : Contains(t, x) => Contains(s, x)
        /\ \A x : Contains(s, x) /\ x # e => Contains(t, x)
    BY <2>1, <2>2, WithoutFacts
  <2>5. ASSUME NEW x PROVE (x \in ToSet(s) <=> Contains(s, x)) /\ (x \in ToSet(t) <=> Contains(t, x))
    BY <2>4, ToSetContains
  <2>6. QED
    BY <2>1, <2>2, <2>3, <2>4, <2>5
<1>6. QED
  BY <1>4, <1>5

LEMMA ConfirmedStep ==
    ASSUME Base, Talk, ConversationNext
    PROVE  Confirmed
<1>1. SectionAt
  BY DEF Talk
<1>2. ASSUME Next \/ UNCHANGED calls, Render(section.shown) \/ UNCHANGED section PROVE Confirmed
  BY <1>1, <1>2, SparedStep, CallsSpared, SparedConfirmed
<1>3. ASSUME NEW p \in Pages, Turn(Open(p), threads) PROVE Confirmed
  BY <1>2, <1>3 DEF Turn, Next
<1>4. CASE Reconnected
  BY <1>2, <1>4 DEF Reconnected, Next, vars
<1>5. ASSUME NEW k \in Keys, \/ Beside(Expire(k)) \/ Beside(ServeRead(k))
                             \/ Beside(ReceiveRead(k)) \/ Beside(FailRead(k))
      PROVE  Confirmed
  BY <1>2, <1>5 DEF Beside, Next
<1>6. ASSUME NEW c \in Calls, NEW b \in Buttons, Beside(Click(c, b)) PROVE Confirmed
  BY <1>2, <1>6 DEF Beside, Next
<1>7. ASSUME NEW c \in Calls, \/ Beside(Serve(c)) \/ Beside(Lose(c)) \/ Beside(AnswerFavorite(c))
                              \/ Beside(AnswerPreview(c)) \/ Beside(AnswerFollow(c))
      PROVE  Confirmed
  BY <1>2, <1>7 DEF Beside, Next
<1>8. ASSUME NEW c \in Calls, \/ Turn(AnswerPublish(c), threads) \/ Turn(AnswerSave(c), InvalidateThreads)
                              \/ Turn(AnswerDelete(c), threads)
      PROVE  Confirmed
  BY <1>2, <1>8 DEF Turn, Next
<1>9. ASSUME NEW f \in {"favorited", "following"}, Beside(Elsewhere(f)) PROVE Confirmed
  BY <1>2, <1>9 DEF Beside, Next
<1>10. ASSUME NEW k \in Slugs, ExpireThread(k) \/ ServeThread(k) \/ ReceiveThread(k) PROVE Confirmed
  BY <1>2, <1>10 DEF ExpireThread, ServeThread, ReceiveThread, vars
<1>11. ASSUME NEW k \in Slugs, FailThread(k) PROVE Confirmed
  <2>1. Render(section.shown) /\ \A c \in Calls : calls'[c].stage = calls[c].stage
    BY <1>11, FailThreadChat DEF FailThread
  <2>2. QED
    BY <1>1, <2>1, QuietConfirmed
<1>12. ASSUME NEW c \in Calls, Post(c) \/ Withdraw(c) PROVE Confirmed
  <2>1. PICK b \in CommentButtons : \E comment : Press(c, b, comment)
    BY <1>12, CommentButtonsApart DEF Post, Withdraw
  <2>2. (\A d \in Calls \ {c} : calls'[d] = calls[d]) /\ calls'[c].stage = "sent" /\ UNCHANGED section
    BY <2>1, PressChat DEF Press
  <2>3. QED
    BY <1>1, <2>2, QuietConfirmed
<1>13. ASSUME NEW c \in Calls, ServePost(c) \/ ServeRemove(c) PROVE Confirmed
  <2>1. (\A d \in Calls \ {c} : calls'[d] = calls[d]) /\ calls'[c].stage = "served" /\ UNCHANGED section
    BY <1>13, ServedChat, CommentButtonsApart DEF ServePost, ServeRemove
  <2>2. QED
    BY <1>1, <2>1, QuietConfirmed
<1>14. ASSUME NEW c \in Calls, AnswerPost(c) \/ AnswerRemove(c) PROVE Confirmed
  BY <1>14, AnswerPostConfirmed, AnswerRemoveConfirmed
<1>15. CASE WithdrawElsewhere
  BY <1>2, <1>15 DEF WithdrawElsewhere, vars
<1>16. QED
  BY <1>3, <1>4, <1>5, <1>6, <1>7, <1>8, <1>9, <1>10, <1>11, <1>12, <1>13, <1>14, <1>15
     DEF ConversationNext

\* REQ-WEB-013 AC-3, AC-6, AC-7: while a section stays on the page, a comment
\* enters it when the API has confirmed its publication and leaves it when the
\* API has confirmed its removal, and for no other reason.
THEOREM ShowsWhatWasConfirmedHolds == ConversationSpec => ShowsWhatWasConfirmed
<1>1. ContentInv /\ Talk /\ [ConversationNext]_conversationVars => [Confirmed]_conversationVars
  BY ConfirmedStep DEF ContentInv
<1>2. QED
  BY <1>1, ContentInvariance, ConversationInvariance, PTL
     DEF ConversationSpec, ShowsWhatWasConfirmed, Confirmed

=============================================================================
