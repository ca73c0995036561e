------------------------ MODULE SpeculativeDecodeProofs ------------------------
(***************************************************************************)
(* The safety properties of SpeculativeDecode for every prompt length,     *)
(* token budget and draft count.                                           *)
(***************************************************************************)
EXTENDS SpeculativeDecode, SequenceTheorems, TLAPS

ConstantsAssumption ==
  PromptLen \in Nat \ {0} /\ MaxNewTokens \in Nat \ {0} /\ SpeculativeDrafts \in Nat

\* The named assumptions on the constants, in the form the proofs cite.
LEMMA ConstantsOK == ConstantsAssumption
  BY PromptLenAssumption, MaxNewTokensAssumption, SpeculativeDraftsAssumption
     DEF ConstantsAssumption

\* The inductive invariant: types, the lag between cache and completion, and
\* the properties themselves.
IndInv == TypeOK /\ FrontierLag /\ LosslessCompletion /\ AppendWithinAdmission

\* Extending a greedy cache by the next rows of the greedy stream keeps it greedy,
\* and the target's next token is the one after them.
LEMMA ExtendCanonical ==
  ASSUME NEW s \in Seq(Tokens), Canonical(s), NEW t \in Seq(Tokens),
         \A i \in 1..Len(t) : t[i] = Len(s) + i - 1
  PROVE  /\ s \o t \in Seq(Tokens)
         /\ Len(s \o t) = Len(s) + Len(t)
         /\ Canonical(s \o t)
         /\ Target(s \o t) = Len(s) + Len(t)
<1>1. /\ s \o t \in Seq(Tokens)
      /\ Len(s \o t) = Len(s) + Len(t)
      /\ \A i \in 1..(Len(s) + Len(t)) :
           (s \o t)[i] = IF i <= Len(s) THEN s[i] ELSE t[i - Len(s)]
  BY ConcatProperties
<1>2. Canonical(s \o t)
  <2>1. Len(s) \in Nat /\ Len(t) \in Nat
    BY LenProperties
  <2> SUFFICES ASSUME NEW i \in 1..(Len(s) + Len(t))
               PROVE  (s \o t)[i] = i - 1
    BY <1>1 DEF Canonical
  <2>2. CASE i <= Len(s)
    BY <1>1, <2>1, <2>2 DEF Canonical
  <2>3. CASE i > Len(s)
    <3>1. i - Len(s) \in 1..Len(t)
      BY <2>1, <2>3
    <3>2. t[i - Len(s)] = Len(s) + (i - Len(s)) - 1
      BY <3>1
    <3>3. (s \o t)[i] = t[i - Len(s)]
      BY <1>1, <2>1, <2>3
    <3> QED BY <2>1, <3>2, <3>3
  <2> QED BY <2>1, <2>2, <2>3
<1> QED BY <1>1, <1>2 DEF Target

\* Applying samples that continue the completion keeps it the greedy stream, and
\* leaves the request either finished or still short of its budget and its stop.
LEMMA ApplyContinues ==
  ASSUME TypeOK, LosslessCompletion, NEW samples \in Seq(Tokens),
         \A k \in 1..Len(samples) : samples[k] = PromptLen + Len(generated) + k - 1,
         Len(generated) + Len(samples) <= MaxNewTokens,
         Len(samples) > 0,
         ApplySamples(samples)
  PROVE  /\ generated' \in Seq(Tokens)
         /\ LosslessCompletion'
         /\ last_token' \in Tokens
         /\ prompt_position' = IF RemainingPromptTokens = 1 THEN PromptLen ELSE prompt_position
         /\ lifecycle' \in {"Decoding", "Finished"}
         /\ lifecycle' = "Decoding" =>
              /\ Len(generated') = Len(generated) + Len(samples)
              /\ Len(generated') \in 1..(MaxNewTokens - 1)
              /\ last_token' = PromptLen + Len(generated') - 1
              /\ last_token' # stop.at
              /\ \A k \in 1..Len(samples) : samples[k] # stop.at
<1> USE ConstantsOK DEF ConstantsAssumption
<1>1. PICK n \in 0..Len(samples) :
        /\ \A k \in 1..(n - 1) : ~Finishes(samples, k)
        /\ n = Len(samples) \/ (n > 0 /\ Finishes(samples, n))
        /\ generated' = generated \o SubSeq(samples, 1, n)
        /\ last_token' = IF n > 0 THEN samples[n] ELSE last_token
        /\ prompt_position' =
             IF n > 0 /\ RemainingPromptTokens = 1 THEN PromptLen ELSE prompt_position
        /\ lifecycle' = IF n = 0 THEN lifecycle
                        ELSE IF Finishes(samples, n) THEN "Finished" ELSE "Decoding"
  BY DEF ApplySamples
<1>2. n \in Nat /\ n > 0 /\ n <= Len(samples) /\ Len(samples) \in Nat
  BY <1>1, LenProperties
<1>3. generated \in Seq(Tokens) /\ Len(generated) \in Nat
  BY LenProperties DEF TypeOK
<1>4. \A i \in 1..n : samples[i] \in Tokens
  BY <1>2, ElementOfSeq
<1>5. /\ SubSeq(samples, 1, n) \in Seq(Tokens)
      /\ Len(SubSeq(samples, 1, n)) = n
      /\ \A i \in 1..n : SubSeq(samples, 1, n)[i] = samples[i]
  <2>1. /\ SubSeq(samples, 1, n) \in Seq(Tokens)
        /\ Len(SubSeq(samples, 1, n)) = IF 1 <= n THEN n - 1 + 1 ELSE 0
        /\ \A i \in 1..(n - 1 + 1) : SubSeq(samples, 1, n)[i] = samples[1 + i - 1]
    BY <1>2, <1>4, SubSeqProperties
  <2>2. \A i \in 1..n : 1 + i - 1 = i
    BY <1>2
  <2> QED BY <1>2, <2>1, <2>2
<1>6. /\ generated' \in Seq(Tokens)
      /\ Len(generated') = Len(generated) + n
      /\ \A i \in 1..(Len(generated) + n) : generated'[i] =
           IF i <= Len(generated) THEN generated[i]
           ELSE SubSeq(samples, 1, n)[i - Len(generated)]
  <2> DEFINE t == SubSeq(samples, 1, n)
  <2>1. t \in Seq(Tokens) /\ Len(t) = n
    BY <1>5
  <2> HIDE DEF t
  <2>2. /\ generated \o t \in Seq(Tokens)
        /\ Len(generated \o t) = Len(generated) + Len(t)
        /\ \A i \in 1..(Len(generated) + Len(t)) : (generated \o t)[i] =
             IF i <= Len(generated) THEN generated[i] ELSE t[i - Len(generated)]
    BY <1>3, <2>1, ConcatProperties
  <2>3. generated' = generated \o t
    BY <1>1 DEF t
  <2> QED BY <2>1, <2>2, <2>3 DEF t
<1>7. LosslessCompletion'
  <2> SUFFICES ASSUME NEW i \in 1..(Len(generated) + n)
               PROVE  generated'[i] = PromptLen + i - 1
    BY <1>6 DEF LosslessCompletion
  <2>1. CASE i <= Len(generated)
    <3>1. i \in 1..Len(generated) /\ generated'[i] = generated[i]
      BY <1>3, <1>6, <2>1
    <3> QED BY <3>1 DEF LosslessCompletion
  <2>2. CASE i > Len(generated)
    <3>1. i - Len(generated) \in 1..n
      BY <1>2, <1>3, <2>2
    <3>2. generated'[i] = samples[i - Len(generated)]
      BY <1>3, <1>5, <1>6, <2>2, <3>1
    <3>3. samples[i - Len(generated)] = PromptLen + Len(generated) + (i - Len(generated)) - 1
      BY <1>2, <3>1
    <3> QED BY <1>3, <3>2, <3>3
  <2> QED BY <1>3, <2>1, <2>2
<1>8. last_token' = samples[n] /\ last_token' = PromptLen + Len(generated) + n - 1
  BY <1>1, <1>2
<1>9. lifecycle' = IF Finishes(samples, n) THEN "Finished" ELSE "Decoding"
  BY <1>1, <1>2
<1>10. ASSUME lifecycle' = "Decoding"
       PROVE  /\ n = Len(samples)
              /\ Len(generated) + n # MaxNewTokens
              /\ \A k \in 1..n : samples[k] # stop.at
  <2>1. ~Finishes(samples, n)
    BY <1>9, <1>10
  <2>2. n = Len(samples)
    BY <1>1, <2>1
  <2>3. \A k \in 1..n : ~Finishes(samples, k)
    BY <1>1, <1>2, <2>1
  <2> QED BY <1>2, <2>2, <2>3 DEF Finishes
<1>11. last_token' \in Tokens
  BY <1>2, <1>4, <1>8
<1>12. prompt_position' = IF RemainingPromptTokens = 1 THEN PromptLen ELSE prompt_position
  BY <1>1, <1>2
<1>13. lifecycle' \in {"Decoding", "Finished"}
  BY <1>9
<1>14. ASSUME lifecycle' = "Decoding"
       PROVE  /\ Len(generated') = Len(generated) + Len(samples)
              /\ Len(generated') \in 1..(MaxNewTokens - 1)
              /\ last_token' = PromptLen + Len(generated') - 1
              /\ last_token' # stop.at
              /\ \A k \in 1..Len(samples) : samples[k] # stop.at
  <2>1. n = Len(samples) /\ Len(generated) + n # MaxNewTokens
    BY <1>10, <1>14
  <2>2. \A k \in 1..n : samples[k] # stop.at
    BY <1>10, <1>14
  <2> QED BY <1>2, <1>3, <1>6, <1>8, <2>1, <2>2
<1> QED BY <1>6, <1>7, <1>11, <1>12, <1>13, <1>14

\* The initial request, with or without a cached prefix, satisfies the invariant.
LEMMA InitInv == Init => IndInv
<1> USE ConstantsOK DEF ConstantsAssumption
<1> SUFFICES ASSUME Init PROVE IndInv
  OBVIOUS
<1>1. kv \in Seq(Tokens) /\ Len(kv) = prompt_position
  <2>1. \A i \in 1..prompt_position : i - 1 \in Tokens
    BY DEF Init, Tokens
  <2> QED BY <2>1 DEF Init
<1>2. \A i \in 1..Len(kv) : kv[i] = i - 1
  BY <1>1 DEF Init
<1>3. TypeOK
  <2>1. spec_ready \in BOOLEAN /\ spec_started \in BOOLEAN
    BY Zenon DEF Init
  <2>2. /\ reserved \in Nat /\ prompt_position \in 0..PromptLen
        /\ frontier \in Tokens \cup {NoToken}
        /\ drafter \in {"none", "mtp", "dflash2"}
    BY DEF Init, Tokens, NoToken, WrongToken
  <2>3. generated \in Seq(Tokens)
    BY DEF Init
  <2> QED BY <1>1, <2>1, <2>2, <2>3 DEF Init, TypeOK
<1>4. FrontierLag
  BY <1>1, <1>2 DEF Init, FrontierLag, Canonical, NoToken, WrongToken
<1>5. LosslessCompletion /\ AppendWithinAdmission
  BY DEF Init, LosslessCompletion, AppendWithinAdmission, MaxTokens
<1> QED BY <1>3, <1>4, <1>5 DEF IndInv

\* A prefill chunk extends the greedy cache by prompt tokens and stays short of
\* the last one.
LEMMA PrefillInv == IndInv /\ Prefill => IndInv'
<1> USE ConstantsOK DEF ConstantsAssumption
<1> SUFFICES ASSUME IndInv, Prefill PROVE IndInv'
  OBVIOUS
<1>1. PICK chunk \in 1..(RemainingPromptTokens - 1) :
        /\ kv' = kv \o [i \in 1..chunk |-> prompt_position + i - 1]
        /\ reserved' = Len(kv) + chunk
        /\ prompt_position' = prompt_position + chunk
  BY DEF Prefill
<1> DEFINE rows == [i \in 1..chunk |-> prompt_position + i - 1]
<1>2. /\ prompt_position \in Nat /\ prompt_position < PromptLen
      /\ Len(kv) = prompt_position
      /\ chunk \in Nat /\ chunk >= 1 /\ prompt_position + chunk < PromptLen
  BY <1>1 DEF IndInv, TypeOK, FrontierLag, Prefill, RemainingPromptTokens
<1>3. rows \in Seq(Tokens) /\ Len(rows) = chunk
  <2>1. \A i \in 1..chunk : prompt_position + i - 1 \in Tokens
    BY <1>2 DEF Tokens
  <2> QED BY <1>2, <2>1
<1>4. \A i \in 1..Len(rows) : rows[i] = Len(kv) + i - 1
  BY <1>2, <1>3
<1>5. kv \in Seq(Tokens) /\ Canonical(kv)
  BY DEF IndInv, TypeOK, FrontierLag
<1> HIDE DEF rows
<1>6. /\ kv' \in Seq(Tokens) /\ Canonical(kv') /\ Len(kv') = prompt_position + chunk
  <2>1. kv' = kv \o rows
    BY <1>1 DEF rows
  <2> QED BY <1>2, <1>3, <1>4, <1>5, <2>1, ExtendCanonical
<1>7. reserved' \in Nat /\ reserved' <= MaxTokens
  BY <1>1, <1>2 DEF MaxTokens
<1>8. TypeOK'
  <2>1. spec_ready' \in BOOLEAN /\ spec_started' \in BOOLEAN
    BY Zenon DEF Prefill, IndInv, TypeOK
  <2>2. prompt_position' \in 0..PromptLen
    BY <1>1, <1>2
  <2>3. frontier' \in Tokens \cup {NoToken} /\ drafter' \in {"none", "mtp", "dflash2"}
    BY DEF Prefill, IndInv, TypeOK
  <2> QED BY <1>6, <1>7, <2>1, <2>2, <2>3 DEF Prefill, IndInv, TypeOK
<1>9. FrontierLag'
  <2>1. Canonical(kv)'
    BY <1>6 DEF Canonical
  <2>2. ~spec_ready /\ ~spec_started /\ generated = <<>> /\ lifecycle = "Prefilling"
    BY Zenon DEF Prefill, IndInv, FrontierLag
  <2>3. ~spec_ready' /\ ~spec_started' /\ generated' = <<>> /\ lifecycle' = "Prefilling"
    <3>1. spec_ready' = spec_ready \/ spec_ready' = FALSE
      BY DEF Prefill
    <3>2. spec_started' = spec_started /\ generated' = generated /\ lifecycle' = lifecycle
      BY DEF Prefill
    <3> QED BY <2>2, <3>1, <3>2
  <2>4. frontier' # NoToken => drafter' # "none"
    BY Zenon, <2>2 DEF Prefill, IndInv, FrontierLag
  <2>5. Len(kv') = prompt_position' /\ prompt_position' < PromptLen
    BY <1>1, <1>2, <1>6
  <2> QED BY Zenon, <2>1, <2>3, <2>4, <2>5 DEF FrontierLag
<1>10. LosslessCompletion' /\ AppendWithinAdmission'
  BY <1>7 DEF Prefill, IndInv, LosslessCompletion, AppendWithinAdmission, MaxTokens
<1> QED BY <1>8, <1>9, <1>10 DEF IndInv

\* The facts about a decodable request every decode step starts from.
LEMMA DecodableRequest ==
  ASSUME IndInv, Live, RemainingPromptTokens <= 1
  PROVE  /\ kv \in Seq(Tokens) /\ Canonical(kv) /\ Len(kv) \in Nat
         /\ generated \in Seq(Tokens) /\ Len(generated) \in Nat
         /\ Len(generated) < MaxNewTokens
         /\ lifecycle = "Prefilling" =>
              Len(kv) = PromptLen - 1 /\ Len(generated) = 0 /\ RemainingPromptTokens = 1
              /\ ~spec_ready /\ ~spec_started
         /\ lifecycle = "Decoding" =>
              RemainingPromptTokens = 0 /\ prompt_position = PromptLen
<1> USE ConstantsOK DEF ConstantsAssumption
<1> QED BY LenProperties
        DEF IndInv, TypeOK, FrontierLag, Live, RemainingPromptTokens

\* An ordinary decode commits the row the frontier or the last token names.
LEMMA DecodeInv == IndInv /\ Decode => IndInv'
<1> USE ConstantsOK DEF ConstantsAssumption
<1> SUFFICES ASSUME IndInv, Decode PROVE IndInv'
  OBVIOUS
<1> DEFINE input == DecodeInputToken
           rows == Append(kv, input)
           sample == Target(rows)
           tracked == frontier # NoToken /\ (drafter # "none" \/ spec_ready)
           emission == OrdinaryDecodeEmission(tracked, sample)
<1>1. /\ Live /\ RemainingPromptTokens <= 1 /\ input # NoToken
      /\ kv' = rows /\ reserved' = Len(rows)
      /\ ApplySamples(<<emission>>)
      /\ IF tracked THEN frontier' = sample /\ spec_ready' = TRUE
                    ELSE UNCHANGED <<frontier, spec_ready>>
      /\ drafter' \in {drafter, "none"}
      /\ UNCHANGED <<spec_started, stop>>
  BY DEF Decode, DrafterMayFail
<1>2. /\ kv \in Seq(Tokens) /\ Canonical(kv) /\ Len(kv) \in Nat
      /\ generated \in Seq(Tokens) /\ Len(generated) \in Nat
      /\ Len(generated) < MaxNewTokens
      /\ lifecycle = "Prefilling" =>
           Len(kv) = PromptLen - 1 /\ Len(generated) = 0 /\ RemainingPromptTokens = 1
           /\ ~spec_ready /\ ~spec_started
      /\ lifecycle = "Decoding" =>
           RemainingPromptTokens = 0 /\ prompt_position = PromptLen
  BY <1>1, DecodableRequest
<1>3. input = Len(kv)
  <2>1. CASE lifecycle = "Prefilling"
    BY <1>1, <1>2, <2>1 DEF IndInv, FrontierLag, DecodeInputToken
  <2>2. CASE lifecycle = "Decoding"
    BY <1>1, <1>2, <2>2 DEF IndInv, FrontierLag, DecodeInputToken
  <2> QED BY <1>1, <2>1, <2>2 DEF Live
<1>4. /\ rows \in Seq(Tokens) /\ Len(rows) = Len(kv) + 1
      /\ Canonical(rows) /\ sample = Len(kv) + 1
  <2>1. input \in Tokens
    BY <1>2, <1>3 DEF Tokens
  <2>2. rows = kv \o <<input>>
    BY <1>2, <2>1, AppendIsConcat
  <2>3. <<input>> \in Seq(Tokens) /\ Len(<<input>>) = 1 /\ <<input>>[1] = input
    BY <2>1
  <2>4. \A i \in 1..Len(<<input>>) : <<input>>[i] = Len(kv) + i - 1
    BY <1>2, <1>3, <2>3
  <2> HIDE DEF input
  <2>5. /\ kv \o <<input>> \in Seq(Tokens) /\ Len(kv \o <<input>>) = Len(kv) + Len(<<input>>)
        /\ Canonical(kv \o <<input>>)
        /\ Target(kv \o <<input>>) = Len(kv) + Len(<<input>>)
    BY <1>2, <2>3, <2>4, ExtendCanonical
  <2> QED BY <2>2, <2>3, <2>5
<1> HIDE DEF rows, sample, input
\* What is emitted continues the completion in both modes.
<1>5. emission = PromptLen + Len(generated)
  <2>1. CASE lifecycle = "Prefilling"
    BY <1>2, <1>4, <2>1 DEF OrdinaryDecodeEmission
  <2>2. CASE lifecycle = "Decoding" /\ spec_started
    <3>1. spec_ready /\ Len(kv) = PromptLen + Len(generated)
          /\ (frontier # NoToken => frontier = Len(kv))
      BY <1>2, <2>2 DEF IndInv, FrontierLag
    <3>2. frontier # NoToken
      BY <1>1, <1>2, <2>2, <3>1 DEF input, DecodeInputToken
    <3> QED BY <2>2, <3>1, <3>2 DEF OrdinaryDecodeEmission
  <2>3. CASE lifecycle = "Decoding" /\ ~spec_started
    <3>1. Len(kv) = PromptLen + Len(generated) - 1
      BY <1>2, <2>3 DEF IndInv, FrontierLag
    <3> QED BY <1>2, <1>4, <2>3, <3>1 DEF OrdinaryDecodeEmission
  <2> QED BY <1>1, <2>1, <2>2, <2>3 DEF Live
<1> HIDE DEF emission
<1>6. /\ <<emission>> \in Seq(Tokens) /\ Len(<<emission>>) = 1
      /\ \A k \in 1..Len(<<emission>>) :
           <<emission>>[k] = PromptLen + Len(generated) + k - 1
  <2>1. emission \in Tokens
    BY <1>2, <1>5 DEF Tokens
  <2> QED BY <1>2, <1>5, <2>1
<1>7. /\ generated' \in Seq(Tokens)
      /\ LosslessCompletion'
      /\ last_token' \in Tokens
      /\ prompt_position' = IF RemainingPromptTokens = 1 THEN PromptLen ELSE prompt_position
      /\ lifecycle' \in {"Decoding", "Finished"}
      /\ lifecycle' = "Decoding" =>
           /\ Len(generated') = Len(generated) + Len(<<emission>>)
           /\ Len(generated') \in 1..(MaxNewTokens - 1)
           /\ last_token' = PromptLen + Len(generated') - 1
           /\ last_token' # stop.at
  <2>1. Len(generated) + Len(<<emission>>) <= MaxNewTokens /\ Len(<<emission>>) > 0
    BY <1>2, <1>6
  <2>2. TypeOK /\ LosslessCompletion
    BY DEF IndInv
  <2> QED BY <1>1, <1>6, <2>1, <2>2, ApplyContinues
<1>8. Len(kv) < MaxTokens
  BY <1>1, <1>2 DEF IndInv, FrontierLag, Live, MaxTokens
<1>9. prompt_position' = PromptLen
  BY <1>1, <1>2, <1>7 DEF Live
<1>10. frontier' \in Tokens \cup {NoToken}
  BY <1>1, <1>2, <1>4 DEF IndInv, TypeOK, Tokens
<1>11. TypeOK'
  <2>1. spec_ready' \in BOOLEAN /\ spec_started' \in BOOLEAN
    BY Zenon, <1>1 DEF IndInv, TypeOK
  <2>2. drafter' \in {"none", "mtp", "dflash2"}
    BY <1>1 DEF IndInv, TypeOK
  <2>3. reserved' \in Nat /\ prompt_position' \in 0..PromptLen
    BY <1>1, <1>2, <1>4, <1>9
  <2>4. stop' \in [at : PromptLen..MaxTokens, by : {"eos", "grammar"}]
    BY <1>1 DEF IndInv, TypeOK
  <2>5. lifecycle' \in {"Prefilling", "Decoding", "Finished", "Cancelled"}
    BY <1>7
  <2>6. kv' \in Seq(Tokens)
    BY <1>1, <1>4
  <2> QED BY <1>7, <1>10, <2>1, <2>2, <2>3, <2>4, <2>5, <2>6, Zenon DEF TypeOK
<1>12. FrontierLag'
  <2>1. Canonical(kv)'
    BY <1>1, <1>4 DEF Canonical
  <2>2. (spec_started => spec_ready)'
    BY <1>1 DEF IndInv, FrontierLag
  <2>3. (frontier # NoToken => drafter # "none" \/ spec_ready)'
    BY <1>1 DEF IndInv, FrontierLag
  <2>4. lifecycle' # "Prefilling"
    BY <1>7
  <2>5. ASSUME lifecycle' = "Decoding"
        PROVE  /\ Len(kv') = PromptLen + Len(generated') - (IF spec_started' THEN 0 ELSE 1)
               /\ frontier' # NoToken => spec_ready' /\ frontier' = Len(kv')
    <3>1. Len(kv') = Len(kv) + 1 /\ Len(generated') = Len(generated) + 1
      BY <1>1, <1>4, <1>6, <1>7, <2>5
    <3>2. Len(kv) = PromptLen + Len(generated) - (IF spec_started THEN 0 ELSE 1)
      BY <1>1, <1>2 DEF IndInv, FrontierLag, Live
    <3>3. frontier' # NoToken => spec_ready' /\ frontier' = Len(kv')
      BY <1>1, <1>4, <3>1 DEF IndInv, FrontierLag
    <3> QED BY <1>1, <1>2, <3>1, <3>2, <3>3
  <2> QED BY <1>1, <1>7, <1>9, <2>1, <2>2, <2>3, <2>4, <2>5 DEF FrontierLag
<1>13. AppendWithinAdmission'
  BY <1>1, <1>2, <1>4, <1>8 DEF AppendWithinAdmission, MaxTokens
<1> QED BY <1>7, <1>11, <1>12, <1>13 DEF IndInv

\* One verification cycle commits the frontier and the accepted drafts: the next
\* rows of the greedy stream, all within the admitted capacity.
LEMMA VerifyInv ==
  ASSUME IndInv, Live, RemainingPromptTokens <= 1, SpecEligible, VerifyCycle,
         spec_started' = TRUE, UNCHANGED <<spec_ready, stop>>
  PROVE  IndInv'
<1> USE ConstantsOK DEF ConstantsAssumption
<1>1. PICK accepted \in 0..SpeculativeDraftCount(spec_started) :
        LET committed == Committed(accepted)
        IN  /\ ~GrammarComplete(SubSeq(committed, 1, accepted))
            /\ kv' = kv \o committed
            /\ reserved' = Len(kv) + SpeculativeDraftCount(spec_started) + 1
            /\ frontier' = IF GrammarComplete(committed) THEN frontier
                           ELSE Target(kv \o committed)
            /\ ApplySamples(CycleSamples(committed))
  BY DEF VerifyCycle
<1> DEFINE committed == Committed(accepted)
           drafts == SpeculativeDraftCount(spec_started)
           samples == CycleSamples(committed)
           lag == IF spec_started THEN 0 ELSE 1
<1>2. /\ spec_ready /\ frontier # NoToken /\ lifecycle = "Decoding"
      /\ kv \in Seq(Tokens) /\ Canonical(kv) /\ Len(kv) \in Nat
      /\ generated \in Seq(Tokens) /\ Len(generated) \in Nat
      /\ Len(generated) < MaxNewTokens /\ Len(generated) >= 1
      /\ prompt_position = PromptLen
  <2>1. spec_ready /\ frontier # NoToken
    BY DEF SpecEligible
  <2>2. lifecycle = "Decoding"
    BY <2>1 DEF IndInv, FrontierLag, Live
  <2> QED BY <2>1, <2>2, DecodableRequest DEF IndInv, FrontierLag
<1>3. /\ Len(kv) = PromptLen + Len(generated) - lag
      /\ frontier = Len(kv) /\ last_token = PromptLen + Len(generated) - 1
      /\ last_token # stop.at
  BY <1>2 DEF IndInv, FrontierLag
<1>4. /\ lag \in 0..1 /\ drafts \in Nat /\ accepted \in Nat /\ accepted <= drafts
      /\ drafts >= 1 /\ Len(generated) + drafts + 1 <= MaxNewTokens + lag
  <2>1. drafts = Min2(SpeculativeDrafts, MaxNewTokens - Len(generated) - 1 + lag)
    BY <1>2 DEF SpeculativeDraftCount
  <2>2. drafts > 0
    BY DEF SpecEligible
  <2> QED BY <1>2, <2>1, <2>2 DEF Min2
<1>5. committed = [j \in 1..(accepted + 1) |-> Len(kv) + j - 1]
  <2> DEFINE row == Append(kv, frontier)
  <2>1. /\ Len(row) = Len(kv) + 1
        /\ \A i \in 1..Len(kv) : row[i] = kv[i]
        /\ row[Len(kv) + 1] = frontier
    <3>1. frontier \in Tokens
      BY <1>2, <1>3 DEF Tokens
    <3> QED BY <1>2, <3>1, AppendProperties
  <2>2. \A i \in 1..Len(kv) : kv[i] = i - 1
    BY <1>2 DEF Canonical
  <2> HIDE DEF row
  <2>3. Canonical(row)
    <3> SUFFICES ASSUME NEW i \in 1..(Len(kv) + 1) PROVE row[i] = i - 1
      BY <2>1 DEF Canonical
    <3>1. CASE i \in 1..Len(kv)
      BY <2>1, <2>2, <3>1
    <3>2. CASE i = Len(kv) + 1
      BY <1>2, <1>3, <2>1, <3>2
    <3> QED BY <1>2, <3>1, <3>2
  <2>4. committed = [j \in 1..(accepted + 1) |->
                       IF j = 1 THEN frontier
                       ELSE IF Canonical(row) THEN Len(kv) + j - 1 ELSE WrongToken]
    BY DEF Committed, row
  <2>5. \A j \in 1..(accepted + 1) :
          (IF j = 1 THEN frontier
           ELSE IF Canonical(row) THEN Len(kv) + j - 1 ELSE WrongToken) = Len(kv) + j - 1
    <3> SUFFICES ASSUME NEW j \in 1..(accepted + 1)
                 PROVE  (IF j = 1 THEN frontier ELSE Len(kv) + j - 1) = Len(kv) + j - 1
      BY <2>3
    <3>1. frontier = Len(kv) /\ Len(kv) \in Int /\ j \in Int
      BY <1>2, <1>3, <1>4
    <3>2. CASE j = 1
      BY <3>1, <3>2
    <3>3. CASE j # 1
      BY <3>1, <3>3
    <3> QED BY <3>2, <3>3
  <2> HIDE DEF committed
  <2> QED BY <2>4, <2>5
<1>6. /\ committed \in Seq(Tokens) /\ Len(committed) = accepted + 1
      /\ \A i \in 1..Len(committed) : committed[i] = Len(kv) + i - 1
  <2>1. \A j \in 1..(accepted + 1) : Len(kv) + j - 1 \in Tokens
    BY <1>2, <1>4 DEF Tokens
  <2> QED BY <1>4, <1>5, <2>1
<1>7. /\ kv' = kv \o committed /\ reserved' = Len(kv) + drafts + 1
      /\ frontier' = IF GrammarComplete(committed) THEN frontier ELSE Target(kv \o committed)
      /\ ApplySamples(samples) /\ drafter' \in {drafter, "none"}
      /\ spec_ready' = spec_ready /\ stop' = stop /\ spec_started' = TRUE
  BY <1>1 DEF VerifyCycle, DrafterMayFail
<1> HIDE DEF committed, drafts
<1>8. /\ kv' \in Seq(Tokens) /\ Len(kv') = Len(kv) + accepted + 1
      /\ Canonical(kv') /\ Target(kv \o committed) = Len(kv) + accepted + 1
  <2>1. /\ kv \o committed \in Seq(Tokens) /\ Len(kv \o committed) = Len(kv) + Len(committed)
        /\ Canonical(kv \o committed) /\ Target(kv \o committed) = Len(kv) + Len(committed)
    BY <1>2, <1>6, ExtendCanonical
  <2> QED BY <1>2, <1>4, <1>6, <1>7, <2>1
\* The emitted samples continue the completion; before the first cycle the
\* re-fed token is left out.
<1>9. /\ samples \in Seq(Tokens) /\ Len(samples) = accepted + 1 - lag
      /\ \A k \in 1..Len(samples) : samples[k] = PromptLen + Len(generated) + k - 1
      /\ \A k \in 1..Len(samples) : samples[k] = committed[k + lag]
  <2>1. CASE spec_started
    BY <1>2, <1>3, <1>4, <1>6, <2>1 DEF CycleSamples
  <2>2. CASE ~spec_started
    <3>1. committed # <<>>
      BY <1>4, <1>6
    <3>2. /\ Tail(committed) \in Seq(Tokens) /\ Len(Tail(committed)) = Len(committed) - 1
          /\ \A i \in 1..Len(Tail(committed)) : Tail(committed)[i] = committed[i + 1]
      BY <1>6, <3>1, HeadTailProperties
    <3>3. samples = Tail(committed) /\ lag = 1
      BY <2>2 DEF CycleSamples
    <3> HIDE DEF samples, lag
    <3> QED BY <1>2, <1>3, <1>4, <1>6, <3>2, <3>3
  <2> QED BY <2>1, <2>2
<1> HIDE DEF samples
<1>10. Len(generated) + Len(samples) <= MaxNewTokens
  BY <1>2, <1>4, <1>9
<1>11. reserved' \in Nat /\ reserved' <= MaxTokens
  BY <1>2, <1>3, <1>4, <1>7 DEF MaxTokens
<1>12. frontier' \in Tokens \cup {NoToken}
  BY <1>2, <1>3, <1>4, <1>7, <1>8 DEF Tokens
<1>13. AppendWithinAdmission'
  BY <1>11 DEF AppendWithinAdmission, MaxTokens
<1>14. Canonical(kv)' /\ spec_ready'
  BY <1>2, <1>7, <1>8 DEF Canonical
\* The cycle's outcome for the request's own books, whether or not it emits.
<1>15. /\ generated' \in Seq(Tokens)
       /\ LosslessCompletion'
       /\ last_token' \in Tokens \cup {NoToken}
       /\ prompt_position' = PromptLen
       /\ lifecycle' \in {"Decoding", "Finished"}
       /\ lifecycle' = "Decoding" =>
            /\ Len(generated') = Len(generated) + Len(samples)
            /\ Len(generated') \in 1..(MaxNewTokens - 1)
            /\ last_token' = PromptLen + Len(generated') - 1
            /\ last_token' # stop.at
            /\ \A k \in 1..Len(samples) : samples[k] # stop.at
  <2>1. TypeOK /\ LosslessCompletion
    BY DEF IndInv
  <2>2. CASE Len(samples) > 0
    <3>1. RemainingPromptTokens # 1
      BY <1>2 DEF RemainingPromptTokens
    <3>2. /\ generated' \in Seq(Tokens)
          /\ LosslessCompletion'
          /\ last_token' \in Tokens
          /\ prompt_position' = IF RemainingPromptTokens = 1 THEN PromptLen ELSE prompt_position
          /\ lifecycle' \in {"Decoding", "Finished"}
          /\ lifecycle' = "Decoding" =>
               /\ Len(generated') = Len(generated) + Len(samples)
               /\ Len(generated') \in 1..(MaxNewTokens - 1)
               /\ last_token' = PromptLen + Len(generated') - 1
               /\ last_token' # stop.at
               /\ \A k \in 1..Len(samples) : samples[k] # stop.at
      BY <1>7, <1>9, <1>10, <2>1, <2>2, ApplyContinues
    <3> QED BY <1>2, <3>1, <3>2
  <2>3. CASE Len(samples) = 0
    <3>1. /\ generated' = generated \o SubSeq(samples, 1, 0)
          /\ last_token' = last_token /\ prompt_position' = prompt_position
          /\ lifecycle' = lifecycle
      BY <1>7, <2>3 DEF ApplySamples
    <3>2. SubSeq(samples, 1, 0) = <<>>
      BY SubSeqEmpty
    <3>3. generated' = generated
      BY <1>2, <3>1, <3>2, ConcatEmptySeq
    <3>4. LosslessCompletion'
      BY <2>1, <3>3 DEF LosslessCompletion
    <3>5. last_token' \in Tokens \cup {NoToken}
      BY <2>1, <3>1 DEF TypeOK
    <3> QED BY <1>2, <1>3, <2>3, <3>1, <3>3, <3>4, <3>5
  <2> QED BY <1>4, <1>9, <2>2, <2>3
<1>16. ASSUME lifecycle' = "Decoding"
       PROVE  frontier' = Len(kv') /\ Len(kv') = PromptLen + Len(generated')
  <2>1. ~GrammarComplete(committed)
    <3> SUFFICES ASSUME NEW i \in 1..Len(committed) PROVE committed[i] # stop.at
      BY DEF GrammarComplete
    <3>1. CASE i - lag \in 1..Len(samples)
      <4>1. samples[i - lag] = committed[(i - lag) + lag] /\ samples[i - lag] # stop.at
        BY <1>9, <1>15, <1>16, <3>1
      <4>2. (i - lag) + lag = i
        BY <1>4
      <4> QED BY <4>1, <4>2
    <3>2. CASE lag = 1 /\ i = 1
      BY <1>2, <1>3, <1>6, <3>2
    <3> QED BY <1>4, <1>6, <1>9, <3>1, <3>2
  <2>2. Len(generated') = Len(generated) + accepted + 1 - lag
    BY <1>2, <1>4, <1>9, <1>15, <1>16
  <2> HIDE DEF lag
  <2> QED BY <1>2, <1>3, <1>4, <1>7, <1>8, <2>1, <2>2
<1>17. TypeOK'
  <2>1. spec_ready' \in BOOLEAN /\ spec_started' \in BOOLEAN
    BY Zenon, <1>7 DEF IndInv, TypeOK
  <2>2. drafter' \in {"none", "mtp", "dflash2"}
    BY <1>7 DEF IndInv, TypeOK
  <2>3. stop' \in [at : PromptLen..MaxTokens, by : {"eos", "grammar"}]
    BY <1>7 DEF IndInv, TypeOK
  <2>4. prompt_position' \in 0..PromptLen
    BY <1>15
  <2>5. lifecycle' \in {"Prefilling", "Decoding", "Finished", "Cancelled"}
    BY <1>15
  <2> QED BY <1>8, <1>11, <1>12, <1>15, <2>1, <2>2, <2>3, <2>4, <2>5, Zenon DEF TypeOK
<1>18. FrontierLag'
  <2>1. lifecycle' # "Prefilling"
    BY <1>15
  <2>2. ASSUME lifecycle' = "Decoding"
        PROVE  /\ prompt_position' = PromptLen
               /\ Len(generated') \in 1..(MaxNewTokens - 1)
               /\ last_token' = PromptLen + Len(generated') - 1 /\ last_token' # stop'.at
               /\ Len(kv') = PromptLen + Len(generated') - (IF spec_started' THEN 0 ELSE 1)
               /\ frontier' # NoToken => spec_ready' /\ frontier' = Len(kv')
    <3>1. Len(generated') \in Nat
      BY <1>15, <2>2
    <3> QED BY <1>7, <1>14, <1>15, <1>16, <2>2, <3>1
  <2> QED BY Zenon, <1>14, <2>1, <2>2 DEF FrontierLag
<1> QED BY <1>13, <1>15, <1>17, <1>18 DEF IndInv

\* Every step of the request preserves the invariant.
LEMMA NextInv == IndInv /\ [Next]_vars => IndInv'
<1> USE ConstantsOK DEF ConstantsAssumption
<1> SUFFICES ASSUME IndInv, [Next]_vars PROVE IndInv'
  OBVIOUS
<1>1. CASE Prefill
  BY <1>1, PrefillInv
<1>2. CASE Decode
  BY <1>2, DecodeInv
<1>3. CASE Speculate
  <2>1. /\ Live /\ RemainingPromptTokens <= 1 /\ SpecEligible
        /\ spec_started' = TRUE /\ UNCHANGED <<spec_ready, stop>>
    BY <1>3 DEF Speculate
  <2>2. CASE VerifyCycle
    BY <2>1, <2>2, VerifyInv
  <2>3. CASE FrontierCompletesGrammar
    <3> DEFINE samples == <<frontier>>
    <3>1. /\ lifecycle = "Decoding" /\ spec_started /\ spec_ready
          /\ frontier = PromptLen + Len(generated)
          /\ Len(generated) \in Nat /\ Len(generated) < MaxNewTokens
          /\ frontier = stop.at /\ prompt_position = PromptLen
      <4>1. spec_ready /\ spec_started /\ frontier # NoToken /\ frontier = stop.at
        BY <2>1, <2>3 DEF SpecEligible, FrontierCompletesGrammar, GrammarComplete
      <4>2. lifecycle = "Decoding"
        BY <2>1, <4>1 DEF Live, IndInv, FrontierLag
      <4> QED BY <2>1, <4>1, <4>2, DecodableRequest DEF IndInv, FrontierLag
    <3>2. /\ samples \in Seq(Tokens) /\ Len(samples) = 1
          /\ \A k \in 1..Len(samples) : samples[k] = PromptLen + Len(generated) + k - 1
      BY <3>1 DEF Tokens
    <3>3. ApplySamples(samples) /\ UNCHANGED <<kv, reserved, frontier, drafter>>
      BY <2>3 DEF FrontierCompletesGrammar
    <3>4. samples[1] = stop.at
      BY <3>1
    <3> HIDE DEF samples
    <3>5. /\ generated' \in Seq(Tokens)
          /\ LosslessCompletion'
          /\ last_token' \in Tokens
          /\ prompt_position' = IF RemainingPromptTokens = 1 THEN PromptLen ELSE prompt_position
          /\ lifecycle' \in {"Decoding", "Finished"}
          /\ lifecycle' = "Decoding" => \A k \in 1..Len(samples) : samples[k] # stop.at
      <4>1. Len(generated) + Len(samples) <= MaxNewTokens /\ Len(samples) > 0
        BY <3>1, <3>2
      <4>2. TypeOK /\ LosslessCompletion
        BY DEF IndInv
      <4> QED BY <3>2, <3>3, <4>1, <4>2, ApplyContinues
    <3>6. lifecycle' = "Finished"
      BY <3>2, <3>4, <3>5
    <3>7. prompt_position' = PromptLen
      BY <3>1, <3>5 DEF RemainingPromptTokens
    <3>8. TypeOK'
      <4>1. spec_ready' \in BOOLEAN /\ spec_started' \in BOOLEAN
        BY Zenon, <2>1 DEF IndInv, TypeOK
      <4>2. prompt_position' \in 0..PromptLen
        BY <3>7
      <4> QED BY <2>1, <3>3, <3>5, <3>6, <4>1, <4>2 DEF IndInv, TypeOK
    <3>9. FrontierLag'
      BY Zenon, <2>1, <3>1, <3>3, <3>6 DEF IndInv, FrontierLag, Canonical
    <3>10. AppendWithinAdmission'
      BY <3>3 DEF IndInv, AppendWithinAdmission, MaxTokens
    <3> QED BY <3>5, <3>8, <3>9, <3>10 DEF IndInv
  <2> QED BY <1>3, <2>2, <2>3 DEF Speculate
<1>4. CASE SpeculateFails
  <2>1. /\ UNCHANGED <<kv, reserved, prompt_position, generated, last_token,
                       spec_ready, spec_started, lifecycle, stop>>
        /\ drafter' \in {drafter, "none"} /\ frontier' \in {frontier, NoToken}
        /\ spec_ready
    BY <1>4 DEF SpeculateFails, SpecEligible
  <2>2. TypeOK'
    BY <2>1 DEF IndInv, TypeOK
  <2>3. FrontierLag'
    BY Zenon, <2>1 DEF IndInv, FrontierLag, Canonical
  <2> QED BY <2>1, <2>2, <2>3
          DEF IndInv, LosslessCompletion, AppendWithinAdmission, MaxTokens
<1>5. CASE Cancel
  <2>1. TypeOK'
    BY <1>5 DEF Cancel, IndInv, TypeOK
  <2>2. FrontierLag'
    BY Zenon, <1>5 DEF Cancel, IndInv, FrontierLag, Canonical
  <2> QED BY <1>5, <2>1, <2>2
          DEF Cancel, IndInv, LosslessCompletion, AppendWithinAdmission, MaxTokens
<1>6. CASE UNCHANGED vars
  <2>1. TypeOK'
    BY <1>6 DEF vars, IndInv, TypeOK
  <2>2. FrontierLag'
    BY Zenon, <1>6 DEF vars, IndInv, FrontierLag, Canonical
  <2> QED BY <1>6, <2>1, <2>2
          DEF vars, IndInv, LosslessCompletion, AppendWithinAdmission, MaxTokens
<1> QED BY <1>1, <1>2, <1>3, <1>4, <1>5, <1>6 DEF Next, Tick

\* Every reachable state of the request satisfies the inductive invariant: types, a
\* canonical cache, and the frontier lag of the two decode modes.
THEOREM InductiveInvariant == Spec => []IndInv
<1> QED BY InitInv, NextInv, PTL DEF Spec

\* Type correctness of the request state in every behaviour.
THEOREM TypeCorrect == Spec => []TypeOK
<1>1. IndInv => TypeOK
  BY DEF IndInv
<1> QED BY <1>1, InductiveInvariant, PTL

\* For every prompt length, token budget and draft count: whatever mix of ordinary
\* and speculative ticks runs, the emitted completion is the greedy stream.
THEOREM CompletionIsLossless == Spec => []LosslessCompletion
<1>1. IndInv => LosslessCompletion
  BY DEF IndInv
<1> QED BY <1>1, InductiveInvariant, PTL

\* For every prompt length, token budget and draft count: no append reserves rows
\* past the capacity the request was admitted with.
THEOREM AppendsStayAdmitted == Spec => []AppendWithinAdmission
<1>1. IndInv => AppendWithinAdmission
  BY DEF IndInv
<1> QED BY <1>1, InductiveInvariant, PTL

\* The cache and the two decode modes' books agree in every reachable state.
THEOREM LagIsExact == Spec => []FrontierLag
<1>1. IndInv => FrontierLag
  BY DEF IndInv
<1> QED BY <1>1, InductiveInvariant, PTL

--------------------------------------------------------------------------------
(***************************************************************************)
(* Where the completion ends.                                              *)
(***************************************************************************)

\* What StopsExactlyOnce says beyond FrontierLag: nothing but the last token stops, and a
\* finished request has a reason.
StopInv ==
  /\ Len(generated) <= MaxNewTokens
  /\ \A i \in 1..(Len(generated) - 1) : generated[i] # stop.at
  /\ lifecycle = "Finished" =>
       /\ Len(generated) > 0
       /\ Len(generated) = MaxNewTokens \/ generated[Len(generated)] = stop.at

\* A live request has emitted no stop token and has budget left.
LEMMA LiveIsUnstopped ==
  ASSUME IndInv, StopInv, Live
  PROVE  /\ Len(generated) \in Nat /\ Len(generated) < MaxNewTokens
         /\ \A i \in 1..Len(generated) : generated[i] # stop.at
<1> USE ConstantsOK DEF ConstantsAssumption
<1>1. Len(generated) \in Nat
  BY LenProperties DEF IndInv, TypeOK
<1>2. CASE lifecycle = "Prefilling"
  BY <1>2 DEF IndInv, FrontierLag
<1>3. CASE lifecycle = "Decoding"
  <2>1. /\ Len(generated) \in 1..(MaxNewTokens - 1)
        /\ last_token = PromptLen + Len(generated) - 1 /\ last_token # stop.at
    BY <1>3 DEF IndInv, FrontierLag
  <2>2. generated[Len(generated)] = last_token
    BY <1>1, <2>1 DEF IndInv, LosslessCompletion
  <2>3. \A i \in 1..Len(generated) : i \in 1..(Len(generated) - 1) \/ i = Len(generated)
    BY <1>1
  <2>4. \A i \in 1..(Len(generated) - 1) : generated[i] # stop.at
    BY DEF StopInv
  <2>5. Len(generated) < MaxNewTokens
    BY <2>1
  <2> QED BY <1>1, <2>1, <2>2, <2>3, <2>4, <2>5
<1> QED BY <1>2, <1>3 DEF Live

\* The loop over a tick's samples stops at the first one that finishes the request.
LEMMA ApplyStops ==
  ASSUME IndInv, StopInv, Live, NEW samples \in Seq(Int), ApplySamples(samples), stop' = stop
  PROVE  StopInv'
<1> USE ConstantsOK DEF ConstantsAssumption
<1> DEFINE g == Len(generated)
<1>1. PICK n \in 0..Len(samples) :
        /\ \A k \in 1..(n - 1) : ~Finishes(samples, k)
        /\ n = Len(samples) \/ (n > 0 /\ Finishes(samples, n))
        /\ generated' = generated \o SubSeq(samples, 1, n)
        /\ lifecycle' = IF n = 0 THEN lifecycle
                        ELSE IF Finishes(samples, n) THEN "Finished" ELSE "Decoding"
  BY DEF ApplySamples
<1>2. /\ g \in Nat /\ g < MaxNewTokens
      /\ \A i \in 1..g : generated[i] # stop.at
  BY LiveIsUnstopped
<1>3. generated \in Seq(Int)
  <2>1. generated \in Seq(Tokens) /\ Tokens \subseteq Int
    BY DEF IndInv, TypeOK, Tokens, WrongToken
  <2>2. generated \in [1..g -> Tokens] /\ g \in Nat
    BY <2>1, LenProperties
  <2>3. generated \in [1..g -> Int]
    BY <2>1, <2>2
  <2> QED BY <2>2, <2>3, SeqDef
<1>4. n \in Nat /\ Len(samples) \in Nat /\ n <= Len(samples)
  BY <1>1, LenProperties
<1> DEFINE t == SubSeq(samples, 1, n)
<1>5. t \in Seq(Int) /\ Len(t) = n /\ \A i \in 1..n : t[i] = samples[i]
  BY <1>4
<1> HIDE DEF t
<1>6. /\ generated' \in Seq(Int) /\ Len(generated') = g + n
      /\ \A i \in 1..(g + n) : generated'[i] = IF i <= g THEN generated[i] ELSE t[i - g]
  <2>1. generated' = generated \o t
    BY <1>1 DEF t
  <2>2. /\ generated \o t \in Seq(Int)
        /\ Len(generated \o t) = Len(generated) + Len(t)
        /\ \A i \in 1..(Len(generated) + Len(t)) : (generated \o t)[i] =
             IF i <= Len(generated) THEN generated[i] ELSE t[i - Len(generated)]
    BY <1>3, <1>5, ConcatProperties
  <2> QED BY <1>5, <2>1, <2>2
<1> HIDE DEF g
\* The k-th sample, short of the n-th, neither stops nor uses up the budget.
<1>7. \A k \in 1..(n - 1) : samples[k] # stop.at /\ g + k # MaxNewTokens
  BY <1>1 DEF Finishes, g
<1>8. g + n <= MaxNewTokens
  <2> SUFFICES ASSUME g + n > MaxNewTokens PROVE FALSE
    BY <1>2, <1>4
  <2>1. MaxNewTokens - g \in 1..(n - 1) /\ g + (MaxNewTokens - g) = MaxNewTokens
    BY <1>2, <1>4
  <2> QED BY <1>7, <2>1
<1>9. ASSUME NEW i \in 1..(g + n - 1) PROVE generated'[i] # stop.at
  <2>1. CASE i <= g
    <3>1. i \in 1..g /\ i \in 1..(g + n)
      BY <1>2, <1>4, <2>1
    <3> QED BY <1>2, <1>6, <2>1, <3>1
  <2>2. CASE i > g
    <3>1. i - g \in 1..(n - 1) /\ i - g \in 1..n /\ i \in 1..(g + n) /\ ~(i <= g)
      BY <1>2, <1>4, <2>2
    <3>2. generated'[i] = samples[i - g]
      BY <1>5, <1>6, <3>1
    <3> QED BY <1>7, <3>1, <3>2
  <2> QED BY <1>2, <1>4, <2>1, <2>2
<1>10. ASSUME lifecycle' = "Finished"
       PROVE  /\ g + n > 0
              /\ g + n = MaxNewTokens \/ generated'[g + n] = stop.at
  <2>1. n > 0 /\ Finishes(samples, n)
    BY <1>1, <1>4, <1>10 DEF Live
  <2>2. g + n \in 1..(g + n) /\ ~(g + n <= g) /\ (g + n) - g = n /\ n \in 1..n
    BY <1>2, <1>4, <2>1
  <2>3. generated'[g + n] = samples[n]
    BY <1>5, <1>6, <2>2
  <2> QED BY <1>2, <1>4, <2>1, <2>3 DEF Finishes, g
<1>11. /\ Len(generated') <= MaxNewTokens
       /\ \A i \in 1..(Len(generated') - 1) : generated'[i] # stop'.at
       /\ lifecycle' = "Finished" =>
            /\ Len(generated') > 0
            /\ Len(generated') = MaxNewTokens \/ generated'[Len(generated')] = stop'.at
  <2>1. Len(generated') = g + n /\ stop' = stop
    BY <1>6
  <2>2. \A i \in 1..(g + n - 1) : generated'[i] # stop.at
    BY <1>9
  <2> DEFINE m == g + n
  <2>3. m <= MaxNewTokens /\ Len(generated') = m
    BY <1>8, <2>1
  <2>4. lifecycle' = "Finished" => m > 0 /\ (m = MaxNewTokens \/ generated'[m] = stop.at)
    BY <1>10
  <2>5. \A i \in 1..(m - 1) : generated'[i] # stop.at
    BY <1>2, <1>4, <2>2
  <2> HIDE DEF m
  <2>6. Len(generated') <= MaxNewTokens
    BY <2>3
  <2>7. \A i \in 1..(Len(generated') - 1) : generated'[i] # stop'.at
    BY <2>1, <2>3, <2>5
  <2>8. lifecycle' = "Finished" =>
          /\ Len(generated') > 0
          /\ Len(generated') = MaxNewTokens \/ generated'[Len(generated')] = stop'.at
    BY <2>1, <2>3, <2>4
  <2> QED BY <2>6, <2>7, <2>8
<1> QED BY <1>11 DEF StopInv

\* Every step that emits emits through that loop, and the others emit nothing.
LEMMA NextStops == IndInv /\ StopInv /\ [Next]_vars => StopInv'
<1> USE ConstantsOK DEF ConstantsAssumption
<1> SUFFICES ASSUME IndInv, StopInv, [Next]_vars PROVE StopInv'
  OBVIOUS
<1>0. /\ frontier \in Int /\ kv \in Seq(Tokens) /\ Len(kv) \in Nat
      /\ \A rows \in Seq(Int) : Target(rows) \in Int
  <2>1. frontier \in Int /\ kv \in Seq(Tokens)
    BY DEF IndInv, TypeOK, Tokens, WrongToken, NoToken
  <2>2. \A rows \in Seq(Int) : Target(rows) \in Int
    BY LenProperties DEF Target, WrongToken
  <2> QED BY <2>1, <2>2, LenProperties
<1>1. CASE Prefill \/ SpeculateFails \/ Cancel \/ UNCHANGED vars
  <2>1. /\ UNCHANGED <<generated, stop>>
        /\ lifecycle' = lifecycle \/ lifecycle' = "Cancelled"
    BY <1>1 DEF Prefill, SpeculateFails, Cancel, vars
  <2> QED BY <2>1 DEF StopInv
<1>2. CASE Decode
  <2> DEFINE sample == Target(Append(kv, DecodeInputToken))
             tracked == frontier # NoToken /\ (drafter # "none" \/ spec_ready)
             e == OrdinaryDecodeEmission(tracked, sample)
  <2>1. Live /\ ApplySamples(<<e>>) /\ stop' = stop
    BY <1>2 DEF Decode
  <2>2. e \in Int
    <3>1. sample \in Int
      BY LenProperties DEF Target, WrongToken
    <3> QED BY <1>0, <3>1 DEF OrdinaryDecodeEmission
  <2> HIDE DEF e
  <2>3. <<e>> \in Seq(Int)
    BY <2>2
  <2> QED BY <2>1, <2>3, ApplyStops
<1>3. CASE Speculate
  <2>1. Live /\ SpecEligible /\ stop' = stop /\ (VerifyCycle \/ FrontierCompletesGrammar)
    BY <1>3 DEF Speculate
  <2>2. CASE FrontierCompletesGrammar
    <3>1. <<frontier>> \in Seq(Int)
      BY <1>0
    <3>2. ApplySamples(<<frontier>>)
      BY <2>2 DEF FrontierCompletesGrammar
    <3> QED BY <2>1, <3>1, <3>2, ApplyStops
  <2>3. CASE VerifyCycle
    <3>1. PICK accepted \in 0..SpeculativeDraftCount(spec_started) :
            ApplySamples(CycleSamples(Committed(accepted)))
      BY <2>3 DEF VerifyCycle
    <3> DEFINE committed == Committed(accepted)
    <3>2. accepted \in Nat
      OBVIOUS
    <3>3. committed \in Seq(Int) /\ Len(committed) = accepted + 1
      <4>1. \A j \in 1..(accepted + 1) :
              (IF j = 1 THEN frontier
               ELSE IF Canonical(Append(kv, frontier)) THEN Len(kv) + j - 1
               ELSE WrongToken) \in Int
        BY <1>0, <3>2 DEF WrongToken
      <4> QED BY <3>2, <4>1 DEF Committed
    <3> HIDE DEF committed
    <3>4. committed # <<>>
      BY <3>2, <3>3
    <3>5. Tail(committed) \in Seq(Int)
      BY <3>3, <3>4
    <3>6. CycleSamples(committed) \in Seq(Int)
      BY <3>3, <3>5 DEF CycleSamples
    <3> QED BY <2>1, <3>1, <3>6, ApplyStops DEF committed
  <2> QED BY <2>1, <2>2, <2>3
<1> QED BY <1>1, <1>2, <1>3 DEF Next, Tick

\* For every prompt length, token budget and draft count: a request ends with the first
\* stop token or the last token of its budget, whichever tick emits it, and a cycle's
\* samples behind that token are dropped.
THEOREM StopIsExact == Spec => []StopsExactlyOnce
<1>1. Init => StopInv
  BY ConstantsOK DEF Init, StopInv, ConstantsAssumption
<1>2. Spec => [](IndInv /\ StopInv)
  BY <1>1, InitInv, NextInv, NextStops, PTL DEF Spec
<1>3. IndInv /\ StopInv => StopsExactlyOnce
  <2> SUFFICES ASSUME IndInv, StopInv PROVE StopsExactlyOnce
    OBVIOUS
  <2>1. generated \in Seq(Tokens) /\ Len(generated) \in Nat
    BY LenProperties DEF IndInv, TypeOK
  <2>2. generated # <<>> <=> Len(generated) > 0
    BY <2>1
  <2>3. ASSUME Live, generated # <<>>
        PROVE  Len(generated) < MaxNewTokens /\ generated[Len(generated)] # stop.at
    BY <2>1, <2>2, <2>3, LiveIsUnstopped
  <2>4. lifecycle = "Finished" =>
          generated # <<>> /\ (\/ Len(generated) = MaxNewTokens
                               \/ generated[Len(generated)] = stop.at)
    BY <2>2 DEF StopInv
  <2> QED BY <2>3, <2>4 DEF StopInv, StopsExactlyOnce
<1> QED BY <1>2, <1>3, PTL
================================================================================
