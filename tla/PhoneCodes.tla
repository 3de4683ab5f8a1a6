----------------------------- MODULE PhoneCodes -----------------------------
(***************************************************************************)
(* Country calling codes, and the one a phone number begins with.          *)
(***************************************************************************)
EXTENDS Integers, SequencesExt, TLC

NoCode == 0

\* Country calling codes and their locales.
DDI_LOCALE ==
  1 :> "en-US" @@ 51 :> "es-PE" @@ 52 :> "es-MX" @@ 54 :> "es-AR" @@ 55 :> "pt-BR" @@
  56 :> "es-CL" @@ 57 :> "es-CO" @@ 58 :> "es-VE" @@ 591 :> "es-BO" @@ 593 :> "es-EC" @@
  595 :> "es-PY" @@ 598 :> "es-UY" @@ 7 :> "ru-RU" @@ 30 :> "el-GR" @@ 31 :> "nl-NL" @@
  32 :> "fr-BE" @@ 33 :> "fr-FR" @@ 34 :> "es-ES" @@ 36 :> "hu-HU" @@ 39 :> "it-IT" @@
  40 :> "ro-RO" @@ 41 :> "de-CH" @@ 43 :> "de-AT" @@ 44 :> "en-GB" @@ 45 :> "da-DK" @@
  46 :> "sv-SE" @@ 47 :> "nb-NO" @@ 48 :> "pl-PL" @@ 49 :> "de-DE" @@ 351 :> "pt-PT" @@
  352 :> "fr-LU" @@ 353 :> "en-IE" @@ 358 :> "fi-FI" @@ 359 :> "bg-BG" @@ 370 :> "lt-LT" @@
  371 :> "lv-LV" @@ 372 :> "et-EE" @@ 380 :> "uk-UA" @@ 385 :> "hr-HR" @@ 386 :> "sl-SI" @@
  420 :> "cs-CZ" @@ 421 :> "sk-SK" @@ 20 :> "ar-EG" @@ 27 :> "en-ZA" @@ 212 :> "ar-MA" @@
  213 :> "ar-DZ" @@ 216 :> "ar-TN" @@ 218 :> "ar-LY" @@ 233 :> "en-GH" @@ 234 :> "en-NG" @@
  254 :> "sw-KE" @@ 255 :> "sw-TZ" @@ 256 :> "sw-UG" @@ 60 :> "ms-MY" @@ 61 :> "en-AU" @@
  62 :> "id-ID" @@ 63 :> "en-PH" @@ 64 :> "en-NZ" @@ 65 :> "en-SG" @@ 66 :> "th-TH" @@
  81 :> "ja-JP" @@ 82 :> "ko-KR" @@ 84 :> "vi-VN" @@ 86 :> "zh-CN" @@ 90 :> "tr-TR" @@
  91 :> "hi-IN" @@ 92 :> "ur-PK" @@ 94 :> "si-LK" @@ 95 :> "my-MM" @@ 98 :> "fa-IR" @@
  880 :> "bn-BD" @@ 886 :> "zh-TW" @@ 966 :> "ar-SA" @@ 971 :> "ar-AE" @@ 972 :> "he-IL" @@
  973 :> "ar-BH" @@ 974 :> "ar-QA" @@ 977 :> "ne-NP"

\* The number the first digits make, or NoCode where there are fewer, or a zero leads.
Prefix(number, length) ==
  IF Len(number) < length \/ number[1] = 0 THEN NoCode
  ELSE FoldLeft(LAMBDA n, digit : 10 * n + digit, 0, SubSeq(number, 1, length))

FirstOf(number, lengths) ==
  LET found == SelectSeq(lengths, LAMBDA length : Prefix(number, length) \in DOMAIN DDI_LOCALE)
  IN  IF found = <<>> THEN NoCode ELSE Prefix(number, found[1])

\* Mutant of DdiOf: no code is taken to have three digits.
DdiOfTwo(number) == FirstOf(number, <<2, 1>>)

\* Longest prefix wins.
DdiOf(number) == FirstOf(number, <<3, 2, 1>>)
=============================================================================
