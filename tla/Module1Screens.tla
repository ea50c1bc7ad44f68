--------------------------- MODULE Module1Screens ---------------------------
(***************************************************************************)
(* Module1ScreenRenderer: access, wallet, profile, configuration and the   *)
(* status of projections, one renderer for the screens of all five.  Their *)
(* own loads move nobody to another screen and are left out; a wallet that *)
(* has not loaded only has fewer buttons.                                  *)
(***************************************************************************)
EXTENDS TransfersScreens

Module1Sections == {"Access", "Wallet", "Profile", "Configuration", "Projection_Status"}

Next1(s) == <<s[1], IF s[2] >= Count[s[1]] THEN 1 ELSE s[2] + 1>> \* getNextModule1Screen

\* useModule1Demo's submit.  Two forms need a value, and one only opens a dialog.
submit == screen # Configuration(4) /\
          Nav(IF screen = Projection(1) THEN Projection(2) ELSE Next1(screen))

\* DEMO: Continuar, Siguiente pantalla and the dots of the pager.
DemoControls ==
  \/ submit
  \/ \E n \in 1..Count[screen[1]] : Nav(<<screen[1], n>>)

\* WalletBalanceCard.
WalletCard ==
  /\ At(Wallet(1))
  /\ \/ openTransferFlow
     \/ \E s \in {Recharges(1), Beneficiaries(1), Goals(1), Budgets(1), Cash(1),
                  Categories(1), Wallet(6)} : Nav(s)

\* Cerrar sesion: signOut forgets the user; in DEMO there is none.
signOut ==
  /\ At(Profile(1)) /\ Real /\ actor # Nobody /\ Upset
  /\ actor' = Nobody
  /\ NoRender /\ GateFrame /\ UNCHANGED <<gate, res>>

Module1Section ==
  \/ /\ screen[1] \in Module1Sections /\ At(screen)
     /\ \/ \E s \in BottomTabs : Nav(s)
        \/ ~Real /\ DemoControls
  \/ WalletCard
  \/ signOut
=============================================================================
