\* Every method, every line of the modem, every timer, one at a time.
SPECIFICATION Spec
INVARIANTS ResponseInHand AnsweredOnce PayloadsAgree  NothingKept
