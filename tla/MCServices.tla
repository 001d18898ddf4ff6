----------------------------- MODULE MCServices -----------------------------
EXTENDS Services

MCRequests == {<<1, 2>>, <<1, 3>>, <<3, 3>>}
MCDatasets == {"d1", "d2"}
MCModels == {"m1", "m2"}
MCEconomic == {90}
MCFactors == {100}
MCInstruments == {"gold"}
MCExperiences == {"x1", "x2", "x3"}
MCWeekend == {3, 4, 7}
MCBarPrices == {20, 60}
=============================================================================
