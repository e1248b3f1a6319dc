SPECIFICATION SunFairSpec
CONSTANTS
    Day = 6
    Noons <- MCNoons
    Arcs <- MCArcs
INVARIANTS
    SunriseInDaytime
    RaisedOnce
    RulesSeeBefore
PROPERTIES
    DaysGoOn
