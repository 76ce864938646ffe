\* Each part of the library on its own, with every argument up to the bounds.
CONSTANTS
    NoName = ""  NoValue = ""  Unwritten = Unwritten  Undefined = Undefined
    Width <- MCWidth  Format <- MCFormat  Types <- MCTypes  Texts <- MCTexts
    Lower <- MCLower  Strings <- MCStrings  Substrings <- MCSubstrings
    Data <- MCData
    Digit <- MCDigit  MaxPort = 3  DefaultPort <- MCDefaultPort
    UriStrings <- MCUriStrings  UriParts <- MCUriParts
    Precision = 32  Exponents <- MCExponents
    Second = 10  Milli = 5  LongMax = 63  Calendar <- MCCalendar
    Clocks <- MCClocks  Factors <- MCFactors
    Numbers <- MCNumbers  Ratios <- MCRatios  Limits <- MCLimits
    Lists <- MCLists
    Converts <- IsNumber  Usages <- MCUsages  Arguments <- MCArguments
    Word = 16  Byte <- Bits01  Largest = 3  Maximum <- MCMaximum  MaxAsked = 15  MaxBytes = 2
    Base = 2  Item <- MCItem  SinkMaximum <- MCSinkMaximum  MaxItems = 2
SPECIFICATION Spec
INVARIANTS
    NumbersAreExact
    TextsAgree
    Base64RoundTrip
    ClocksAreExact
    RatiosAreExact
    
    SetsAgree
    UsageReadsArguments
    BuffersAreSequences
    ItemsAreReadBack
CHECK_DEADLOCK FALSE
