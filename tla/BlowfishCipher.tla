--------------------------- MODULE BlowfishCipher ---------------------------
(***************************************************************************)
(* What the three versions of the Blowfish application have in common: the *)
(* key, the text, and the cipher on blocks of two words.  A word of 32     *)
(* bits is a pair of halves.                                               *)
(***************************************************************************)
EXTENDS Naturals, Sequences, Bitwise

\* The digits of pi that Blowfish starts from, each word of 32 bits as its upper
\* and its lower half.
init_key == <<
  \H243F,\H6A88,\H85A3,\H08D3,\H1319,\H8A2E,\H0370,\H7344,\HA409,\H3822,\H299F,\H31D0,\H082E,\HFA98,\HEC4E,\H6C89,
  \H4528,\H21E6,\H38D0,\H1377,\HBE54,\H66CF,\H34E9,\H0C6C,\HC0AC,\H29B7,\HC97C,\H50DD,\H3F84,\HD5B5,\HB547,\H0917,
  \H9216,\HD5D9,\H8979,\HFB1B>>

init_s0 == <<
  \HD131,\H0BA6,\H98DF,\HB5AC,\H2FFD,\H72DB,\HD01A,\HDFB7,\HB8E1,\HAFED,\H6A26,\H7E96,\HBA7C,\H9045,\HF12C,\H7F99,
  \H24A1,\H9947,\HB391,\H6CF7,\H0801,\HF2E2,\H858E,\HFC16,\H6369,\H20D8,\H7157,\H4E69,\HA458,\HFEA3,\HF493,\H3D7E,
  \H0D95,\H748F,\H728E,\HB658,\H718B,\HCD58,\H8215,\H4AEE,\H7B54,\HA41D,\HC25A,\H59B5,\H9C30,\HD539,\H2AF2,\H6013,
  \HC5D1,\HB023,\H2860,\H85F0,\HCA41,\H7918,\HB8DB,\H38EF,\H8E79,\HDCB0,\H603A,\H180E,\H6C9E,\H0E8B,\HB01E,\H8A3E,
  \HD715,\H77C1,\HBD31,\H4B27,\H78AF,\H2FDA,\H5560,\H5C60,\HE655,\H25F3,\HAA55,\HAB94,\H5748,\H9862,\H63E8,\H1440,
  \H55CA,\H396A,\H2AAB,\H10B6,\HB4CC,\H5C34,\H1141,\HE8CE,\HA154,\H86AF,\H7C72,\HE993,\HB3EE,\H1411,\H636F,\HBC2A,
  \H2BA9,\HC55D,\H7418,\H31F6,\HCE5C,\H3E16,\H9B87,\H931E,\HAFD6,\HBA33,\H6C24,\HCF5C,\H7A32,\H5381,\H2895,\H8677,
  \H3B8F,\H4898,\H6B4B,\HB9AF,\HC4BF,\HE81B,\H6628,\H2193,\H61D8,\H09CC,\HFB21,\HA991,\H487C,\HAC60,\H5DEC,\H8032,
  \HEF84,\H5D5D,\HE985,\H75B1,\HDC26,\H2302,\HEB65,\H1B88,\H2389,\H3E81,\HD396,\HACC5,\H0F6D,\H6FF3,\H83F4,\H4239,
  \H2E0B,\H4482,\HA484,\H2004,\H69C8,\HF04A,\H9E1F,\H9B5E,\H21C6,\H6842,\HF6E9,\H6C9A,\H670C,\H9C61,\HABD3,\H88F0,
  \H6A51,\HA0D2,\HD854,\H2F68,\H960F,\HA728,\HAB51,\H33A3,\H6EEF,\H0B6C,\H137A,\H3BE4,\HBA3B,\HF050,\H7EFB,\H2A98,
  \HA1F1,\H651D,\H39AF,\H0176,\H66CA,\H593E,\H8243,\H0E88,\H8CEE,\H8619,\H456F,\H9FB4,\H7D84,\HA5C3,\H3B8B,\H5EBE,
  \HE06F,\H75D8,\H85C1,\H2073,\H401A,\H449F,\H56C1,\H6AA6,\H4ED3,\HAA62,\H363F,\H7706,\H1BFE,\HDF72,\H429B,\H023D,
  \H37D0,\HD724,\HD00A,\H1248,\HDB0F,\HEAD3,\H49F1,\HC09B,\H0753,\H72C9,\H8099,\H1B7B,\H25D4,\H79D8,\HF6E8,\HDEF7,
  \HE3FE,\H501A,\HB679,\H4C3B,\H976C,\HE0BD,\H04C0,\H06BA,\HC1A9,\H4FB6,\H409F,\H60C4,\H5E5C,\H9EC2,\H196A,\H2463,
  \H68FB,\H6FAF,\H3E6C,\H53B5,\H1339,\HB2EB,\H3B52,\HEC6F,\H6DFC,\H511F,\H9B30,\H952C,\HCC81,\H4544,\HAF5E,\HBD09,
  \HBEE3,\HD004,\HDE33,\H4AFD,\H660F,\H2807,\H192E,\H4BB3,\HC0CB,\HA857,\H45C8,\H740F,\HD20B,\H5F39,\HB9D3,\HFBDB,
  \H5579,\HC0BD,\H1A60,\H320A,\HD6A1,\H00C6,\H402C,\H7279,\H679F,\H25FE,\HFB1F,\HA3CC,\H8EA5,\HE9F8,\HDB32,\H22F8,
  \H3C75,\H16DF,\HFD61,\H6B15,\H2F50,\H1EC8,\HAD05,\H52AB,\H323D,\HB5FA,\HFD23,\H8760,\H5331,\H7B48,\H3E00,\HDF82,
  \H9E5C,\H57BB,\HCA6F,\H8CA0,\H1A87,\H562E,\HDF17,\H69DB,\HD542,\HA8F6,\H287E,\HFFC3,\HAC67,\H32C6,\H8C4F,\H5573,
  \H695B,\H27B0,\HBBCA,\H58C8,\HE1FF,\HA35D,\HB8F0,\H11A0,\H10FA,\H3D98,\HFD21,\H83B8,\H4AFC,\HB56C,\H2DD1,\HD35B,
  \H9A53,\HE479,\HB6F8,\H4565,\HD28E,\H49BC,\H4BFB,\H9790,\HE1DD,\HF2DA,\HA4CB,\H7E33,\H62FB,\H1341,\HCEE4,\HC6E8,
  \HEF20,\HCADA,\H3677,\H4C01,\HD07E,\H9EFE,\H2BF1,\H1FB4,\H95DB,\HDA4D,\HAE90,\H9198,\HEAAD,\H8E71,\H6B93,\HD5A0,
  \HD08E,\HD1D0,\HAFC7,\H25E0,\H8E3C,\H5B2F,\H8E75,\H94B7,\H8FF6,\HE2FB,\HF212,\H2B64,\H8888,\HB812,\H900D,\HF01C,
  \H4FAD,\H5EA0,\H688F,\HC31C,\HD1CF,\HF191,\HB3A8,\HC1AD,\H2F2F,\H2218,\HBE0E,\H1777,\HEA75,\H2DFE,\H8B02,\H1FA1,
  \HE5A0,\HCC0F,\HB56F,\H74E8,\H18AC,\HF3D6,\HCE89,\HE299,\HB4A8,\H4FE0,\HFD13,\HE0B7,\H7CC4,\H3B81,\HD2AD,\HA8D9,
  \H165F,\HA266,\H8095,\H7705,\H93CC,\H7314,\H211A,\H1477,\HE6AD,\H2065,\H77B5,\HFA86,\HC754,\H42F5,\HFB9D,\H35CF,
  \HEBCD,\HAF0C,\H7B3E,\H89A0,\HD641,\H1BD3,\HAE1E,\H7E49,\H0025,\H0E2D,\H2071,\HB35E,\H2268,\H00BB,\H57B8,\HE0AF,
  \H2464,\H369B,\HF009,\HB91E,\H5563,\H911D,\H59DF,\HA6AA,\H78C1,\H4389,\HD95A,\H537F,\H207D,\H5BA2,\H02E5,\HB9C5,
  \H8326,\H0376,\H6295,\HCFA9,\H11C8,\H1968,\H4E73,\H4A41,\HB347,\H2DCA,\H7B14,\HA94A,\H1B51,\H0052,\H9A53,\H2915,
  \HD60F,\H573F,\HBC9B,\HC6E4,\H2B60,\HA476,\H81E6,\H7400,\H08BA,\H6FB5,\H571B,\HE91F,\HF296,\HEC6B,\H2A0D,\HD915,
  \HB663,\H6521,\HE7B9,\HF9B6,\HFF34,\H052E,\HC585,\H5664,\H53B0,\H2D5D,\HA99F,\H8FA1,\H08BA,\H4799,\H6E85,\H076A>>

init_s1 == <<
  \H4B7A,\H70E9,\HB5B3,\H2944,\HDB75,\H092E,\HC419,\H2623,\HAD6E,\HA6B0,\H49A7,\HDF7D,\H9CEE,\H60B8,\H8FED,\HB266,
  \HECAA,\H8C71,\H699A,\H17FF,\H5664,\H526C,\HC2B1,\H9EE1,\H1936,\H02A5,\H7509,\H4C29,\HA059,\H1340,\HE418,\H3A3E,
  \H3F54,\H989A,\H5B42,\H9D65,\H6B8F,\HE4D6,\H99F7,\H3FD6,\HA1D2,\H9C07,\HEFE8,\H30F5,\H4D2D,\H38E6,\HF025,\H5DC1,
  \H4CDD,\H2086,\H8470,\HEB26,\H6382,\HE9C6,\H021E,\HCC5E,\H0968,\H6B3F,\H3EBA,\HEFC9,\H3C97,\H1814,\H6B6A,\H70A1,
  \H687F,\H3584,\H52A0,\HE286,\HB79C,\H5305,\HAA50,\H0737,\H3E07,\H841C,\H7FDE,\HAE5C,\H8E7D,\H44EC,\H5716,\HF2B8,
  \HB03A,\HDA37,\HF050,\H0C0D,\HF01C,\H1F04,\H0200,\HB3FF,\HAE0C,\HF51A,\H3CB5,\H74B2,\H2583,\H7A58,\HDC09,\H21BD,
  \HD191,\H13F9,\H7CA9,\H2FF6,\H9432,\H4773,\H22F5,\H4701,\H3AE5,\HE581,\H37C2,\HDADC,\HC8B5,\H7634,\H9AF3,\HDDA7,
  \HA944,\H6146,\H0FD0,\H030E,\HECC8,\HC73E,\HA475,\H1E41,\HE238,\HCD99,\H3BEA,\H0E2F,\H3280,\HBBA1,\H183E,\HB331,
  \H4E54,\H8B38,\H4F6D,\HB908,\H6F42,\H0D03,\HF60A,\H04BF,\H2CB8,\H1290,\H2497,\H7C79,\H5679,\HB072,\HBCAF,\H89AF,
  \HDE9A,\H771F,\HD993,\H0810,\HB38B,\HAE12,\HDCCF,\H3F2E,\H5512,\H721F,\H2E6B,\H7124,\H501A,\HDDE6,\H9F84,\HCD87,
  \H7A58,\H4718,\H7408,\HDA17,\HBC9F,\H9ABC,\HE94B,\H7D8C,\HEC7A,\HEC3A,\HDB85,\H1DFA,\H6309,\H4366,\HC464,\HC3D2,
  \HEF1C,\H1847,\H3215,\HD908,\HDD43,\H3B37,\H24C2,\HBA16,\H12A1,\H4D43,\H2A65,\HC451,\H5094,\H0002,\H133A,\HE4DD,
  \H71DF,\HF89E,\H1031,\H4E55,\H81AC,\H77D6,\H5F11,\H199B,\H0435,\H56F1,\HD7A3,\HC76B,\H3C11,\H183B,\H5924,\HA509,
  \HF28F,\HE6ED,\H97F1,\HFBFA,\H9EBA,\HBF2C,\H1E15,\H3C6E,\H86E3,\H4570,\HEAE9,\H6FB1,\H860E,\H5E0A,\H5A3E,\H2AB3,
  \H771F,\HE71C,\H4E3D,\H06FA,\H2965,\HDCB9,\H99E7,\H1D0F,\H803E,\H89D6,\H5266,\HC825,\H2E4C,\HC978,\H9C10,\HB36A,
  \HC615,\H0EBA,\H94E2,\HEA78,\HA5FC,\H3C53,\H1E0A,\H2DF4,\HF2F7,\H4EA7,\H361D,\H2B3D,\H1939,\H260F,\H19C2,\H7960,
  \H5223,\HA708,\HF713,\H12B6,\HEBAD,\HFE6E,\HEAC3,\H1F66,\HE3BC,\H4595,\HA67B,\HC883,\HB17F,\H37D1,\H018C,\HFF28,
  \HC332,\HDDEF,\HBE6C,\H5AA5,\H6558,\H2185,\H68AB,\H9802,\HEECE,\HA50F,\HDB2F,\H953B,\H2AEF,\H7DAD,\H5B6E,\H2F84,
  \H1521,\HB628,\H2907,\H6170,\HECDD,\H4775,\H619F,\H1510,\H13CC,\HA830,\HEB61,\HBD96,\H0334,\HFE1E,\HAA03,\H63CF,
  \HB573,\H5C90,\H4C70,\HA239,\HD59E,\H9E0B,\HCBAA,\HDE14,\HEECC,\H86BC,\H6062,\H2CA7,\H9CAB,\H5CAB,\HB2F3,\H846E,
  \H648B,\H1EAF,\H19BD,\HF0CA,\HA023,\H69B9,\H655A,\HBB50,\H4068,\H5A32,\H3C2A,\HB4B3,\H319E,\HE9D5,\HC021,\HB8F7,
  \H9B54,\H0B19,\H875F,\HA099,\H95F7,\H997E,\H623D,\H7DA8,\HF837,\H889A,\H97E3,\H2D77,\H11ED,\H935F,\H1668,\H1281,
  \H0E35,\H8829,\HC7E6,\H1FD6,\H96DE,\HDFA1,\H7858,\HBA99,\H57F5,\H84A5,\H1B22,\H7263,\H9B83,\HC3FF,\H1AC2,\H4696,
  \HCDB3,\H0AEB,\H532E,\H3054,\H8FD9,\H48E4,\H6DBC,\H3128,\H58EB,\HF2EF,\H34C6,\HFFEA,\HFE28,\HED61,\HEE7C,\H3C73,
  \H5D4A,\H14D9,\HE864,\HB7E3,\H4210,\H5D14,\H203E,\H13E0,\H45EE,\HE2B6,\HA3AA,\HABEA,\HDB6C,\H4F15,\HFACB,\H4FD0,
  \HC742,\HF442,\HEF6A,\HBBB5,\H654F,\H3B1D,\H41CD,\H2105,\HD81E,\H799E,\H8685,\H4DC7,\HE44B,\H476A,\H3D81,\H6250,
  \HCF62,\HA1F2,\H5B8D,\H2646,\HFC88,\H83A0,\HC1C7,\HB6A3,\H7F15,\H24C3,\H69CB,\H7492,\H4784,\H8A0B,\H5692,\HB285,
  \H095B,\HBF00,\HAD19,\H489D,\H1462,\HB174,\H2382,\H0E00,\H5842,\H8D2A,\H0C55,\HF5EA,\H1DAD,\HF43E,\H233F,\H7061,
  \H3372,\HF092,\H8D93,\H7E41,\HD65F,\HECF1,\H6C22,\H3BDB,\H7CDE,\H3759,\HCBEE,\H7460,\H4085,\HF2A7,\HCE77,\H326E,
  \HA607,\H8084,\H19F8,\H509E,\HE8EF,\HD855,\H61D9,\H9735,\HA969,\HA7AA,\HC50C,\H06C2,\H5A04,\HABFC,\H800B,\HCADC,
  \H9E44,\H7A2E,\HC345,\H3484,\HFDD5,\H6705,\H0E1E,\H9EC9,\HDB73,\HDBD3,\H1055,\H88CD,\H675F,\HDA79,\HE367,\H4340,
  \HC5C4,\H3465,\H713E,\H38D8,\H3D28,\HF89E,\HF16D,\HFF20,\H153E,\H21E7,\H8FB0,\H3D4A,\HE6E3,\H9F2B,\HDB83,\HADF7>>

init_s2 == <<
  \HE93D,\H5A68,\H9481,\H40F7,\HF64C,\H261C,\H9469,\H2934,\H4115,\H20F7,\H7602,\HD4F7,\HBCF4,\H6B2E,\HD4A2,\H0068,
  \HD408,\H2471,\H3320,\HF46A,\H43B7,\HD4B7,\H5000,\H61AF,\H1E39,\HF62E,\H9724,\H4546,\H1421,\H4F74,\HBF8B,\H8840,
  \H4D95,\HFC1D,\H96B5,\H91AF,\H70F4,\HDDD3,\H66A0,\H2F45,\HBFBC,\H09EC,\H03BD,\H9785,\H7FAC,\H6DD0,\H31CB,\H8504,
  \H96EB,\H27B3,\H55FD,\H3941,\HDA25,\H47E6,\HABCA,\H0A9A,\H2850,\H7825,\H5304,\H29F4,\H0A2C,\H86DA,\HE9B6,\H6DFB,
  \H68DC,\H1462,\HD748,\H6900,\H680E,\HC0A4,\H27A1,\H8DEE,\H4F3F,\HFEA2,\HE887,\HAD8C,\HB58C,\HE006,\H7AF4,\HD6B6,
  \HAACE,\H1E7C,\HD337,\H5FEC,\HCE78,\HA399,\H406B,\H2A42,\H20FE,\H9E35,\HD9F3,\H85B9,\HEE39,\HD7AB,\H3B12,\H4E8B,
  \H1DC9,\HFAF7,\H4B6D,\H1856,\H26A3,\H6631,\HEAE3,\H97B2,\H3A6E,\HFA74,\HDD5B,\H4332,\H6841,\HE7F7,\HCA78,\H20FB,
  \HFB0A,\HF54E,\HD8FE,\HB397,\H4540,\H56AC,\HBA48,\H9527,\H5553,\H3A3A,\H2083,\H8D87,\HFE6B,\HA9B7,\HD096,\H954B,
  \H55A8,\H67BC,\HA115,\H9A58,\HCCA9,\H2963,\H99E1,\HDB33,\HA62A,\H4A56,\H3F31,\H25F9,\H5EF4,\H7E1C,\H9029,\H317C,
  \HFDF8,\HE802,\H0427,\H2F70,\H80BB,\H155C,\H0528,\H2CE3,\H95C1,\H1548,\HE4C6,\H6D22,\H48C1,\H133F,\HC70F,\H86DC,
  \H07F9,\HC9EE,\H4104,\H1F0F,\H4047,\H79A4,\H5D88,\H6E17,\H325F,\H51EB,\HD59B,\HC0D1,\HF2BC,\HC18F,\H4111,\H3564,
  \H257B,\H7834,\H602A,\H9C60,\HDFF8,\HE8A3,\H1F63,\H6C1B,\H0E12,\HB4C2,\H02E1,\H329E,\HAF66,\H4FD1,\HCAD1,\H8115,
  \H6B23,\H95E0,\H333E,\H92E1,\H3B24,\H0B62,\HEEBE,\HB922,\H85B2,\HA20E,\HE6BA,\H0D99,\HDE72,\H0C8C,\H2DA2,\HF728,
  \HD012,\H7845,\H95B7,\H94FD,\H647D,\H0862,\HE7CC,\HF5F0,\H5449,\HA36F,\H877D,\H48FA,\HC39D,\HFD27,\HF33E,\H8D1E,
  \H0A47,\H6341,\H992E,\HFF74,\H3A6F,\H6EAB,\HF4F8,\HFD37,\HA812,\HDC60,\HA1EB,\HDDF8,\H991B,\HE14C,\HDB6E,\H6B0D,
  \HC67B,\H5510,\H6D67,\H2C37,\H2765,\HD43B,\HDCD0,\HE804,\HF129,\H0DC7,\HCC00,\HFFA3,\HB539,\H0F92,\H690F,\HED0B,
  \H667B,\H9FFB,\HCEDB,\H7D9C,\HA091,\HCF0B,\HD915,\H5EA3,\HBB13,\H2F88,\H515B,\HAD24,\H7B94,\H79BF,\H763B,\HD6EB,
  \H3739,\H2EB3,\HCC11,\H5979,\H8026,\HE297,\HF42E,\H312D,\H6842,\HADA7,\HC66A,\H2B3B,\H1275,\H4CCC,\H782E,\HF11C,
  \H6A12,\H4237,\HB792,\H51E7,\H06A1,\HBBE6,\H4BFB,\H6350,\H1A6B,\H1018,\H11CA,\HEDFA,\H3D25,\HBDD8,\HE2E1,\HC3C9,
  \H4442,\H1659,\H0A12,\H1386,\HD90C,\HEC6E,\HD5AB,\HEA2A,\H64AF,\H674E,\HDA86,\HA85F,\HBEBF,\HE988,\H64E4,\HC3FE,
  \H9DBC,\H8057,\HF0F7,\HC086,\H6078,\H7BF8,\H6003,\H604D,\HD1FD,\H8346,\HF638,\H1FB0,\H7745,\HAE04,\HD736,\HFCCC,
  \H8342,\H6B33,\HF01E,\HAB71,\HB080,\H4187,\H3C00,\H5E5F,\H77A0,\H57BE,\HBDE8,\HAE24,\H5546,\H4299,\HBF58,\H2E61,
  \H4E58,\HF48F,\HF2DD,\HFDA2,\HF474,\HEF38,\H8789,\HBDC2,\H5366,\HF9C3,\HC8B3,\H8E74,\HB475,\HF255,\H46FC,\HD9B9,
  \H7AEB,\H2661,\H8B1D,\HDF84,\H846A,\H0E79,\H915F,\H95E2,\H466E,\H598E,\H20B4,\H5770,\H8CD5,\H5591,\HC902,\HDE4C,
  \HB90B,\HACE1,\HBB82,\H05D0,\H11A8,\H6248,\H7574,\HA99E,\HB77F,\H19B6,\HE0A9,\HDC09,\H662D,\H09A1,\HC432,\H4633,
  \HE85A,\H1F02,\H09F0,\HBE8C,\H4A99,\HA025,\H1D6E,\HFE10,\H1AB9,\H3D1D,\H0BA5,\HA4DF,\HA186,\HF20F,\H2868,\HF169,
  \HDCB7,\HDA83,\H5739,\H06FE,\HA1E2,\HCE9B,\H4FCD,\H7F52,\H5011,\H5E01,\HA706,\H83FA,\HA002,\HB5C4,\H0DE6,\HD027,
  \H9AF8,\H8C27,\H773F,\H8641,\HC360,\H4C06,\H61A8,\H06B5,\HF017,\H7A28,\HC0F5,\H86E0,\H0060,\H58AA,\H30DC,\H7D62,
  \H11E6,\H9ED7,\H2338,\HEA63,\H53C2,\HDD94,\HC2C2,\H1634,\HBBCB,\HEE56,\H90BC,\HB6DE,\HEBFC,\H7DA1,\HCE59,\H1D76,
  \H6F05,\HE409,\H4B7C,\H0188,\H3972,\H0A3D,\H7C92,\H7C24,\H86E3,\H725F,\H724D,\H9DB9,\H1AC1,\H5BB4,\HD39E,\HB8FC,
  \HED54,\H5578,\H08FC,\HA5B5,\HD83D,\H7CD3,\H4DAD,\H0FC4,\H1E50,\HEF5E,\HB161,\HE6F8,\HA285,\H14D9,\H6C51,\H133C,
  \H6FD5,\HC7E7,\H56E1,\H4EC4,\H362A,\HBFCE,\HDDC6,\HC837,\HD79A,\H3234,\H9263,\H8212,\H670E,\HFA8E,\H4060,\H00E0>>

init_s3 == <<
  \H3A39,\HCE37,\HD3FA,\HF5CF,\HABC2,\H7737,\H5AC5,\H2D1B,\H5CB0,\H679E,\H4FA3,\H3742,\HD382,\H2740,\H99BC,\H9BBE,
  \HD511,\H8E9D,\HBF0F,\H7315,\HD62D,\H1C7E,\HC700,\HC47B,\HB78C,\H1B6B,\H21A1,\H9045,\HB26E,\HB1BE,\H6A36,\H6EB4,
  \H5748,\HAB2F,\HBC94,\H6E79,\HC6A3,\H76D2,\H6549,\HC2C8,\H530F,\HF8EE,\H468D,\HDE7D,\HD573,\H0A1D,\H4CD0,\H4DC6,
  \H2939,\HBBDB,\HA9BA,\H4650,\HAC95,\H26E8,\HBE5E,\HE304,\HA1FA,\HD5F0,\H6A2D,\H519A,\H63EF,\H8CE2,\H9A86,\HEE22,
  \HC089,\HC2B8,\H4324,\H2EF6,\HA51E,\H03AA,\H9CF2,\HD0A4,\H83C0,\H61BA,\H9BE9,\H6A4D,\H8FE5,\H1550,\HBA64,\H5BD6,
  \H2826,\HA2F9,\HA73A,\H3AE1,\H4BA9,\H9586,\HEF55,\H62E9,\HC72F,\HEFD3,\HF752,\HF7DA,\H3F04,\H6F69,\H77FA,\H0A59,
  \H80E4,\HA915,\H87B0,\H8601,\H9B09,\HE6AD,\H3B3E,\HE593,\HE990,\HFD5A,\H9E34,\HD797,\H2CF0,\HB7D9,\H022B,\H8B51,
  \H96D5,\HAC3A,\H017D,\HA67D,\HD1CF,\H3ED6,\H7C7D,\H2D28,\H1F9F,\H25CF,\HADF2,\HB89B,\H5AD6,\HB472,\H5A88,\HF54C,
  \HE029,\HAC71,\HE019,\HA5E6,\H47B0,\HACFD,\HED93,\HFA9B,\HE8D3,\HC48D,\H283B,\H57CC,\HF8D5,\H6629,\H7913,\H2E28,
  \H785F,\H0191,\HED75,\H6055,\HF796,\H0E44,\HE3D3,\H5E8C,\H1505,\H6DD4,\H88F4,\H6DBA,\H03A1,\H6125,\H0564,\HF0BD,
  \HC3EB,\H9E15,\H3C90,\H57A2,\H9727,\H1AEC,\HA93A,\H072A,\H1B3F,\H6D9B,\H1E63,\H21F5,\HF59C,\H66FB,\H26DC,\HF319,
  \H7533,\HD928,\HB155,\HFDF5,\H0356,\H3482,\H8ABA,\H3CBB,\H2851,\H7711,\HC20A,\HD9F8,\HABCC,\H5167,\HCCAD,\H925F,
  \H4DE8,\H1751,\H3830,\HDC8E,\H379D,\H5862,\H9320,\HF991,\HEA7A,\H90C2,\HFB3E,\H7BCE,\H5121,\HCE64,\H774F,\HBE32,
  \HA8B6,\HE37E,\HC329,\H3D46,\H48DE,\H5369,\H6413,\HE680,\HA2AE,\H0810,\HDD6D,\HB224,\H6985,\H2DFD,\H0907,\H2166,
  \HB39A,\H460A,\H6445,\HC0DD,\H586C,\HDECF,\H1C20,\HC8AE,\H5BBE,\HF7DD,\H1B58,\H8D40,\HCCD2,\H017F,\H6BB4,\HE3BB,
  \HDDA2,\H6A7E,\H3A59,\HFF45,\H3E35,\H0A44,\HBCB4,\HCDD5,\H72EA,\HCEA8,\HFA64,\H84BB,\H8D66,\H12AE,\HBF3C,\H6F47,
  \HD29B,\HE463,\H542F,\H5D9E,\HAEC2,\H771B,\HF64E,\H6370,\H740E,\H0D8D,\HE75B,\H1357,\HF872,\H1671,\HAF53,\H7D5D,
  \H4040,\HCB08,\H4EB4,\HE2CC,\H34D2,\H466A,\H0115,\HAF84,\HE1B0,\H0428,\H9598,\H3A1D,\H06B8,\H9FB4,\HCE6E,\HA048,
  \H6F3F,\H3B82,\H3520,\HAB82,\H011A,\H1D4B,\H2772,\H27F8,\H6115,\H60B1,\HE793,\H3FDC,\HBB3A,\H792B,\H3445,\H25BD,
  \HA088,\H39E1,\H51CE,\H794B,\H2F32,\HC9B7,\HA01F,\HBAC9,\HE01C,\HC87E,\HBCC7,\HD1F6,\HCF01,\H11C3,\HA1E8,\HAAC7,
  \H1A90,\H8749,\HD44F,\HBD9A,\HD0DA,\HDECB,\HD50A,\HDA38,\H0339,\HC32A,\HC691,\H3667,\H8DF9,\H317C,\HE0B1,\H2B4F,
  \HF79E,\H59B7,\H43F5,\HBB3A,\HF2D5,\H19FF,\H27D9,\H459C,\HBF97,\H222C,\H15E6,\HFC2A,\H0F91,\HFC71,\H9B94,\H1525,
  \HFAE5,\H9361,\HCEB6,\H9CEB,\HC2A8,\H6459,\H12BA,\HA8D1,\HB6C1,\H075E,\HE305,\H6A0C,\H10D2,\H5065,\HCB03,\HA442,
  \HE0EC,\H6E0E,\H1698,\HDB3B,\H4C98,\HA0BE,\H3278,\HE964,\H9F1F,\H9532,\HE0D3,\H92DF,\HD3A0,\H342B,\H8971,\HF21E,
  \H1B0A,\H7441,\H4BA3,\H348C,\HC5BE,\H7120,\HC376,\H32D8,\HDF35,\H9F8D,\H9B99,\H2F2E,\HE60B,\H6F47,\H0FE3,\HF11D,
  \HE54C,\HDA54,\H1EDA,\HD891,\HCE62,\H79CF,\HCD3E,\H7E6F,\H1618,\HB166,\HFD2C,\H1D05,\H848F,\HD2C5,\HF6FB,\H2299,
  \HF523,\HF357,\HA632,\H7623,\H93A8,\H3531,\H56CC,\HCD02,\HACF0,\H8162,\H5A75,\HEBB5,\H6E16,\H3697,\H88D2,\H73CC,
  \HDE96,\H6292,\H81B9,\H49D0,\H4C50,\H901B,\H71C6,\H5614,\HE6C6,\HC7BD,\H327A,\H140A,\H45E1,\HD006,\HC3F2,\H7B9A,
  \HC9AA,\H53FD,\H62A8,\H0F00,\HBB25,\HBFE2,\H35BD,\HD2F6,\H7112,\H6905,\HB204,\H0222,\HB6CB,\HCF7C,\HCD76,\H9C2B,
  \H5311,\H3EC0,\H1640,\HE3D3,\H38AB,\HBD60,\H2547,\HADF0,\HBA38,\H209C,\HF746,\HCE76,\H77AF,\HA1C5,\H2075,\H6060,
  \H85CB,\HFE4E,\H8AE8,\H8DD8,\H7AAA,\HF9B0,\H4CF9,\HAA7E,\H1948,\HC25C,\H02FB,\H8A8C,\H01C3,\H6AE4,\HD6EB,\HE1F9,
  \H90D4,\HF869,\HA65C,\HDEA0,\H3F09,\H252D,\HC208,\HE69F,\HB74E,\H6132,\HCE77,\HE25B,\H578F,\HDFE3,\H3AC3,\H72E6>>
-----------------------------------------------------------------------------

LENGTH == 13
indata == <<72, 101, 108, 108, 111, 44, 32, 119, 111, 114, 108, 100, 33>>   \* "Hello, world!"
cp == <<1, 2, 3, 4, 5, 6, 7, 8, 9, 0, 10, 11, 12, 13, 14, 15, 15, 14, 13, 12, 11, 10, 0, 9, 8, 7, 6, 5, 4, 3, 2, 1>>

\* Byte i of the key from its two hexadecimal digits.
ukey_byte(i) == cp[2 * i + 1] * 16 + cp[2 * i + 2]

Word(table, i) == <<table[2 * i + 1], table[2 * i + 2]>>
InitKey == [i \in 0..17 |-> Word(init_key, i)]
InitBox(k) == LET table == <<init_s0, init_s1, init_s2, init_s3>>[k + 1] IN [i \in 0..255 |-> Word(table, i)]

ZeroWord == <<0, 0>>
XorWords(a, b) == <<a[1] ^^ b[1], a[2] ^^ b[2]>>
AddWords(a, b) == <<(a[1] + b[1] + (a[2] + b[2]) \div 65536) % 65536, (a[2] + b[2]) % 65536>>

\* The bytes of a word, the most significant first, and the word of four bytes.
Bytes(w) == <<w[1] \div 256, w[1] % 256, w[2] \div 256, w[2] % 256>>
WordOf(b0, b1, b2, b3) == <<b0 * 256 + b1, b2 * 256 + b3>>

\* The bytes of a block, and the block of eight bytes.
BlockBytes(block) == [i \in 0..7 |-> (Bytes(block[1]) \o Bytes(block[2]))[i + 1]]
BlockOf(iv) == <<WordOf(iv[0], iv[1], iv[2], iv[3]), WordOf(iv[4], iv[5], iv[6], iv[7])>>

\* The key mixed with the first 8 of the 16 bytes of the user's.
MixedKey(key, ukey) ==
    LET byte(i) == ukey[i % 8]
    IN  [i \in 0..17 |-> XorWords(key[i], WordOf(byte(4 * i), byte(4 * i + 1), byte(4 * i + 2), byte(4 * i + 3)))]

\* What the boxes s make of a word; s[k][i] is word i of box k.
F(s, r) == LET b == Bytes(r) IN AddWords(XorWords(AddWords(s[0][b[1]], s[1][b[2]]), s[2][b[3]]), s[3][b[4]])

\* The cipher of a block with key k: what rounds n to 16 make of it.
Half == 0..65535
Pairs == (Half \X Half) \X (Half \X Half)
Encrypted(block, k, s) ==
    LET rounds[n \in 1..17, b \in Pairs] ==
            IF n = 17 THEN <<XorWords(b[2], k[17]), b[1]>>
            ELSE rounds[n + 1, <<XorWords(XorWords(b[2], k[n]), F(s, b[1])), b[1]>>]
    IN  rounds[1, <<XorWords(block[1], k[0]), block[2]>>]

\* The key and then the boxes are replaced by blocks: the place of the words
\* of a box that go with index2.
KEY_WORDS == 20
ALL_WORDS == 256 * 4 + 20
Box(index2) == (index2 - KEY_WORDS) \div 256
BoxIndex(index2) == (index2 - KEY_WORDS) % 256

\* The application prints src/golden_result/blowfish.txt.
golden == <<\H3E, \HCB, \HF3, \HE6, \HB0, \HB5, \H80, \H57, \HD7, \HDB, \HC6, \H6B, \H31>>
=============================================================================
